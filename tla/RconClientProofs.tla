-------------------------- MODULE RconClientProofs --------------------------
(***************************************************************************)
(* Proofs about RconClient, for any options, timeouts, responses and       *)
(* numbers of attempts and commands: sockets are not leaked, Execute keeps *)
(* to the timeout of the Client, commands are not sent again beyond the    *)
(* attempts it makes, or at all if they are refused, and the handler       *)
(* recovers.                                                               *)
(***************************************************************************)
EXTENDS RconAnswerProofs, FiniteSetTheorems

(* The client has a socket exactly while it authenticates or holds an open *)
(* Conn, and it holds none while it dials, waits, or after it has ended.   *)
SocketInv ==
    /\ conn \in {"none", "open", "closed"}
    /\ socks = IF conn = "open" \/ pc = "auth" THEN 1 ELSE 0
    /\ pc \in {"start", "dial", "auth", "backoff", "end"} => conn # "open"

-----------------------------------------------------------------------------
(* Both hold at the start of each program. *)
LEMMA InitSocketTime == Init => SocketInv /\ TimeInv
BY ClientAssumption DEF Init, SocketInv, TimeInv

(* Sooner is a duration that ends by the end of the timeout. *)
LEMMA SoonerBound ==
    ASSUME opt \in Configs, NEW d \in Nat, NEW a \in Nat, NEW t \in Nat
    PROVE  /\ Sooner(d, a, t) \in Nat
           /\ a > 0 /\ opt.timeout > 0 /\ t <= opt.timeout => t + Sooner(d, a, t) <= opt.timeout
<1>1. opt.timeout \in Nat
  BY ClientAssumption, Zenon
<1> QED
  BY <1>1 DEF Sooner, HasDeadline, Done, Min2

-----------------------------------------------------------------------------
(* When Conn.Execute has returned, its Conn is closed or kept. *)
LEMMA ConnReturnedSockets ==
    ASSUME SocketInv, pc \in {"send", "read"}, NEW e, NEW body, NEW n, ConnReturned(e, body, n)
    PROVE  SocketInv'
<1> USE DEF SocketInv
<1>1. ASSUME NEW to \in {"none", "closed"}, CloseConn(n, to)
      PROVE  conn' = to /\ socks' = 0
  BY <1>1 DEF CloseConn
<1>2. CASE opt.driver = "single"
  <2>1. pc' \in {"end", "backoff", "dial"}
    BY <1>2, Zenon DEF ConnReturned, AttemptFailed, Return, Redial
  <2> QED
    BY <1>1, <1>2, <2>1, Zenon DEF ConnReturned, CloseOnce
<1>3. CASE opt.driver # "single"
  <2>1. CASE CloseConn(n, "closed") /\ Redial(2)
    BY <1>1, <2>1, Zenon DEF Redial
  <2>2. CASE SessionReturned(e, body, n)
    <3>1. pc' = "ready"
      BY <2>2, Zenon DEF SessionReturned, Return
    <3>2. CASE Drops(e)
      BY <1>1, <2>2, <3>1, <3>2, Zenon DEF SessionReturned
    <3>3. CASE ~Drops(e)
      BY <2>2, <3>1, <3>3, Zenon DEF SessionReturned, KeepConn
    <3> QED
      BY <3>2, <3>3, Zenon
  <2> QED
    BY <1>3, <2>1, <2>2, Zenon DEF ConnReturned
<1> QED
  BY <1>2, <1>3, Zenon

(* When Client.dial has returned an error, there is no Conn. *)
LEMMA DialReturnedConn ==
    ASSUME SocketInv, conn # "open", NEW e, DialReturned(e)
    PROVE  conn' \in {"none", "closed"} /\ pc' \in {"end", "backoff", "dial", "ready"}
BY Zenon DEF SocketInv, DialReturned, AttemptFailed, Return, Redial

(* Each step keeps the count of sockets. *)
LEMMA SocketStep ==
    ASSUME SocketInv, [Next]_vars
    PROVE  SocketInv'
<1> USE DEF SocketInv
<1>1. CASE MainEnds \/ RunSingle \/ RunInteractive \/ SessionExecute \/ HttpRefuse
  BY <1>1, Zenon DEF MainEnds, RunSingle, RunInteractive, SessionExecute, HttpRefuse, TakeCommand, connVars
<1>2. CASE Quit
  BY <1>2 DEF Quit, CloseConn
<1>3. CASE Dialed
  BY <1>3 DEF Dialed
<1>4. CASE DialError
  <2>1. PICK e : DialReturned(e)
    BY <1>4, Zenon DEF DialError
  <2> QED
    BY <1>4, <2>1, DialReturnedConn, Zenon DEF DialError
<1>5. CASE Authenticated
  BY <1>5, Zenon DEF Authenticated
<1>6. CASE AuthError
  <2>1. PICK e : DialReturned(e)
    BY <1>6, Zenon DEF AuthError
  <2> QED
    BY <1>6, <2>1, DialReturnedConn DEF AuthError, SockAfterOpen
<1>7. CASE BackoffOver \/ BackoffCancelled
  BY <1>7, Zenon DEF BackoffOver, BackoffCancelled, Redial, Return, connVars
<1>8. CASE SendError
  BY <1>8, ConnReturnedSockets, Zenon DEF SendError
<1>9. CASE Send
  BY <1>9, Zenon DEF Send
<1>10. CASE Read
  <2>1. CASE UNCHANGED <<conn, socks, pc>>
    BY <2>1, Zenon
  <2>2. CASE \E e, body, n : ConnReturned(e, body, n)
    BY <1>10, <2>2, ConnReturnedSockets, Zenon DEF Read
  <2> QED
    BY <1>10, <2>1, <2>2, Zenon DEF Read, ReadResponse, KeepConn
<1>11. CASE ReadError
  <2>1. PICK e, body, n : ConnReturned(e, body, n)
    BY <1>11, Zenon DEF ReadError
  <2> QED
    BY <1>11, <2>1, ConnReturnedSockets, Zenon DEF ReadError
<1>12. CASE ServerStep
  BY <1>12, Zenon DEF ServerStep, ServerRun, ServerEcho, ServerWrite, Arrive, Drop, LateRun, clientVars, connVars
<1>13. CASE Tick
  BY <1>13, Zenon DEF Tick, connVars
<1>14. CASE UNCHANGED vars
  BY <1>14, Zenon DEF vars, connVars
<1> QED
  BY <1>1, <1>2, <1>3, <1>4, <1>5, <1>6, <1>7, <1>8, <1>9, <1>10, <1>11, <1>12, <1>13, <1>14, Zenon
     DEF Next, ClientStep, UserStep

-----------------------------------------------------------------------------
(* A call that has returned has no deadline left. *)
LEMMA ReturnTime ==
    ASSUME TimeInv, UNCHANGED conf, NEW e, NEW body, NEW to \in {"ready", "end"}, Return(e, body, to)
    PROVE  TimeInv'
<1>1. opt.timeout \in Nat
  BY ClientAssumption, Zenon DEF TimeInv
<1> QED
  BY <1>1 DEF TimeInv, Return, conf

(* A new attempt dials under what is left of the timeout. *)
LEMMA RedialTime ==
    ASSUME TimeInv, UNCHANGED conf, NEW a \in Nat, Redial(a)
    PROVE  TimeInv'
<1>1. DialTimeout \in Nat
  BY ClientAssumption, Zenon
<1>2. opt \in Configs /\ elapsed \in Nat
  BY Zenon DEF TimeInv
<1>3. dl' = Sooner(DialTimeout, a, elapsed) /\ dl' \in Nat
  BY <1>1, <1>2, SoonerBound, Zenon DEF Redial
<1>4. a > 0 /\ opt.timeout > 0 /\ elapsed <= opt.timeout => elapsed + dl' <= opt.timeout
  BY <1>1, <1>2, <1>3, SoonerBound, Zenon
<1> QED
  BY <1>3, <1>4, Zenon DEF TimeInv, Redial, conf

(* Client.Execute after a failed attempt returns, waits or tries again. *)
LEMMA AttemptFailedTime ==
    ASSUME TimeInv, UNCHANGED conf, NEW e, AttemptFailed(e)
    PROVE  TimeInv'
<1>1. CASE Return(e, <<>>, "end")
  BY <1>1, ReturnTime, Zenon
<1>2. CASE pc' = "backoff" /\ UNCHANGED <<attempt, elapsed, dl>>
  BY <1>2, Zenon DEF TimeInv, conf
<1>3. CASE Redial(attempt + 1)
  <2>1. attempt + 1 \in Nat
    BY DEF TimeInv
  <2> QED
    BY <1>3, <2>1, RedialTime, Zenon
<1> QED
  BY <1>1, <1>2, <1>3, Zenon DEF AttemptFailed

(* The same when Conn.Execute has returned to any of its callers ... *)
LEMMA ConnReturnedTime ==
    ASSUME TimeInv, UNCHANGED conf, NEW e, NEW body, NEW n, ConnReturned(e, body, n)
    PROVE  TimeInv'
<1>1. CASE Return(e, body, "end") \/ Return(e, body, "ready")
  BY <1>1, ReturnTime, Zenon
<1>2. CASE AttemptFailed(e)
  BY <1>2, AttemptFailedTime, Zenon
<1>3. CASE Redial(2)
  BY <1>3, RedialTime, Zenon
<1> QED
  BY <1>1, <1>2, <1>3, Zenon DEF ConnReturned, SessionReturned

(* ... and when Client.dial has. *)
LEMMA DialReturnedTime ==
    ASSUME TimeInv, UNCHANGED conf, NEW e, DialReturned(e)
    PROVE  TimeInv'
<1>1. CASE Return(e, <<>>, "end") \/ Return(e, <<>>, "ready")
  BY <1>1, ReturnTime, Zenon
<1>2. CASE AttemptFailed(e)
  BY <1>2, AttemptFailedTime, Zenon
<1> QED
  BY <1>1, <1>2, Zenon DEF DialReturned

(* Time passes only while a deadline, or the timeout, has not been reached. *)
LEMMA TickTime ==
    ASSUME TimeInv, Tick
    PROVE  TimeInv'
<1> USE DEF TimeInv
<1>1. opt.timeout \in Nat
  BY ClientAssumption, Zenon
<1>2. UNCHANGED <<opt, mode, pc, attempt>>
  BY Zenon DEF Tick, conf
<1>3. CASE pc \in {"dial", "auth", "read"}
  <2>1. dl > 0
    <3>1. pc = "read" => Packet1.err = "wait"
      BY Zenon DEF Tick, Blocked
    <3>2. Packet1.err = "wait" => dl # 0
      BY Zenon DEF Packet1, ReadFrom, ReadFull
    <3> QED
      BY <1>3, <3>1, <3>2, SMTT(30) DEF Tick, Blocked
  <2>2. dl' = dl - 1 /\ elapsed' = IF HasDeadline(attempt) THEN elapsed + 1 ELSE elapsed
    BY <1>3, Zenon DEF Tick
  <2> QED
    BY <1>1, <1>2, <1>3, <2>1, <2>2, SMTT(30) DEF HasDeadline
<1>4. CASE pc \notin {"dial", "auth", "read"}
  <2>1. pc = "backoff" /\ ~Done(attempt, elapsed) /\ dl' = dl
    BY <1>4, Zenon DEF Tick, Blocked
  <2>2. elapsed' = IF HasDeadline(attempt) THEN elapsed + 1 ELSE elapsed
    BY Zenon DEF Tick
  <2> QED
    BY <1>1, <1>2, <2>1, <2>2, SMTT(30) DEF Done, HasDeadline
<1> QED
  BY <1>3, <1>4, Zenon

(* Each step keeps to the timeout. *)
LEMMA TimeStep ==
    ASSUME TimeInv, [Next]_vars
    PROVE  TimeInv'
<1>1. opt.timeout \in Nat /\ DialTimeout \in Nat /\ Deadline \in Nat /\ IdleWindow \in Nat
  BY ClientAssumption, Zenon DEF TimeInv
<1>2. opt \in Configs /\ attempt \in Nat /\ elapsed \in Nat
  BY Zenon DEF TimeInv
<1>3. CASE MainEnds \/ HttpRefuse \/ Quit
  BY <1>3, Zenon DEF MainEnds, HttpRefuse, Quit, callVars, conf, TimeInv
<1>4. CASE RunSingle
  <2>1. dl' \in Nat /\ (opt.timeout > 0 => 0 + dl' <= opt.timeout)
    <3>1. dl' = Sooner(DialTimeout, 1, 0) /\ 1 \in Nat /\ 0 \in Nat
      BY <1>4, Zenon DEF RunSingle
    <3>2. /\ Sooner(DialTimeout, 1, 0) \in Nat
          /\ 1 > 0 /\ opt.timeout > 0 /\ 0 <= opt.timeout => 0 + Sooner(DialTimeout, 1, 0) <= opt.timeout
      BY <1>1, <1>2, <3>1, SoonerBound, Zenon
    <3> QED
      BY <1>1, <3>1, <3>2
  <2> QED
    BY <1>1, <1>4, <2>1 DEF RunSingle, TakeCommand, TimeInv
<1>5. CASE RunInteractive
  BY <1>1, <1>5 DEF RunInteractive, TimeInv
<1>6. CASE SessionExecute
  BY <1>1, <1>6 DEF SessionExecute, TakeCommand, TimeInv
<1>7. CASE Dialed \/ Send
  <2>1. /\ dl' = Sooner(Deadline, attempt, elapsed)
        /\ pc' \in {"auth", "read"} /\ pc # "start" /\ UNCHANGED <<opt, mode, attempt, elapsed>>
    BY <1>7, Zenon DEF Dialed, Send, execVars, conf
  <2>2. dl' \in Nat /\ (attempt > 0 /\ opt.timeout > 0 /\ elapsed <= opt.timeout => elapsed + dl' <= opt.timeout)
    BY <1>1, <1>2, <2>1, SoonerBound, Zenon
  <2> QED
    BY <2>1, <2>2, Zenon DEF TimeInv
<1>8. CASE DialError \/ AuthError
  <2>1. PICK e : DialReturned(e)
    BY <1>8, Zenon DEF DialError, AuthError
  <2> QED
    BY <1>8, <2>1, DialReturnedTime, Zenon DEF DialError, AuthError
<1>9. CASE Authenticated
  BY <1>9 DEF Authenticated, conf, TimeInv
<1>10. CASE BackoffOver
  <2>1. attempt + 1 \in Nat
    BY <1>2
  <2> QED
    BY <1>10, <2>1, RedialTime, Zenon DEF BackoffOver
<1>11. CASE BackoffCancelled
  BY <1>11, ReturnTime, Zenon DEF BackoffCancelled
<1>12. CASE SendError
  BY <1>12, ConnReturnedTime, Zenon DEF SendError, execVars
<1>13. CASE Read
  <2>1. UNCHANGED conf
    BY <1>13, Zenon DEF Read, execVars
  <2>2. CASE /\ UNCHANGED <<pc, attempt, elapsed>>
             /\ dl' = IF mode = "idle" THEN IdleWindow ELSE dl
    BY <1>1, <2>1, <2>2, Zenon DEF TimeInv, conf
  <2>3. CASE \E e, body, n : ConnReturned(e, body, n)
    BY <2>1, <2>3, ConnReturnedTime, Zenon
  <2> QED
    BY <1>13, <2>2, <2>3, Zenon DEF Read, ReadResponse
<1>14. CASE ReadError
  <2>1. PICK e, body, n : ConnReturned(e, body, n)
    BY <1>14, Zenon DEF ReadError
  <2> QED
    BY <1>14, <2>1, ConnReturnedTime, Zenon DEF ReadError, execVars
<1>15. CASE ServerStep
  BY <1>15, Zenon DEF ServerStep, ServerRun, ServerEcho, ServerWrite, Arrive, Drop, LateRun, clientVars, callVars,
               conf, TimeInv
<1>16. CASE Tick
  BY <1>16, TickTime, Zenon
<1>17. CASE UNCHANGED vars
  BY <1>17, Zenon DEF vars, callVars, conf, TimeInv
<1> QED
  BY <1>3, <1>4, <1>5, <1>6, <1>7, <1>8, <1>9, <1>10, <1>11, <1>12, <1>13, <1>14, <1>15, <1>16, <1>17, Zenon
     DEF Next, ClientStep, UserStep

-----------------------------------------------------------------------------
(* What the server has still to read is counted by Pending. *)
Hits(q, n) == {i \in DOMAIN q : q[i].n = n}

(* The server has a number of packets of a command to read. *)
LEMMA PendingType ==
    ASSUME NEW q \in Seq(Queued), NEW n
    PROVE  IsFiniteSet(Hits(q, n)) /\ Pending(q, n) = Cardinality(Hits(q, n)) /\ Pending(q, n) \in Nat
<1>1. Len(q) \in Nat /\ DOMAIN q = 1..Len(q)
  BY LenProperties, Zenon
<1>2. IsFiniteSet(1..Len(q)) /\ Hits(q, n) \in SUBSET (1..Len(q))
  BY <1>1, FS_Interval DEF Hits
<1>3. IsFiniteSet(Hits(q, n))
  BY <1>2, FS_Subset, Zenon
<1> QED
  BY <1>3, FS_CardinalityType, Zenon DEF Pending, Hits

(* Nothing is waiting in an empty queue. *)
LEMMA PendingNone == \A n : Pending(<<>>, n) = 0
<1> SUFFICES ASSUME NEW n PROVE Pending(<<>>, n) = 0
  BY Zenon
<1>1. Hits(<<>>, n) = {}
  BY DEF Hits
<1> QED
  BY <1>1, FS_EmptySet, Zenon DEF Pending, Hits

(* A packet behind the others. *)
LEMMA PendingAppend ==
    ASSUME NEW q \in Seq(Queued), NEW x \in Queued, NEW n
    PROVE  Pending(Append(q, x), n) = IF x.n = n THEN Pending(q, n) + 1 ELSE Pending(q, n)
<1> DEFINE w == Append(q, x)
           k == Len(q) + 1
<1>1. w \in Seq(Queued) /\ Len(w) = k /\ (\A i \in 1..Len(q) : w[i] = q[i]) /\ w[k] = x
  BY AppendProperties
<1>2. Len(q) \in Nat /\ DOMAIN q = 1..Len(q) /\ DOMAIN w = 1..k
  BY <1>1, LenProperties, Zenon
<1> HIDE DEF w
<1>3. Hits(w, n) = IF x.n = n THEN Hits(q, n) \cup {k} ELSE Hits(q, n)
  BY <1>1, <1>2 DEF Hits
<1>4. k \notin Hits(q, n)
  BY <1>2 DEF Hits
<1>5. IsFiniteSet(Hits(q, n)) /\ Pending(q, n) = Cardinality(Hits(q, n))
  BY PendingType, Zenon
<1>6. Pending(w, n) = Cardinality(Hits(w, n))
  BY <1>1, PendingType, Zenon
<1>7. Cardinality(Hits(q, n) \cup {k}) = Cardinality(Hits(q, n)) + 1
  BY <1>4, <1>5, FS_AddElement, Zenon
<1> QED
  BY <1>3, <1>5, <1>6, <1>7, Zenon DEF w

(* The server takes the first one. *)
LEMMA PendingTail ==
    ASSUME NEW q \in Seq(Queued), q # <<>>, NEW n
    PROVE  /\ Tail(q) \in Seq(Queued)
           /\ Pending(Tail(q), n) <= IF Head(q).n = n THEN Pending(q, n) - 1 ELSE Pending(q, n)
<1> DEFINE t == Tail(q)
           S == Hits(t, n)
           T == Hits(q, n) \ {1}
           f == [i \in S |-> i + 1]
<1>1. t \in Seq(Queued) /\ Len(t) = Len(q) - 1 /\ \A i \in 1..Len(t) : t[i] = q[i + 1]
  BY HeadTailProperties, Zenon
<1>2. Len(q) \in Nat \ {0} /\ DOMAIN q = 1..Len(q) /\ DOMAIN t = 1..Len(t) /\ Len(t) \in Nat
  BY <1>1, LenProperties, EmptySeq, Zenon
<1>3. IsFiniteSet(Hits(q, n)) /\ Pending(q, n) = Cardinality(Hits(q, n)) /\ Pending(q, n) \in Nat
  BY PendingType, Zenon
<1>4. Pending(t, n) = Cardinality(S) /\ Pending(t, n) \in Nat
  BY <1>1, PendingType, Zenon
<1>5. 1 \in Hits(q, n) <=> Head(q).n = n
  BY <1>2 DEF Hits
<1> HIDE DEF t
<1>6. \A i \in S : i \in Int /\ i + 1 \in T
  BY <1>1, <1>2 DEF Hits
<1>7. f \in Injection(S, T)
  BY <1>6 DEF Injection, IsInjective
<1>8. IsFiniteSet(T) /\ Cardinality(T) = IF Head(q).n = n THEN Pending(q, n) - 1 ELSE Pending(q, n)
  BY <1>3, <1>5, FS_RemoveElement, Zenon
<1>9. Cardinality(S) <= Cardinality(T)
  BY <1>7, <1>8, FS_Injection, Zenon
<1> QED
  BY <1>1, <1>4, <1>8, <1>9, Zenon DEF t

(* QueueInv: the types of what Sent counts. *)
QueueInv ==
    /\ "inq" \in DOMAIN net /\ net.inq \in Seq(Queued) /\ cmd \in 0..MaxCommands
    /\ runs \in [Commands -> Nat] /\ late \in [Commands -> Nat]

(* A command has been sent a number of times. *)
LEMMA SentType == ASSUME QueueInv, NEW n \in Commands PROVE Sent(n) \in Nat
BY PendingType DEF QueueInv, Sent

(* A step that leaves the counters alone and whose queue has no more of    *)
(* any command than before.                                                *)
LEMMA QueueShrinks ==
    ASSUME QueueInv, UNCHANGED <<runs, late>>, cmd' \in 0..MaxCommands, "inq" \in DOMAIN net',
           net'.inq \in {net.inq, <<>>}
    PROVE  QueueInv' /\ \A n \in Commands : Sent(n)' <= Sent(n)
<1>1. <<>> \in Seq(Queued)
  OBVIOUS
<1>2. QueueInv'
  BY <1>1, Zenon DEF QueueInv
<1>3. ASSUME NEW n \in Commands PROVE Sent(n)' <= Sent(n)
  <2>1. Pending(net.inq, n) \in Nat /\ Pending(net'.inq, n) \in {Pending(net.inq, n), 0}
    BY PendingType, PendingNone, Zenon DEF QueueInv
  <2>2. runs[n] \in Nat /\ late[n] \in Nat /\ runs'[n] = runs[n] /\ late'[n] = late[n]
    BY Zenon DEF QueueInv
  <2> QED
    BY <2>1, <2>2, SMTT(30) DEF Sent
<1> QED
  BY <1>2, <1>3, Zenon

(* What was in the queue of a connection that is gone may be run later.    *)
LEMMA UnreadSent ==
    ASSUME QueueInv, "inq" \in DOMAIN net', net'.inq = <<>>, UNCHANGED <<runs, cmd>>,
           late' = [n \in Commands |-> late[n] + Pending(net.inq, n)]
    PROVE  QueueInv' /\ \A n \in Commands : Sent(n)' <= Sent(n)
<1>1. "inq" \in DOMAIN net' /\ net'.inq = <<>> /\ <<>> \in Seq(Queued)
  OBVIOUS
<1>2. \A n \in Commands : Pending(net.inq, n) \in Nat
  BY PendingType, Zenon DEF QueueInv
<1>3. late' = [n \in Commands |-> late[n] + Pending(net.inq, n)]
  OBVIOUS
<1>4. late' \in [Commands -> Nat] /\ \A n \in Commands : late'[n] = late[n] + Pending(net.inq, n)
  BY <1>2, <1>3 DEF QueueInv
<1>5. \A n \in Commands : Pending(net'.inq, n) = 0
  BY <1>1, PendingNone, Zenon
<1> QED
  BY <1>1, <1>2, <1>4, <1>5, SMTT(30) DEF QueueInv, Sent

(* So it is when Conn.Close closes the socket. *)
LEMMA CloseConnSent ==
    ASSUME QueueInv, NEW to, NEW m, m.inq = net.inq, CloseConn(m, to), UNCHANGED <<runs, cmd>>
    PROVE  QueueInv' /\ \A n \in Commands : Sent(n)' <= Sent(n)
<1>1. "inq" \in DOMAIN net' /\ net'.inq = <<>>
  BY DEF CloseConn, NoNet
<1>2. late' = [n \in Commands |-> late[n] + Pending(net.inq, n)]
  BY Zenon DEF CloseConn
<1> QED
  BY <1>1, <1>2, UnreadSent, Zenon

(* The end of Conn.Execute, which may close the socket, sends nothing. *)
LEMMA ConnReturnedSent ==
    ASSUME QueueInv, NEW e, NEW body, NEW m, m.inq = net.inq, "inq" \in DOMAIN m, ConnReturned(e, body, m),
           UNCHANGED <<runs, cmd>>
    PROVE  QueueInv' /\ \A n \in Commands : Sent(n)' <= Sent(n)
<1>1. CASE \E to : CloseConn(m, to)
  BY <1>1, CloseConnSent, Zenon
<1>2. CASE KeepConn(m)
  BY <1>2, QueueShrinks, Zenon DEF KeepConn, QueueInv
<1> QED
  BY <1>1, <1>2, Zenon DEF ConnReturned, CloseOnce, SessionReturned

(* Every step but Send leaves each command sent at most as often as it was *)
(* before: packets move from the queue to the server, or are lost.         *)
LEMMA SentShrinks ==
    ASSUME QueueInv, cmd' \in 0..MaxCommands, [Next]_vars, ~Send
    PROVE  QueueInv' /\ \A n \in Commands : Sent(n)' <= Sent(n)
<1>1. CASE UNCHANGED <<runs, late, net>>
  BY <1>1, QueueShrinks, Zenon DEF QueueInv
<1>2. CASE MainEnds \/ RunSingle \/ RunInteractive \/ SessionExecute \/ HttpRefuse \/ Authenticated
           \/ BackoffOver \/ BackoffCancelled \/ Tick \/ UNCHANGED vars
  BY <1>1, <1>2, Zenon DEF MainEnds, RunSingle, RunInteractive, SessionExecute, HttpRefuse, Authenticated, BackoffOver,
                   BackoffCancelled, Tick, TakeCommand, vars
<1>3. CASE Quit
  BY <1>3, CloseConnSent, Zenon DEF Quit, callVars
<1>4. CASE Dialed \/ DialError \/ AuthError
  <2>1. "inq" \in DOMAIN net' /\ net'.inq = <<>>
    BY <1>4 DEF Dialed, DialError, AuthError, DialReturned, NoNet
  <2>2. UNCHANGED <<runs, late, cmd>>
    BY <1>4, Zenon DEF Dialed, DialError, AuthError, DialReturned
  <2> QED
    BY <2>1, <2>2, QueueShrinks, Zenon DEF QueueInv
<1>5. CASE SendError
  BY <1>5, ConnReturnedSent, Zenon DEF SendError, execVars, QueueInv
<1>6. CASE Read
  <2> DEFINE m == [net EXCEPT !.wire = Packet1.rest]
  <2>1. m.inq = net.inq /\ "inq" \in DOMAIN m /\ UNCHANGED <<runs, cmd>>
    BY <1>6, Zenon DEF QueueInv, Read, execVars
  <2>2. ReadResponse(Packet1.p, m)
    BY <1>6, Zenon DEF Read
  <2> HIDE DEF m
  <2>3. CASE KeepConn(m)
    BY <2>1, <2>3, QueueShrinks, Zenon DEF KeepConn, QueueInv
  <2>4. CASE \E e, body : ConnReturned(e, body, m)
    BY <2>1, <2>4, ConnReturnedSent, Zenon
  <2> QED
    BY <2>2, <2>3, <2>4, Zenon DEF ReadResponse
<1>7. CASE ReadError
  <2> DEFINE m == [net EXCEPT !.wire = Packet1.rest, !.torn = Torn]
  <2>1. m.inq = net.inq /\ "inq" \in DOMAIN m /\ UNCHANGED <<runs, cmd>>
    BY <1>7, Zenon DEF QueueInv, ReadError, execVars
  <2>2. \E e, body : ConnReturned(e, body, m)
    BY <1>7, Zenon DEF ReadError
  <2> HIDE DEF m
  <2> QED
    BY <2>1, <2>2, ConnReturnedSent, Zenon
<1>8. CASE ServerRun
  <2>1. PICK c \in Commands : ServerReads(c) /\ runs' = [runs EXCEPT ![c] = @ + 1]
                              /\ "inq" \in DOMAIN net' /\ net'.inq = Tail(net.inq)
    BY <1>8, Zenon DEF ServerRun, QueueInv
  <2>2. net.inq \in Seq(Queued) /\ net.inq # <<>> /\ Head(net.inq).n = c
    BY <2>1, Zenon DEF ServerReads, QueueInv
  <2>3. \A n \in Commands :
          /\ Pending(net.inq, n) \in Nat /\ Pending(net'.inq, n) \in Nat
          /\ Pending(net'.inq, n) <= IF n = c THEN Pending(net.inq, n) - 1 ELSE Pending(net.inq, n)
    BY <2>1, <2>2, PendingTail, PendingType, Zenon
  <2>4. net'.inq \in Seq(Queued) /\ UNCHANGED <<late, cmd>>
    BY <1>8, <2>1, <2>2, PendingTail, ZenonT(40) DEF ServerRun, clientVars, callVars, connVars
  <2>5. runs' \in [Commands -> Nat] /\ \A n \in Commands : runs'[n] = IF n = c THEN runs[n] + 1 ELSE runs[n]
    BY <2>1 DEF QueueInv
  <2>6. QueueInv'
    BY <2>1, <2>4, <2>5, Zenon DEF QueueInv
  <2>7. ASSUME NEW n \in Commands PROVE Sent(n)' <= Sent(n)
    <3>1. runs[n] \in Nat /\ late[n] \in Nat /\ late'[n] = late[n]
      BY <2>4, Zenon DEF QueueInv
    <3> QED
      BY <2>3, <2>5, <3>1, SMTT(30) DEF Sent
  <2> QED
    BY <2>6, <2>7, Zenon
<1>9. CASE ServerEcho
  <2>1. "inq" \in DOMAIN net' /\ net'.inq = Tail(net.inq) /\ UNCHANGED <<runs, late, cmd>>
    BY <1>9, Zenon DEF ServerEcho, Written, QueueInv, clientVars, callVars, connVars
  <2>2. net.inq \in Seq(Queued) /\ net.inq # <<>> /\ Head(net.inq).n = 0
    BY <1>9, Zenon DEF ServerEcho, ServerReads, QueueInv
  <2>3. net'.inq \in Seq(Queued)
        /\ \A n \in Commands :
             /\ Pending(net.inq, n) \in Nat /\ Pending(net'.inq, n) \in Nat
             /\ Pending(net'.inq, n) <= Pending(net.inq, n)
    <3>1. \A n \in Commands : Head(net.inq).n # n
      BY <2>2 DEF Commands
    <3> QED
      BY <2>1, <2>2, <3>1, PendingTail, PendingType, Zenon
  <2> QED
    BY <2>1, <2>3 DEF QueueInv, Sent
<1>10. CASE ServerWrite \/ Arrive
  <2>1. UNCHANGED <<runs, late, cmd>>
    BY <1>10, Zenon DEF ServerWrite, Arrive, clientVars, callVars, connVars
  <2>2. "inq" \in DOMAIN net' /\ net'.inq \in {net.inq, <<>>}
    BY <1>10, Zenon DEF ServerWrite, Arrive, Written, NoNet, QueueInv
  <2> QED
    BY <2>1, <2>2, QueueShrinks, Zenon DEF QueueInv
<1>12. CASE Drop
  <2>1. UNCHANGED <<runs, cmd>> /\ late' = [n \in Commands |-> late[n] + Pending(net.inq, n)]
    BY <1>12, Zenon DEF Drop, clientVars, callVars, connVars
  <2>2. "inq" \in DOMAIN net' /\ net'.inq = <<>>
    BY <1>12, Zenon DEF Drop, NoNet
  <2> QED
    BY <2>1, <2>2, UnreadSent, Zenon
<1>11. CASE LateRun
  <2>1. UNCHANGED <<net, cmd>>
    BY <1>11, Zenon DEF LateRun, clientVars, callVars, connVars
  <2>2. \A n \in Commands : Pending(net.inq, n) \in Nat
    BY PendingType, Zenon DEF QueueInv
  <2>3. PICK m \in Commands : late[m] > 0 /\ late' = [late EXCEPT ![m] = @ - 1] /\ runs' = [runs EXCEPT ![m] = @ + 1]
    BY <1>11, Zenon DEF LateRun
  <2>4. late' \in [Commands -> Nat] /\ runs' \in [Commands -> Nat]
    BY <2>3 DEF QueueInv
  <2>5. \A n \in Commands : runs'[n] + late'[n] = runs[n] + late[n]
    BY <2>3, <2>4, SMTT(30) DEF QueueInv
  <2>6. QueueInv'
    BY <2>1, <2>4, Zenon DEF QueueInv
  <2>7. ASSUME NEW n \in Commands PROVE Sent(n)' <= Sent(n)
    <3>1. runs[n] \in Nat /\ late[n] \in Nat /\ runs'[n] \in Nat /\ late'[n] \in Nat
      BY <2>4, Zenon DEF QueueInv
    <3> QED
      BY <2>1, <2>2, <2>5, <3>1, SMTT(30) DEF Sent
  <2> QED
    BY <2>6, <2>7
<1> QED
  BY <1>2, <1>3, <1>4, <1>5, <1>6, <1>7, <1>8, <1>9, <1>10, <1>11, <1>12, Zenon
     DEF Next, ClientStep, UserStep, ServerStep

(* Send adds one packet of the command, and a sentinel that is none. *)
LEMMA SentBySend ==
    ASSUME QueueInv, ByteType, Send
    PROVE  QueueInv' /\ \A n \in Commands : Sent(n)' <= IF n = cmd THEN Sent(n) + 1 ELSE Sent(n)
<1> DEFINE x == [n |-> cmd, ID |-> req']
           y == [n |-> 0, ID |-> NextID(req')]
           q == net.inq
<1>1. UNCHANGED <<runs, late, cmd>> /\ req' \in Int32 /\ NextID(req') \in Int32
  BY NextIDProperties, Zenon DEF Send, execVars, ByteType
<1>2. x \in Queued /\ y \in Queued /\ q \in Seq(Queued)
  BY <1>1, ClientAssumption DEF QueueInv, Queued
<1>3. "inq" \in DOMAIN net' /\ net'.inq \in {q, q \o <<x>>, q \o (<<x>> \o <<y>>)}
  <2>1. <<x>> \o <<>> = <<x>>
    BY <1>2, ConcatEmptySeq
  <2> QED
    BY <2>1, Zenon DEF Send, QueueInv, Request, Sentinel
<1> HIDE DEF x, y
<1>4. q \o <<x>> = Append(q, x) /\ Append(q, x) \in Seq(Queued)
  BY <1>2, AppendIsConcat, AppendProperties, Zenon
<1>5. q \o (<<x>> \o <<y>>) = Append(Append(q, x), y)
  <2>1. <<x>> \in Seq(Queued) /\ <<y>> \in Seq(Queued)
    BY <1>2
  <2>2. q \o (<<x>> \o <<y>>) = (q \o <<x>>) \o <<y>>
    BY <1>2, <2>1, ConcatAssociative, SMTT(30)
  <2> QED
    BY <1>2, <1>4, <2>2, AppendIsConcat, Zenon
<1>6. Append(Append(q, x), y) \in Seq(Queued)
  BY <1>2, <1>4, AppendProperties, Zenon
<1>7. x.n = cmd /\ y.n = 0
  BY Zenon DEF x, y
<1>8. ASSUME NEW n \in Commands
      PROVE  /\ Pending(q, n) \in Nat
             /\ Pending(Append(q, x), n) = IF n = cmd THEN Pending(q, n) + 1 ELSE Pending(q, n)
             /\ Pending(Append(Append(q, x), y), n) = Pending(Append(q, x), n)
  <2>1. n # 0
    BY DEF Commands
  <2>2. Pending(q, n) \in Nat
    BY <1>2, PendingType, Zenon
  <2>3. Pending(Append(q, x), n) = IF x.n = n THEN Pending(q, n) + 1 ELSE Pending(q, n)
    BY <1>2, PendingAppend, Zenon
  <2>4. Pending(Append(Append(q, x), y), n) = IF y.n = n THEN Pending(Append(q, x), n) + 1 ELSE Pending(Append(q, x), n)
    BY <1>2, <1>4, PendingAppend, Zenon
  <2> QED
    BY <1>7, <2>1, <2>2, <2>3, <2>4, Zenon
<1>9. net'.inq \in {q, Append(q, x), Append(Append(q, x), y)}
  BY <1>3, <1>4, <1>5, Zenon
<1>10. QueueInv'
  BY <1>1, <1>2, <1>3, <1>4, <1>6, <1>9, Zenon DEF QueueInv
<1>11. ASSUME NEW n \in Commands PROVE Sent(n)' <= IF n = cmd THEN Sent(n) + 1 ELSE Sent(n)
  <2>1. runs[n] \in Nat /\ late[n] \in Nat /\ runs'[n] = runs[n] /\ late'[n] = late[n]
    BY <1>1, Zenon DEF QueueInv
  <2>2. /\ Pending(q, n) \in Nat
        /\ Pending(net'.inq, n) \in {Pending(q, n), IF n = cmd THEN Pending(q, n) + 1 ELSE Pending(q, n)}
    BY <1>8, <1>9, Zenon
  <2> QED
    BY <2>1, <2>2 DEF Sent
<1> QED
  BY <1>10, <1>11, Zenon

-----------------------------------------------------------------------------
(* How often a command may have been sent: not at all before its call, by  *)
(* every attempt that is over and by the one that waits for an answer.     *)
Tries == IF opt.driver = "single" THEN LastAttempt ELSE 2
Allowed ==
    IF pc \in {"dial", "auth", "send"} THEN (IF attempt = 0 THEN 0 ELSE attempt - 1)
    ELSE IF pc \in {"read", "backoff"} THEN attempt ELSE Tries
Budget(n) == IF n > cmd THEN 0 ELSE IF n = cmd THEN Allowed ELSE Tries

(* PlanInv: how attempts are counted along Execute. *)
PlanInv ==
    /\ opt \in Configs /\ attempt \in Nat /\ cmd \in 0..MaxCommands
    /\ pc \in {"start", "ready", "dial", "auth", "send", "read", "backoff", "end"}
    /\ pc = "start" => cmd = 0 /\ attempt = 0
    /\ pc = "ready" => opt.driver # "single"
    /\ pc \in {"dial", "auth", "send", "read", "backoff"} => attempt <= Tries
    /\ pc \in {"send", "read", "backoff"} => attempt > 0
    /\ opt.driver = "single" /\ pc \in {"dial", "auth"} => attempt > 0
    /\ pc = "backoff" => opt.driver = "single" /\ attempt < Tries

(* There is one attempt at least, whatever WithRetry was given. *)
LEMMA TriesType == ASSUME opt \in Configs PROVE Tries \in Nat \ {0}
BY ClientAssumption DEF Tries, LastAttempt

BudgetTyped == \A n \in Commands : Budget(n) \in Nat

(* The budget is a number, too. *)
LEMMA BudgetType == PlanInv => BudgetTyped
<1> SUFFICES ASSUME PlanInv, NEW n \in Commands PROVE Budget(n) \in Nat
  BY Zenon DEF BudgetTyped
<1>1. Tries \in Nat /\ attempt \in Nat /\ cmd \in Nat
  BY TriesType DEF PlanInv
<1>2. Allowed \in Nat
  BY <1>1 DEF Allowed
<1> QED
  BY <1>1, <1>2, Zenon DEF Budget

(* What an end of the call, another attempt or a pause do to the budget. *)
Planned == PlanInv' /\ \A n \in Commands : Budget(n)' >= Budget(n)

(* The end of a call: no command may be sent any more in it. *)
LEMMA ReturnPlan ==
    ASSUME PlanInv, UNCHANGED <<opt, cmd>>, NEW e, NEW body, NEW to \in {"ready", "end"}, Return(e, body, to),
           to = "ready" => opt.driver # "single"
    PROVE  Planned
<1>1. Tries \in Nat \ {0} /\ Tries' = Tries
  BY TriesType, Zenon DEF PlanInv, Tries, LastAttempt
<1>2. pc' = to /\ attempt' = 0
  BY Zenon DEF Return
<1>3. Allowed' = Tries /\ Allowed \in Nat /\ Allowed <= Tries
  BY <1>1, <1>2 DEF Allowed, PlanInv
<1>4. PlanInv'
  BY <1>1, <1>2, Zenon DEF PlanInv
<1> QED
  BY <1>1, <1>3, <1>4, SMTT(30) DEF Planned, Budget

(* Another attempt: the ones before it may have sent the command. *)
LEMMA RedialPlan ==
    ASSUME PlanInv, UNCHANGED <<opt, cmd>>, pc \in {"dial", "auth", "send", "read", "backoff"},
           attempt < Tries, Redial(attempt + 1)
    PROVE  Planned
<1>1. Tries \in Nat \ {0} /\ Tries' = Tries /\ attempt \in Nat
  BY TriesType, Zenon DEF PlanInv, Tries, LastAttempt
<1>2. pc' = "dial" /\ attempt' = attempt + 1
  BY Zenon DEF Redial
<1>3. Allowed' = attempt /\ Allowed \in Nat /\ Allowed <= attempt
  BY <1>1, <1>2 DEF Allowed
<1>4. PlanInv'
  BY <1>1, <1>2 DEF PlanInv
<1> QED
  BY <1>1, <1>3, <1>4, SMTT(30) DEF Planned, Budget

(* A failed attempt ends the call or makes room for one more (Client.Execute). *)
LEMMA AttemptFailedPlan ==
    ASSUME PlanInv, UNCHANGED <<opt, cmd>>, pc \in {"dial", "auth", "send", "read"}, opt.driver = "single",
           NEW e, AttemptFailed(e)
    PROVE  Planned
<1>1. Tries \in Nat \ {0} /\ Tries' = Tries /\ attempt \in Nat \ {0} /\ Tries = LastAttempt
  BY TriesType DEF PlanInv, Tries, LastAttempt
<1>2. CASE Return(e, <<>>, "end")
  BY <1>2, ReturnPlan, Zenon
<1>3. CASE Retried(e) /\ pc' = "backoff" /\ UNCHANGED attempt
  <2>1. attempt < Tries
    BY <1>1, <1>3, Zenon DEF Retried
  <2>2. Allowed' = attempt /\ Allowed \in Nat /\ Allowed <= attempt
    BY <1>1, <1>3 DEF Allowed
  <2>3. PlanInv'
    BY <1>1, <1>3, <2>1, Zenon DEF PlanInv
  <2> QED
    BY <1>1, <2>2, <2>3 DEF Planned, Budget
<1>4. CASE Retried(e) /\ Redial(attempt + 1)
  BY <1>1, <1>4, RedialPlan, Zenon DEF Retried
<1> QED
  BY <1>2, <1>3, <1>4, Zenon DEF AttemptFailed

(* The same after Conn.Execute, for Client, Session and handler. *)
LEMMA ConnReturnedPlan ==
    ASSUME PlanInv, UNCHANGED <<opt, cmd>>, pc \in {"send", "read"}, NEW e, NEW body, NEW m, ConnReturned(e, body, m)
    PROVE  Planned
<1>1. CASE opt.driver = "single"
  BY <1>1, ReturnPlan, AttemptFailedPlan, Zenon DEF ConnReturned
<1>2. CASE opt.driver # "single"
  <2>1. CASE attempt = 1 /\ Redial(2)
    BY <1>2, <2>1, RedialPlan, SMTT(30) DEF Tries
  <2>2. CASE Return(e, body, "ready")
    BY <1>2, <2>2, ReturnPlan, Zenon
  <2> QED
    BY <1>2, <2>1, <2>2, Zenon DEF ConnReturned, SessionReturned
<1> QED
  BY <1>1, <1>2, Zenon

(* The same after a dial that failed. *)
LEMMA DialReturnedPlan ==
    ASSUME PlanInv, UNCHANGED <<opt, cmd>>, pc \in {"dial", "auth"}, NEW e, DialReturned(e)
    PROVE  Planned
<1>1. CASE opt.driver = "single" /\ AttemptFailed(e)
  BY <1>1, AttemptFailedPlan, Zenon
<1>2. CASE Return(e, <<>>, "end")
  BY <1>2, ReturnPlan, Zenon
<1>3. CASE opt.driver # "single" /\ Return(e, <<>>, "ready")
  BY <1>3, ReturnPlan, Zenon
<1> QED
  BY <1>1, <1>2, <1>3, Zenon DEF DialReturned

(* Each step counts attempts, and only Send uses up one of the budget. *)
LEMMA PlanStep ==
    ASSUME PlanInv, [Next]_vars
    PROVE  PlanInv' /\ \A n \in Commands : Budget(n)' >= IF Send /\ n = cmd THEN Budget(n) + 1 ELSE Budget(n)
<1>1. Tries \in Nat \ {0} /\ attempt \in Nat /\ cmd \in Nat
  BY TriesType DEF PlanInv
<1>2. Allowed \in Nat /\ Allowed <= Tries
  BY <1>1 DEF Allowed, PlanInv
<1>3. opt' = opt /\ Tries' = Tries
  <2>1. opt' = opt
    BY Zenon DEF Next, ClientStep, UserStep, ServerStep, MainEnds, RunSingle, RunInteractive, SessionExecute, HttpRefuse, Quit,
           TakeCommand, Dialed, DialError, Authenticated, AuthError, BackoffOver, BackoffCancelled, SendError, Send,
           Read, ReadError, ServerRun, ServerEcho, ServerWrite, Arrive, Drop, LateRun, Tick, execVars, clientVars, conf, vars
  <2> QED
    BY <2>1, Zenon DEF Tries, LastAttempt
<1>4. CASE Send
  <2>1. pc = "send" /\ pc' = "read" /\ UNCHANGED <<attempt, cmd>>
    BY <1>4, Zenon DEF Send, execVars
  <2>2. PlanInv'
    BY <1>3, <2>1, Zenon DEF PlanInv
  <2>3. Allowed' = Allowed + 1
    BY <1>1, <2>1, SMTT(30) DEF Allowed, PlanInv
  <2> QED
    BY <1>1, <1>2, <1>3, <2>1, <2>2, <2>3, SMTT(30) DEF Budget, Commands
<1>5. SUFFICES ASSUME ~Send PROVE Planned
  BY <1>4, <1>5, Zenon DEF Planned
<1>6. CASE UNCHANGED <<pc, attempt, cmd>>
  <2>1. Allowed' = Allowed /\ PlanInv'
    BY <1>3, <1>6, Zenon DEF Allowed, PlanInv
  <2> QED
    BY <1>1, <1>2, <1>3, <1>6, <2>1, SMTT(30) DEF Planned, Budget, Commands
<1>7. CASE MainEnds \/ Quit
  <2>1. pc' = "end" /\ UNCHANGED <<attempt, cmd>>
    BY <1>7, Zenon DEF MainEnds, Quit, callVars
  <2>2. Allowed' = Tries /\ PlanInv'
    BY <1>3, <2>1, Zenon DEF Allowed, PlanInv
  <2> QED
    BY <1>1, <1>2, <1>3, <2>1, <2>2, SMTT(30) DEF Planned, Budget, Commands
<1>8. CASE RunSingle
  <2>1. pc = "start" /\ pc' = "dial" /\ attempt' = 1 /\ cmd' = cmd + 1 /\ cmd = 0 /\ opt.driver = "single"
    BY <1>8, Zenon DEF RunSingle, TakeCommand, PlanInv
  <2>2. Allowed' = 0 /\ PlanInv'
    BY <1>1, <1>3, <2>1, ClientAssumption, SMTT(30) DEF Allowed, PlanInv
  <2> QED
    BY <1>1, <1>2, <1>3, <2>1, <2>2, ClientAssumption, SMTT(30) DEF Planned, Budget, Commands
<1>9. CASE RunInteractive
  <2>1. pc = "start" /\ pc' = "dial" /\ UNCHANGED <<attempt, cmd>> /\ cmd = 0 /\ opt.driver = "interactive"
    BY <1>9, Zenon DEF RunInteractive, PlanInv
  <2>2. attempt = 0
    BY <2>1, Zenon DEF PlanInv
  <2>3. PlanInv'
    BY <1>1, <1>3, <2>1, <2>2, SMTT(30) DEF PlanInv
  <2> QED
    BY <1>1, <1>3, <2>1, <2>3, SMTT(30) DEF Planned, Budget, Commands
<1>10. CASE SessionExecute
  <2>1. /\ pc = "ready" /\ cmd' = cmd + 1 /\ cmd < opt.cmds
        /\ (pc' = "dial" /\ attempt' = 0) \/ (pc' = "send" /\ attempt' = 1)
    BY <1>10, Zenon DEF SessionExecute, TakeCommand
  <2>2. cmd' \in 0..MaxCommands
    BY <1>1, <2>1, ClientAssumption, SMTT(30) DEF PlanInv
  <2>3. Allowed' = 0 /\ PlanInv'
    BY <1>1, <1>3, <2>1, <2>2, SMTT(30) DEF Allowed, PlanInv
  <2> QED
    BY <1>1, <1>2, <1>3, <2>1, <2>3, SMTT(30) DEF Planned, Budget, Commands
<1>11. CASE HttpRefuse
  <2>1. pc = "ready" /\ cmd' = cmd + 1 /\ cmd < opt.cmds /\ UNCHANGED <<pc, attempt>>
    BY <1>11, Zenon DEF HttpRefuse
  <2>2. cmd' \in 0..MaxCommands
    BY <1>1, <2>1, ClientAssumption, SMTT(30) DEF PlanInv
  <2>3. Allowed' = Tries /\ PlanInv'
    BY <1>1, <1>3, <2>1, <2>2, Zenon DEF Allowed, PlanInv
  <2> QED
    BY <1>1, <1>2, <1>3, <2>1, <2>3, SMTT(30) DEF Planned, Budget, Commands
<1>12. CASE Dialed
  <2>1. pc = "dial" /\ pc' = "auth" /\ UNCHANGED <<attempt, cmd>>
    BY <1>12, Zenon DEF Dialed
  <2>2. Allowed' = Allowed /\ PlanInv'
    BY <1>3, <2>1, Zenon DEF Allowed, PlanInv
  <2> QED
    BY <1>1, <1>2, <1>3, <2>1, <2>2, SMTT(30) DEF Planned, Budget, Commands
<1>13. CASE Authenticated
  <2>1. /\ pc = "auth" /\ UNCHANGED cmd
        /\ \/ attempt = 0 /\ opt.driver = "interactive" /\ pc' = "ready" /\ UNCHANGED attempt
           \/ pc' = "send" /\ attempt' = IF attempt = 0 THEN 1 ELSE attempt
    BY <1>13, Zenon DEF Authenticated
  <2>2. Allowed' >= Allowed /\ PlanInv'
    BY <1>1, <1>3, <2>1, SMTT(30) DEF Allowed, PlanInv
  <2> QED
    BY <1>1, <1>2, <1>3, <2>1, <2>2, SMTT(30) DEF Planned, Budget, Commands
<1>14. CASE DialError \/ AuthError
  <2>1. pc \in {"dial", "auth"} /\ UNCHANGED <<opt, cmd>> /\ \E e : DialReturned(e)
    BY <1>3, <1>14, Zenon DEF DialError, AuthError
  <2> QED
    BY <2>1, DialReturnedPlan, Zenon
<1>15. CASE BackoffOver
  <2>1. pc = "backoff" /\ UNCHANGED <<opt, cmd>> /\ Redial(attempt + 1) /\ attempt < Tries
    BY <1>3, <1>15, Zenon DEF BackoffOver, PlanInv
  <2> QED
    BY <2>1, RedialPlan, Zenon
<1>16. CASE BackoffCancelled
  BY <1>3, <1>16, ReturnPlan, Zenon DEF BackoffCancelled
<1>17. CASE SendError
  BY <1>3, <1>17, ConnReturnedPlan, Zenon DEF SendError, execVars
<1>18. CASE Read
  <2>1. pc = "read" /\ UNCHANGED <<opt, cmd>>
    BY <1>3, <1>18, Zenon DEF Read, execVars
  <2>2. CASE \E e, body, m : ConnReturned(e, body, m)
    BY <2>1, <2>2, ConnReturnedPlan, Zenon
  <2>3. CASE UNCHANGED <<pc, attempt>>
    BY <1>6, <2>1, <2>3, Zenon
  <2> QED
    BY <1>18, <2>2, <2>3, Zenon DEF Read, ReadResponse
<1>19. CASE ReadError
  <2>1. pc = "read" /\ UNCHANGED <<opt, cmd>> /\ \E e, body, m : ConnReturned(e, body, m)
    BY <1>3, <1>19, Zenon DEF ReadError, execVars
  <2> QED
    BY <2>1, ConnReturnedPlan, Zenon
<1>20. CASE ServerStep \/ Tick \/ UNCHANGED vars
  BY <1>6, <1>20, Zenon DEF ServerStep, ServerRun, ServerEcho, ServerWrite, Arrive, Drop, LateRun, Tick, clientVars, callVars, vars
<1> QED
  BY <1>5, <1>7, <1>8, <1>9, <1>10, <1>11, <1>12, <1>13, <1>14, <1>15, <1>16, <1>17, <1>18, <1>19, <1>20, Zenon
     DEF Next, ClientStep, UserStep

-----------------------------------------------------------------------------
RunsInv == QueueInv /\ PlanInv /\ \A n \in Commands : Sent(n) <= Budget(n)

(* At the start nothing was sent. *)
LEMMA InitRuns == Init => RunsInv
<1> SUFFICES ASSUME Init PROVE RunsInv
  BY Zenon
<1>1. "inq" \in DOMAIN net /\ net.inq = <<>> /\ net.inq \in Seq(Queued)
  BY EmptySeq, Zenon DEF Init, NoNet
<1>2. PlanInv
  BY ClientAssumption DEF Init, PlanInv
<1>3. QueueInv
  BY <1>1, ClientAssumption, SMTT(30) DEF Init, QueueInv
<1>4. \A n \in Commands : Sent(n) = 0 /\ Budget(n) = 0
  BY <1>1, PendingNone, SMTT(30) DEF Init, Sent, Budget, Commands
<1> QED
  BY <1>2, <1>3, <1>4, SMTT(30) DEF RunsInv

(* A step sends no more than the budget allows. *)
LEMMA RunsStep ==
    ASSUME RunsInv, ByteType, [Next]_vars
    PROVE  RunsInv'
<1>1. /\ PlanInv' /\ cmd' \in 0..MaxCommands
      /\ \A n \in Commands : Budget(n)' >= IF Send /\ n = cmd THEN Budget(n) + 1 ELSE Budget(n)
  BY PlanStep, Zenon DEF RunsInv, PlanInv
<1>2. \A n \in Commands : Sent(n) \in Nat /\ Sent(n) <= Budget(n) /\ Budget(n) \in Nat
  BY SentType, TriesType DEF RunsInv, PlanInv, Budget, Allowed
<1>3. QueueInv' /\ \A n \in Commands : Sent(n)' <= IF Send /\ n = cmd THEN Sent(n) + 1 ELSE Sent(n)
  BY <1>1, SentShrinks, SentBySend, Zenon DEF RunsInv
<1>4. \A n \in Commands : Sent(n)' \in Nat /\ Budget(n)' \in Nat
  <2>1. \A n \in Commands : Sent(n)' \in Nat
    <3>1. net'.inq \in Seq(Queued) /\ runs' \in [Commands -> Nat] /\ late' \in [Commands -> Nat]
      BY <1>3, Zenon DEF QueueInv
    <3>2. \A n \in Commands : Pending(net'.inq, n) \in Nat
      BY <3>1, PendingType, Zenon
    <3> QED
      BY <3>1, <3>2, SMTT(30) DEF Sent
  <2>2. BudgetTyped'
    BY <1>1, BudgetType, PTL
  <2> QED
    BY <2>1, <2>2, Zenon DEF BudgetTyped
<1> QED
  BY <1>1, <1>2, <1>3, <1>4, SMTT(30) DEF RunsInv

-----------------------------------------------------------------------------
(* A command that Conn.Execute will refuse is not sent, and a 4xx is the   *)
(* answer to no other.                                                     *)
RefuseInv ==
    /\ opt.driver = "http" /\ pc \notin {"start", "ready", "end"} => cmd > 0
    /\ pc \in {"dial", "auth", "send", "backoff"} /\ cmd > 0 /\ check # "nil" => Sent(cmd) = 0
    /\ pc = "read" => check = "nil"
    /\ opt.driver = "http" /\ pc = "ready" /\ code \in 400..499 => cmd > 0 /\ Sent(cmd) = 0

(* ServeHTTP answers 4xx to the errors about a command only. *)
LEMMA StatusOfCommand == ASSUME NEW e, ExecuteStatus(e) \in 400..499 PROVE e \in CommandErrs
BY DEF ExecuteStatus, CommandErrs

(* What becomes of it when Conn.Execute has returned ... *)
LEMMA ConnReturnedRefuse ==
    ASSUME RefuseInv, UNCHANGED <<opt, cmd, check>>, pc \in {"send", "read"}, NEW e, NEW body, NEW m, ConnReturned(e, body, m),
           e \in CommandErrs => pc = "send" /\ check # "nil",
           cmd > 0 /\ Sent(cmd) = 0 => Sent(cmd)' = 0
    PROVE  RefuseInv'
<1>1. CASE pc' \in {"end", "backoff", "dial"}
  BY <1>1 DEF RefuseInv
<1>2. CASE SessionReturned(e, body, m)
  <2>1. pc' = "ready" /\ (opt.driver = "http" => code' = ExecuteStatus(e))
    BY <1>2, Zenon DEF SessionReturned, Return
  <2>2. opt.driver = "http" /\ code' \in 400..499 => cmd' > 0 /\ Sent(cmd)' = 0
    BY <2>1, StatusOfCommand, SMTT(30) DEF RefuseInv
  <2> QED
    BY <2>1, <2>2, SMTT(30) DEF RefuseInv
<1> QED
  BY <1>1, <1>2, Zenon DEF ConnReturned, AttemptFailed, Return, Redial

(* ... and when Client.dial has. *)
LEMMA DialReturnedRefuse ==
    ASSUME RefuseInv, UNCHANGED <<opt, cmd, check>>, pc \in {"dial", "auth"}, NEW e, DialReturned(e), e \notin CommandErrs,
           cmd > 0 /\ Sent(cmd) = 0 => Sent(cmd)' = 0
    PROVE  RefuseInv'
<1>1. CASE pc' \in {"end", "backoff", "dial"}
  BY <1>1 DEF RefuseInv
<1>2. CASE pc' = "ready" /\ (opt.driver = "http" => code' = ExecuteStatus(e))
  <2>1. ~(opt.driver = "http" /\ code' \in 400..499)
    BY <1>2, StatusOfCommand, Zenon
  <2> QED
    BY <1>2, <2>1 DEF RefuseInv
<1> QED
  BY <1>1, <1>2, Zenon DEF DialReturned, AttemptFailed, Return, Redial

(* Each step keeps it: a command that was never sent stays so until Send.  *)
LEMMA RefuseStep ==
    ASSUME CallType, ByteType, RunsInv, RunsInv', RefuseInv, [Next]_vars
    PROVE  RefuseInv'
<1>1. cmd \in 0..MaxCommands /\ cmd' \in 0..MaxCommands /\ opt \in Configs
  BY Zenon DEF RunsInv, PlanInv
<1>2. \A n \in Commands : Sent(n) \in Nat
  BY SentType, Zenon DEF RunsInv
<1>3. ASSUME ~Send, NEW n \in Commands, Sent(n) = 0 PROVE Sent(n)' = 0
  <2>1. Sent(n)' <= Sent(n)
    BY <1>1, <1>3, SentShrinks, Zenon DEF RunsInv
  <2>2. Sent(n)' \in Nat
    <3>1. net'.inq \in Seq(Queued) /\ runs'[n] \in Nat /\ late'[n] \in Nat
      BY Zenon DEF RunsInv, QueueInv
    <3>2. PICK k \in Nat : k = Pending(net'.inq, n)
      BY <3>1, PendingType, Zenon
    <3>3. Sent(n)' = runs'[n] + late'[n] + k
      BY <3>2, Zenon DEF Sent
    <3> QED
      BY <3>1, <3>3
  <2> QED
    BY <1>3, <2>1, <2>2, SMTT(30)
<1>4. ASSUME ~Send, UNCHANGED cmd, cmd > 0, Sent(cmd) = 0 PROVE Sent(cmd)' = 0
  <2>1. PICK n \in Commands : n = cmd
    BY <1>1, <1>4 DEF Commands
  <2>2. Sent(n)' = 0
    BY <1>3, <1>4, <2>1, Zenon
  <2> QED
    BY <1>4, <2>1, <2>2, Zenon
<1>5. ASSUME ~Send, cmd' = cmd + 1 PROVE cmd' > 0 /\ Sent(cmd)' = 0
  <2>1. PICK n \in Commands : n = cmd + 1
    BY <1>1, <1>5, SMTT(30) DEF Commands
  <2>2. Budget(n) = 0 /\ Sent(n) <= Budget(n)
    BY <1>1, <2>1 DEF Budget, RunsInv
  <2>3. Sent(n) = 0
    BY <1>2, <2>2
  <2>4. Sent(n)' = 0
    BY <1>3, <1>5, <2>3, Zenon
  <2> QED
    BY <1>1, <1>5, <2>1, <2>4, SMTT(30)
<1>6. CASE RunSingle \/ SessionExecute
  <2>1. ~Send /\ cmd' = cmd + 1 /\ pc' \in {"dial", "send"}
    BY <1>6, Zenon DEF RunSingle, SessionExecute, TakeCommand, Send
  <2> QED
    BY <1>5, <2>1, Zenon DEF RefuseInv
<1>7. CASE HttpRefuse
  <2>1. ~Send /\ cmd' = cmd + 1 /\ pc' = "ready"
    BY <1>7, Zenon DEF HttpRefuse, Send
  <2> QED
    BY <1>5, <2>1, Zenon DEF RefuseInv
<1>8. CASE MainEnds \/ Quit \/ BackoffCancelled
  BY <1>8, Zenon DEF MainEnds, Quit, BackoffCancelled, Return, RefuseInv
<1>9. CASE RunInteractive
  <2>1. pc' = "dial" /\ cmd' = 0 /\ opt'.driver = "interactive"
    BY <1>9, Zenon DEF RunInteractive, CallType
  <2> QED
    BY <2>1 DEF RefuseInv
<1>10. CASE Dialed \/ Authenticated \/ BackoffOver
  <2>1. /\ ~Send /\ UNCHANGED <<opt, cmd, check>> /\ pc \in {"dial", "auth", "backoff"}
        /\ pc' \in {"auth", "send", "dial"} \/ (pc' = "ready" /\ opt.driver = "interactive")
    BY <1>10, Zenon DEF Dialed, Authenticated, BackoffOver, Redial, Send, conf
  <2> QED
    BY <1>4, <2>1, ZenonT(40) DEF RefuseInv
<1>11. CASE DialError \/ AuthError
  <2>1. PICK e : DialReturned(e) /\ e \notin CommandErrs
    BY <1>11, Zenon DEF DialError, AuthError, ReadErrs, CommandErrs
  <2>2. ~Send /\ UNCHANGED <<opt, cmd, check>> /\ pc \in {"dial", "auth"}
    BY <1>11, Zenon DEF DialError, AuthError, Send, conf
  <2> QED
    BY <1>4, <2>1, <2>2, DialReturnedRefuse, Zenon
<1>12. CASE SendError
  <2>1. PICK e : ConnReturned(e, <<>>, net) /\ (e \in CommandErrs => check # "nil")
    BY <1>12, Zenon DEF SendError, CommandErrs
  <2>2. UNCHANGED <<opt, cmd, check>> /\ pc = "send" /\ pc' # "read"
    BY <1>12, <2>1, Zenon DEF SendError, execVars, conf, ConnReturned, SessionReturned, AttemptFailed, Return, Redial
  <2>3. ~Send
    BY <2>2, Zenon DEF Send
  <2> QED
    BY <1>4, <2>1, <2>2, <2>3, ConnReturnedRefuse, Zenon
<1>13. CASE Send
  BY <1>1, <1>13, Zenon DEF Send, execVars, conf, RefuseInv
<1>14. CASE Read \/ ReadError
  <2>1. UNCHANGED <<opt, cmd, check>> /\ pc = "read" /\ ~Send
    BY <1>14, Zenon DEF Read, ReadError, Send, execVars, conf
  <2>2. CASE \E e, body, m : ConnReturned(e, body, m) /\ e \notin CommandErrs
    BY <1>4, <2>1, <2>2, ConnReturnedRefuse, Zenon
  <2>3. CASE UNCHANGED pc
    BY <2>1, <2>3, Zenon DEF RefuseInv
  <2>4. CASE Read
    BY <2>2, <2>3, <2>4, SMTT(30) DEF Read, ReadResponse, CommandErrs
  <2>5. CASE ReadError
    <3>1. PICK end \in {"EOF", "timeout", "wait"} : Packet1 = ReadFrom(net.wire, end)
      BY Zenon DEF Packet1
    <3>2. Packet1.err \notin CommandErrs
      BY <3>1, ReadFromType, ZenonT(40) DEF ByteType, Nets, CommandErrs
    <3> QED
      BY <2>2, <2>5, <3>2, SMTT(30) DEF ReadError, CommandErrs
  <2> QED
    BY <1>14, <2>4, <2>5, Zenon
<1>15. CASE UNCHANGED <<opt, pc, cmd, check, code>> /\ ~Send
  BY <1>4, <1>15 DEF RefuseInv
<1>16. CASE ServerStep \/ Tick \/ UNCHANGED vars
  <2>1. UNCHANGED <<opt, pc, cmd, check, code>>
    BY <1>16, Zenon DEF ServerStep, ServerRun, ServerEcho, ServerWrite, Arrive, Drop, LateRun, Tick, clientVars, callVars,
         doneVars, conf, vars
  <2> QED
    BY <1>13, <1>15, <2>1, Zenon
<1> QED
  BY <1>6, <1>7, <1>8, <1>9, <1>10, <1>11, <1>12, <1>13, <1>14, <1>16, Zenon DEF Next, ClientStep, UserStep

-----------------------------------------------------------------------------
(* The inductive invariant. *)
IInv == CallType /\ ByteType /\ SocketInv /\ TimeInv /\ RunsInv /\ RefuseInv

(* Every reachable state satisfies the invariant. *)
LEMMA Inductive == Spec => []IInv
<1>1. Init => IInv
  <2>1. Init => RefuseInv
    BY DEF Init, RefuseInv
  <2> QED
    BY <2>1, InitType, InitSocketTime, InitRuns, Zenon DEF IInv
<1>2. IInv /\ [Next]_vars => IInv'
  BY TypeStep, SocketStep, TimeStep, RunsStep, RefuseStep, Zenon DEF IInv
<1> QED
  BY <1>1, <1>2, PTL DEF Spec

(* A command reaches the server at most as often as Client.Execute makes   *)
(* attempts, and at most twice through a Session, whatever fails in        *)
(* between and however late the server reads (Execute, Session.Execute).   *)
THEOREM CommandsNotRepeated == Spec => []RunsBounded
<1>1. IInv => RunsBounded
  <2> SUFFICES ASSUME IInv, NEW n \in Commands PROVE Sent(n) <= Tries
    BY Zenon DEF RunsBounded, Tries
  <2>1. Tries \in Nat \ {0} /\ Sent(n) \in Nat /\ Sent(n) <= Budget(n)
    BY TriesType, SentType, Zenon DEF IInv, RunsInv, PlanInv
  <2>2. Budget(n) \in Nat /\ Budget(n) <= Tries
    BY <2>1, SMTT(30) DEF IInv, RunsInv, PlanInv, Budget, Allowed
  <2> QED
    BY <2>1, <2>2
<1> QED
  BY <1>1, Inductive, PTL

(* Whatever fails, and however often: the client never has two sockets, it *)
(* has none while it dials again, and the last one is closed when Execute  *)
(* or the owner of the Session is done (executeOnce, Session.Execute).     *)
THEOREM SocketsNeverLeak == Spec => []NoSocketLeak
<1>1. IInv => NoSocketLeak
  BY SMTT(30) DEF IInv, SocketInv, NoSocketLeak
<1> QED
  BY <1>1, Inductive, PTL

(* A call of Execute with a timeout takes no longer than that, whatever    *)
(* the number of attempts, the backoff and the other timeouts are.         *)
THEOREM ExecuteKeepsTimeout == Spec => []BoundedByTimeout
<1>1. IInv => BoundedByTimeout
  BY Zenon DEF IInv, TimeInv, BoundedByTimeout
<1> QED
  BY <1>1, Inductive, PTL

(* The types of the client's state, of what is on the wire and of what     *)
(* Execute returns, exit codes and HTTP statuses included.                 *)
THEOREM ClientTypeCorrect == Spec => []TypeOK
<1>1. IInv => TypeOK
  BY ClientAssumption, SMTT(30) DEF IInv, CallType, ByteType, SocketInv, TimeInv, RunsInv, QueueInv, TypeOK, Places, Codes
<1> QED
  BY <1>1, Inductive, PTL

(* Whatever the shift in ExponentialBackoff overflows to, the pause before *)
(* another attempt is at most max.                                         *)
THEOREM BackoffBounded == Spec => []BackoffWithinMax
<1>1. IInv => BackoffWithinMax
  BY ClientAssumption, SMTT(30) DEF IInv, CallType, BackoffWithinMax
<1> QED
  BY <1>1, Inductive, PTL

(* A command that ServeHTTP answers with a 4xx was never run and never     *)
(* will be, on no connection of the session: the client may send it again. *)
THEOREM RefusedNeverRun == Spec => []RefusedNotRun
<1>1. IInv => RefusedNotRun
  BY Zenon DEF IInv, RefuseInv, RefusedNotRun
<1> QED
  BY <1>1, Inductive, PTL

(* HttpHeals: of the requests ServeHTTP handles while nothing goes wrong,  *)
(* at most one in a row fails, whatever the requests before it did to the  *)
(* cached session.                                                         *)
THEOREM HandlerHeals == Spec => []HttpHeals
<1>1. Init => (Handler => HealInv)
  BY InitHeal, Zenon
<1>2. IInv /\ AnswerInv /\ (Handler => HealInv) /\ [Next]_vars => (Handler => HealInv)'
  <2>1. SUFFICES ASSUME IInv, AnswerInv, Handler => HealInv, [Next]_vars, Handler' PROVE HealInv'
    BY Zenon
  <2>2. CallType /\ ByteType /\ runs \in [Commands -> Nat] /\ TimeInv /\ (Orderly => OrderInv)
    BY <2>1, Zenon DEF IInv, AnswerInv
  <2>3. Handler
    BY <2>1, <2>2, HandlerSame, Zenon
  <2>4. OrderInv
    BY <2>2, <2>3, Zenon DEF Handler, Orderly
  <2> QED
    BY <2>1, <2>2, <2>3, <2>4, HealStep, Zenon
<1>3. (Handler => HealInv) => HttpHeals
  BY DEF Handler, HealInv, HttpHeals
<1> QED
  BY <1>1, <1>2, <1>3, Inductive, AnswerAlways, PTL DEF Spec
=============================================================================
