-------------------------- MODULE RconAnswerProofs --------------------------
(***************************************************************************)
(* Proofs that a success is the answer to its own command, for any         *)
(* options, timeouts and responses and wherever frames are torn and        *)
(* connections lost; and of the steps by which the handler recovers.       *)
(***************************************************************************)
EXTENDS RconFrameProofs

(* The ends of a request: the command in front, the sentinel behind it. *)
LEMMA RequestParts ==
    ASSUME NEW c \in 0..MaxCommands, NEW r \in Int32
    PROVE  /\ Head(Request(c, r)) = [n |-> c, ID |-> r] /\ Tail(Request(c, r)) = Sentinel(r) /\ Request(c, r) # <<>>
           /\ mode # "multi" => Sentinel(r) = <<>>
           /\ mode = "multi" => /\ Sentinel(r) # <<>> /\ Head(Sentinel(r)) = [n |-> 0, ID |-> NextID(r)]
                                /\ Tail(Sentinel(r)) = <<>>
<1>1. Sentinel(r) \in Seq(Queued)
  BY RequestType, Zenon
<1>2. Request(c, r) = <<[n |-> c, ID |-> r]>> \o Sentinel(r)
  BY Zenon DEF Request
<1>3. [n |-> c, ID |-> r] \in Queued
  BY Zenon DEF Queued
<1>4. mode # "multi" => Sentinel(r) = <<>>
  BY Zenon DEF Sentinel
<1>5. mode = "multi" => Sentinel(r) = <<[n |-> 0, ID |-> NextID(r)]>>
  BY Zenon DEF Sentinel
<1> QED
  BY <1>1, <1>2, <1>3, <1>4, <1>5

(* Nothing of an answer is lost, but the whole of what is to come when the *)
(* connection is, and nothing but the answer is written.                   *)
LEMMA ServerOwn ==
    ASSUME CallType, ByteType, cmd \in Commands, runs \in [Commands -> Nat], Own, ServerStep
    PROVE  Own'
<1>1. /\ net \in Nets /\ net.wire \in Seq(Byte) /\ net.out \in Seq(Byte) /\ req \in Int32 /\ cmd \in 0..MaxCommands
      /\ net.inq \in Seq(Queued) /\ opt \in Configs /\ cmd \in Nat /\ cmd # 0
  BY DEF ByteType, Nets, Queued, CallType, Commands
<1>2. UNCHANGED <<opt, mode, cmd, req, acc>>
  BY Zenon DEF ServerStep, ServerRun, ServerEcho, ServerWrite, Arrive, Drop, LateRun, clientVars, conf, callVars, connVars
<1>3. runs'[cmd] \in Nat /\ runs[cmd] \in Nat /\ runs'[cmd] >= runs[cmd]
  BY RunsGrow, Zenon DEF Next
<1>4. Response(cmd)' = Response(cmd) /\ Sentinel(req)' = Sentinel(req) /\ Request(cmd, req)' = Request(cmd, req)
  BY <1>2, Zenon DEF Response, Sentinel, Request
<1>5. CASE Gone
  BY <1>5, ServerGone, Zenon DEF Own
<1>6. CASE Unread
  <2>1. CASE ServerRun
    <3>1. PICK n \in Commands :
            /\ ServerReads(n) /\ runs' = [runs EXCEPT ![n] = @ + 1]
            /\ net' = [net EXCEPT !.inq = Tail(@), !.busy = TRUE, !.ans = Head(net.inq).ID, !.rest = Response(n)]
      BY <2>1, Zenon DEF ServerRun
    <3>2. Head(net.inq) = [n |-> cmd, ID |-> req] /\ Tail(net.inq) = Sentinel(req)
      BY <1>1, <1>6, RequestParts, Zenon DEF Unread
    <3>3. n = cmd
      BY <3>1, <3>2 DEF ServerReads
    <3>4. /\ net'.inq = Sentinel(req) /\ net'.busy /\ net'.ans = req /\ net'.rest = Response(cmd)
          /\ net'.wire = <<>> /\ net'.out = <<>> /\ runs'[cmd] > 0
      BY <1>1, <1>3, <1>6, <3>1, <3>2, <3>3 DEF Nets, Unread
    <3>5. PICK a \in States : ~a.echoed /\ a.left = Response(cmd)
      <4>1. [left |-> Response(cmd), echoed |-> FALSE] \in States
        BY <1>1, ResponseType, Zenon DEF States
      <4> QED
        BY <4>1, Zenon
    <3>6. Flow(req, mode, <<>>, a, a)
      BY <3>5, FlowNone, Zenon
    <3>7. <<>> \o <<>> = <<>> /\ <<>> \o a.left = a.left /\ <<>> \in Seq(Byte)
      BY <3>5, ConcatEmptySeq, EmptySeq, Zenon DEF States
    <3>8. AnsweredBy(<<>>, a, a)'
      BY <1>2, <1>4, <1>6, <3>4, <3>5, <3>6, <3>7, Zenon DEF AnsweredBy, Serves, Unread
    <3> QED
      BY <1>2, <3>4, <3>5, <3>7, <3>8, Zenon DEF Own, Answering
  <2>2. CASE UNCHANGED net
    BY <1>2, <1>4, <1>6, <2>2, Zenon DEF Unread, Own
  <2>3. CASE Drop
    BY <1>6, <2>3, ServerDrop, Zenon DEF Unread, Own, Gone
  <2>4. ~ServerEcho
    <3>1. Head(net.inq).n = cmd
      BY <1>1, <1>6, RequestParts DEF Unread
    <3> QED
      BY <1>1, <3>1, Zenon DEF ServerEcho, ServerReads
  <2> QED
    BY <1>6, <2>1, <2>2, <2>3, <2>4, Zenon DEF ServerStep, ServerWrite, Arrive, LateRun, Unread
<1>7. CASE Answering
  <2>1. PICK t \in Seq(Byte), a, b \in States : AnsweredBy(t, a, b)
    BY <1>7, Zenon DEF Answering
  <2>2. runs'[cmd'] > 0
    BY <1>2, <1>3, <1>7 DEF Answering
  <2>3. ~a.echoed /\ (acc \o a.left = Response(cmd))'
    BY <1>2, <1>4, <2>1, Zenon DEF AnsweredBy
  <2>4. CASE UNCHANGED net
    <3>1. AnsweredBy(t, a, b)'
      BY <1>2, <1>4, <2>1, <2>4, Zenon DEF AnsweredBy, Serves
    <3> QED
      BY <2>2, <3>1, Zenon DEF Own, Answering
  <2>5. CASE Drop
    <3>1. ~net'.up /\ net'.wire \in {net.wire, <<>>}
      BY <2>5, ServerDrop, Zenon
    <3>2. CASE net'.wire = <<>>
      BY <3>1, <3>2, Zenon DEF Own, Gone
    <3>3. CASE net'.wire = net.wire
      <4>1. AnsweredBy(t, a, b)'
        BY <1>2, <2>1, <2>3, <3>1, <3>3, Zenon DEF AnsweredBy
      <4> QED
        BY <2>2, <4>1 DEF Own, Answering
    <3> QED
      BY <3>1, <3>2, <3>3, Zenon
  <2>6. CASE Arrive
    <3>1. /\ net'.wire = net.wire \o net.out /\ net'.out = <<>> /\ net'.up /\ net.up
          /\ net'.inq = net.inq /\ net'.busy = net.busy /\ net'.ans = net.ans /\ net'.rest = net.rest
      BY <1>1, <2>6, Zenon DEF Arrive, Nets
    <3>2. net.wire \o net.out \in Seq(Byte)
      BY <1>1, Joined, Zenon
    <3>3. (net.wire \o net.out) \o <<>> = net.wire \o net.out /\ <<>> \in Seq(Byte)
      BY <3>2, ConcatEmptySeq
    <3>4. t = net.out /\ Serves(b) /\ Flow(req, mode, net.wire \o t, a, b)
      BY <2>1, <3>1, Zenon DEF AnsweredBy
    <3>5. Flow(req, mode, net'.wire \o <<>>, a, b)
      BY <3>1, <3>3, <3>4, Zenon
    <3>6. Serves(b)'
      BY <1>2, <1>4, <3>1, <3>4, Zenon DEF Serves
    <3>7. AnsweredBy(<<>>, a, b)'
      BY <1>2, <2>3, <3>1, <3>5, <3>6, Zenon DEF AnsweredBy
    <3> QED
      BY <2>2, <3>3, <3>7, Zenon DEF Own, Answering
  <2>7. ASSUME NEW n \in Nets, NEW p \in Sendable, Written(n, p), net.up, net.out = <<>>, n.wire = net.wire, n.up = net.up,
               NEW c \in States, Frame(req, mode, p, b, c),
               net'.inq = n.inq /\ net'.busy = n.busy /\ net'.ans = n.ans /\ net'.rest = n.rest => Serves(c)'
        PROVE  Own'
    <3>1. /\ net'.wire \o net'.out = n.wire \o WriteTo(p)
          /\ net'.wire \in Seq(Byte) /\ net'.out \in Seq(Byte)
          /\ net'.up = n.up /\ net'.inq = n.inq /\ net'.busy = n.busy /\ net'.ans = n.ans /\ net'.rest = n.rest
      BY <2>7, WrittenJoined, Zenon
    <3>2. net.wire \o <<>> = net.wire
      BY <1>1, ConcatEmptySeq, Zenon
    <3>3. Flow(req, mode, net.wire, a, b)
      BY <2>1, <2>7, <3>2, Zenon DEF AnsweredBy
    <3>4. Flow(req, mode, net.wire \o WriteTo(p), a, c)
      BY <2>7, <3>3, FlowAdd, Zenon
    <3>5. Flow(req, mode, net'.wire \o net'.out, a, c)
      BY <2>7, <3>1, <3>4, Zenon
    <3>6. PICK u \in Seq(Byte) : u = net'.out
      BY <3>1, Zenon
    <3>7. AnsweredBy(u, a, c)'
      BY <1>2, <2>3, <2>7, <3>1, <3>5, <3>6, Zenon DEF AnsweredBy
    <3> QED
      BY <2>2, <3>7, Zenon DEF Own, Answering
  <2>8. CASE ServerWrite
    <3> DEFINE n == [net EXCEPT !.rest = AfterChunk(@), !.busy = AfterChunk(net.rest) # <<>>]
               p == [ID |-> net.ans, Type |-> 0, Body |-> Chunk(net.rest)]
               c == [left |-> AfterChunk(b.left), echoed |-> FALSE]
    <3>1. Written(n, p) /\ net.up /\ net.out = <<>> /\ net.busy
      BY <2>8, Zenon DEF ServerWrite
    <3>2. ~b.echoed /\ net.ans = req /\ net.rest = b.left /\ net.inq = Sentinel(req) /\ b.left \in Seq(Byte)
      BY <2>1, <3>1, Zenon DEF AnsweredBy, Serves, States
    <3>3. p \in Sendable /\ c \in States
      BY <1>1, <3>2, FrameSendable, Zenon
    <3>4. Frame(req, mode, p, b, c)
      BY <3>2, Zenon DEF Frame
    <3>5. /\ n.wire = net.wire /\ n.up = net.up /\ n.inq = net.inq /\ n.ans = net.ans /\ n.rest = AfterChunk(b.left)
          /\ n.busy = (AfterChunk(b.left) # <<>>)
      BY <1>1, <3>2, Zenon DEF Nets
    <3>6. n \in Nets
      <4>1. AfterChunk(net.rest) \in Seq(Byte)
        BY <3>2, ChunkType, Zenon
      <4> QED
        BY <1>1, <4>1, Zenon DEF Nets
    <3>7. c.left = AfterChunk(b.left) /\ ~c.echoed
      BY Zenon
    <3> HIDE DEF n, p, c
    <3>8. net'.inq = n.inq /\ net'.busy = n.busy /\ net'.ans = n.ans /\ net'.rest = n.rest => Serves(c)'
      BY <1>2, <1>4, <3>2, <3>5, <3>7, Zenon DEF Serves
    <3> QED
      BY <2>7, <3>1, <3>3, <3>4, <3>5, <3>6, <3>8, Zenon
  <2>9. CASE ServerEcho
    <3> DEFINE n == [net EXCEPT !.inq = Tail(@)]
               p == [ID |-> Head(net.inq).ID, Type |-> 0, Body |-> <<>>]
               c == [left |-> <<>>, echoed |-> TRUE]
    <3>1. Written(n, p) /\ net.up /\ net.out = <<>> /\ ~net.busy /\ net.inq # <<>>
      BY <2>9, Zenon DEF ServerEcho, ServerReads
    <3>2. ~b.echoed /\ net.inq = Sentinel(req) /\ b.left = <<>>
      BY <2>1, <3>1, Zenon DEF AnsweredBy, Serves
    <3>3. mode = "multi" /\ Head(net.inq).ID = NextID(req) /\ Tail(net.inq) = <<>>
      BY <1>1, <3>1, <3>2, RequestParts
    <3>4. p \in Sendable /\ c \in States
      <4>1. NextID(req) \in Int32 /\ Len(<<>>) <= MaxPayloadSize
        BY <1>1, NextIDProperties, FramingAssumption
      <4> QED
        BY <3>3, <4>1, Int32Small DEF Sendable, Packet, States
    <3>5. Frame(req, mode, p, b, c)
      BY <3>2, <3>3, Zenon DEF Frame
    <3>6. n.wire = net.wire /\ n.up = net.up /\ n.inq = <<>> /\ n.busy = net.busy
      BY <1>1, <3>3, Zenon DEF Nets
    <3>7. n \in Nets
      <4>1. <<>> \in Seq([n : 0..MaxCommands, ID : Int32])
        OBVIOUS
      <4> QED
        BY <1>1, <3>3, <4>1, Zenon DEF Nets
    <3>8. c.left = <<>> /\ c.echoed
      BY Zenon
    <3> HIDE DEF n, p, c
    <3>9. net'.inq = n.inq /\ net'.busy = n.busy /\ net'.ans = n.ans /\ net'.rest = n.rest => Serves(c)'
      BY <3>1, <3>6, <3>8, Zenon DEF Serves
    <3> QED
      BY <2>7, <3>1, <3>4, <3>5, <3>6, <3>7, <3>9, Zenon
  <2>10. ~ServerRun
    <3>1. SUFFICES ASSUME ServerRun PROVE FALSE
      BY Zenon
    <3>2. net.up /\ ~net.busy /\ net.inq # <<>> /\ Head(net.inq).n \in Commands
      BY <3>1, Zenon DEF ServerRun, ServerReads
    <3>3. net.inq = Sentinel(req)
      BY <2>1, <3>2, Zenon DEF AnsweredBy, Serves
    <3>4. Head(net.inq) = [n |-> 0, ID |-> NextID(req)]
      BY <1>1, <3>2, <3>3, RequestParts, Zenon
    <3> QED
      BY <3>2, <3>4 DEF Commands
  <2> QED
    BY <2>4, <2>5, <2>6, <2>8, <2>9, <2>10, Zenon DEF ServerStep, LateRun
<1> QED
  BY <1>5, <1>6, <1>7, Zenon DEF Own

-----------------------------------------------------------------------------
(* RunSingle, whose attempts have a connection each, and the handler when  *)
(* every response has an end: nobody goes on from the middle of a frame.   *)
Orderly == opt.driver = "single" \/ (opt.driver = "http" /\ mode # "idle")

(* A connection that is kept for the next command is lost or at rest, or   *)
(* what comes next on it is left from the last command, whose first packet *)
(* was all of it that readSinglePacket took ...                            *)
Left == opt.driver = "http" /\ mode = "single" /\ Stale(id)
Kept == Gone \/ Clear \/ Left

(* ... and the next command will find that its answer is not the first.    *)
Astray == opt.driver = "http" /\ mode = "single" /\ \E o \in Int32 : o # req /\ o # -1 /\ Stale(o)

(* What was returned is right, wherever the stream was torn. *)
Right == Succeeded => IsAnswer(resp)

OrderInv ==
    /\ pc \in {"dial", "auth", "send", "read", "backoff"} => cmd \in Commands
    /\ pc \in {"start", "dial", "auth", "backoff"} => conn # "open"
    /\ pc = "auth" => Clear
    /\ pc \in {"ready", "send"} /\ conn = "open" => Kept
    /\ pc = "read" => /\ conn = "open" /\ (Own \/ Astray)
                      /\ \E k \in 0..opt.len : acc = SubSeq(Response(cmd), 1, k)
                      /\ mode = "single" => id = req /\ acc = <<>>
    /\ pc = "ready" => opt.driver = "http"
    /\ id >= 0
    /\ Right

(* The programs do not change. *)
LEMMA OrderlySame == ASSUME CallType, [Next]_vars PROVE Orderly' <=> Orderly
<1>1. CASE UNCHANGED <<opt, mode>>
  BY <1>1, Zenon DEF Orderly
<1>2. CASE RunSingle \/ RunInteractive
  BY <1>2, Zenon DEF Orderly, RunSingle, RunInteractive, TakeCommand
<1> QED
  BY <1>1, <1>2, ZenonT(40) DEF Next, ClientStep, UserStep, ServerStep, MainEnds, SessionExecute, HttpRefuse,
       Quit, TakeCommand, Dialed, DialError, Authenticated, AuthError, BackoffOver, BackoffCancelled, SendError, Send, Read,
       ReadError, ServerRun, ServerEcho, ServerWrite, Arrive, Drop, LateRun, Tick, execVars, vars, conf, clientVars

(* What was good stays so. *)
LEMMA GoodKeeps ==
    ASSUME CallType, cmd \in Commands, runs \in [Commands -> Nat], [Next]_vars, UNCHANGED <<opt, mode, cmd>>,
           NEW body, IsAnswer(body)
    PROVE  IsAnswer(body)'
<1>1. runs'[cmd] >= runs[cmd] /\ runs'[cmd] \in Nat /\ runs[cmd] \in Nat
  BY RunsGrow, Zenon
<1>2. Response(cmd)' = Response(cmd)
  BY Zenon DEF Response
<1>3. runs[cmd] > 0 => runs'[cmd'] > 0
  BY <1>1
<1> QED
  BY <1>2, <1>3, Zenon DEF IsAnswer

(* Execute returns. *)
LEMMA ReturnGood ==
    ASSUME UNCHANGED <<opt, mode, cmd, runs>>, NEW e, NEW body, NEW to, Return(e, body, to), e = "nil" => IsAnswer(body)
    PROVE  Right'
<1>1. Succeeded' => e = "nil"
  BY Zenon DEF Succeeded, Return
<1>2. resp' = body
  BY Zenon DEF Return
<1>3. Response(cmd)' = Response(cmd)
  BY Zenon DEF Response
<1>4. e = "nil" => IsAnswer(body)'
  BY <1>3, Zenon DEF IsAnswer
<1> QED
  BY <1>1, <1>2, <1>4, Zenon DEF Right, IsAnswer

(* Execute goes on. *)
LEMMA BusyGood == ASSUME pc' \notin {"ready", "end"} PROVE Right'
BY Zenon DEF Right, Succeeded

(* What becomes of the connection and of the result when Conn.Execute has  *)
(* returned.                                                               *)
LEMMA ConnReturnedOrder ==
    ASSUME CallType, Orderly, OrderInv, UNCHANGED <<opt, mode, cmd, runs>>, id' >= 0, pc \in {"send", "read"},
           NEW e, NEW body, NEW n, ConnReturned(e, body, n), e = "nil" => IsAnswer(body),
           opt.driver = "http" /\ ~IsConnError(e) /\ conn = "open" /\ net' = n => Kept'
    PROVE  OrderInv'
<1>1. cmd \in Commands /\ cmd' \in Commands
  BY Zenon DEF OrderInv
<1>2. CASE e # "nil" /\ AttemptFailed(e) /\ CloseOnce(n, e)
  <2>1. conn' = "closed"
    BY <1>2, Zenon DEF CloseOnce, CloseConn
  <2>2. CASE Return(e, <<>>, "end")
    <3>1. Right' /\ pc' = "end"
      BY <1>2, <2>2, ReturnGood DEF Return
    <3> QED
      BY <2>1, <3>1, Zenon DEF OrderInv
  <2>3. CASE pc' \in {"backoff", "dial"}
    BY <1>1, <2>1, <2>3, BusyGood, Zenon DEF OrderInv
  <2> QED
    BY <1>2, <2>2, <2>3, Zenon DEF AttemptFailed, Redial
<1>3. CASE Return(e, body, "end") /\ CloseOnce(n, e)
  <2>1. Right' /\ pc' = "end"
    BY <1>3, ReturnGood, Zenon DEF Return
  <2> QED
    BY <2>1, Zenon DEF OrderInv
<1>4. CASE CloseConn(n, "closed") /\ Redial(2)
  BY <1>1, <1>4, BusyGood, Zenon DEF OrderInv, CloseConn, Redial
<1>5. CASE opt.driver = "http" /\ SessionReturned(e, body, n)
  <2>1. Right' /\ pc' = "ready"
    BY <1>5, ReturnGood, Zenon DEF Return, SessionReturned
  <2>2. conn' = "open" => Kept'
    BY <1>5, Zenon DEF SessionReturned, Drops, CloseConn, KeepConn
  <2> QED
    BY <1>5, <2>1, <2>2, Zenon DEF OrderInv
<1> QED
  BY <1>2, <1>3, <1>4, <1>5, Zenon DEF ConnReturned, Orderly

(* The same when Client.dial has returned an error. *)
LEMMA DialReturnedOrder ==
    ASSUME CallType, Orderly, OrderInv, UNCHANGED <<opt, mode, cmd, runs, id>>, pc \in {"dial", "auth"},
           NEW e, e # "nil", DialReturned(e)
    PROVE  OrderInv'
<1>1. cmd \in Commands /\ cmd' \in Commands /\ conn # "open" /\ id' >= 0
  BY Zenon DEF OrderInv
<1>2. CASE AttemptFailed(e) /\ UNCHANGED conn
  <2>1. CASE Return(e, <<>>, "end")
    <3>1. Right' /\ pc' = "end"
      BY <2>1, ReturnGood DEF Return
    <3> QED
      BY <1>1, <3>1, Zenon DEF OrderInv
  <2>2. CASE pc' \in {"backoff", "dial"}
    BY <1>1, <1>2, <2>2, BusyGood, Zenon DEF OrderInv
  <2> QED
    BY <1>2, <2>1, <2>2, Zenon DEF AttemptFailed, Redial
<1>3. CASE opt.driver = "http" /\ Return(e, <<>>, "ready") /\ conn' \in {"none", conn}
  <2>1. Right' /\ pc' = "ready"
    BY <1>3, ReturnGood DEF Return
  <2> QED
    BY <1>1, <1>3, <2>1, Zenon DEF OrderInv
<1> QED
  BY <1>2, <1>3, Zenon DEF DialReturned, Orderly

(* It holds at the start. *)
LEMMA InitOrder == Init => OrderInv \/ ~Orderly
BY DEF Init, OrderInv, Orderly, Right, Succeeded

(* The programs, which take a command or end, keep it, *)
LEMMA ProgramOrder ==
    ASSUME CallType, Orderly, OrderInv, MainEnds \/ RunSingle \/ RunInteractive \/ UserStep
    PROVE  OrderInv'
<1>1. opt \in Configs /\ opt.cmds \in 1..MaxCommands /\ cmd \in 0..MaxCommands /\ MaxCommands \in Nat \ {0}
  BY ClientAssumption, Zenon DEF CallType
<1>2. CASE MainEnds
  <2>1. ~Succeeded' /\ pc' = "end" /\ id' = id
    BY <1>2 DEF MainEnds, Succeeded, CallType, callVars, connVars
  <2> QED
    BY <2>1, Zenon DEF OrderInv, Right
<1>3. CASE RunSingle
  <2>1. pc' = "dial" /\ cmd' = 1 /\ conn' = conn /\ id' = id /\ conn # "open"
    BY <1>3 DEF RunSingle, TakeCommand, CallType, connVars, OrderInv
  <2> QED
    BY <1>1, <2>1, BusyGood DEF OrderInv, Commands
<1>4. ~RunInteractive
  BY Zenon DEF RunInteractive, Orderly
<1>5. CASE SessionExecute
  <2>1. cmd' \in Commands
    BY <1>1, <1>5 DEF SessionExecute, TakeCommand, Commands
  <2>2. UNCHANGED <<opt, mode, conn, id, net>> /\ pc' \in {"dial", "send"} /\ (pc' = "dial" => conn = "none") /\ pc = "ready"
    BY <1>5, Zenon DEF SessionExecute, TakeCommand, connVars
  <2>3. Kept' <=> Kept
    BY <2>2, Zenon DEF Kept, Left, Gone, Clear, Stale, Leads
  <2> QED
    BY <2>1, <2>2, <2>3, BusyGood, Zenon DEF OrderInv
<1>6. CASE HttpRefuse
  <2>1. ~Succeeded'
    BY <1>6, ProgramTypes DEF HttpRefuse, Succeeded, conf
  <2>2. UNCHANGED <<opt, mode, conn, id, net>> /\ pc' = "ready" /\ pc = "ready" /\ opt.driver = "http"
    BY <1>6, Zenon DEF HttpRefuse, conf, connVars
  <2>3. Kept' <=> Kept
    BY <2>2, Zenon DEF Kept, Left, Gone, Clear, Stale, Leads
  <2> QED
    BY <2>1, <2>2, <2>3, Zenon DEF OrderInv, Right
<1>7. CASE Quit
  <2>1. pc' = "end" /\ id' = id /\ UNCHANGED <<opt, mode, cmd, runs, err, resp>> /\ code' = code /\ opt.driver = "http" /\ pc = "ready"
    BY <1>7, Zenon DEF Quit, conf, callVars, OrderInv
  <2>2. Succeeded' => Succeeded
    BY <2>1, Zenon DEF Succeeded
  <2>3. IsAnswer(resp) => IsAnswer(resp)'
    BY <2>1, Zenon DEF IsAnswer, Response
  <2>4. Right'
    BY <2>2, <2>3, Zenon DEF OrderInv, Right, IsAnswer
  <2> QED
    BY <2>1, <2>4, Zenon DEF OrderInv
<1> QED
  BY <1>2, <1>3, <1>4, <1>5, <1>6, <1>7, Zenon DEF UserStep

(* It is about these variables only. *)
LEMMA SameOrder ==
    ASSUME UNCHANGED <<opt, mode, pc, cmd, conn, id, req, acc, net, runs, err, resp, code>>
    PROVE  OrderInv' <=> OrderInv
<1>2. Response(cmd)' = Response(cmd) /\ Sentinel(req)' = Sentinel(req) /\ Request(cmd, req)' = Request(cmd, req)
  BY Zenon DEF Response, Sentinel, Request
<1>3. (Clear' <=> Clear) /\ (Kept' <=> Kept)
  BY Zenon DEF Clear, Kept, Left, Gone, Stale, Leads
<1>4. Astray' <=> Astray
  BY DEF Astray, Stale, Leads
<1>5. Own' <=> Own
  BY <1>2, Zenon DEF Own, Gone, Unread, Answering, AnsweredBy, Serves
<1>6. Right' <=> Right
  BY <1>2, Zenon DEF Right, IsAnswer, Succeeded
<1> QED
  BY <1>2, <1>3, <1>4, <1>5, <1>6, Zenon DEF OrderInv

(* and so do Client.dial and the pause between two attempts. *)
LEMMA DialOrder ==
    ASSUME CallType, Orderly, OrderInv,
           Dialed \/ DialError \/ Authenticated \/ AuthError \/ BackoffOver \/ BackoffCancelled \/ Tick
    PROVE  OrderInv'
<1>1. CASE Dialed
  <2>1. net' = [up |-> TRUE, inq |-> <<>>, busy |-> FALSE, ans |-> 0, rest |-> <<>>, out |-> <<>>, wire |-> <<>>,
                torn |-> 0]
    BY <1>1, ZenonT(40) DEF Dialed, NoNet
  <2>2. Clear'
    BY <2>1, Zenon DEF Clear
  <2> QED
    BY <1>1, <2>2, BusyGood, Zenon DEF OrderInv, Dialed, conf
<1>2. CASE DialError
  <2>1. PICK e \in {"timeout", "net", "dialer"} : DialReturned(e)
    BY <1>2, Zenon DEF DialError
  <2> QED
    BY <1>2, <2>1, DialReturnedOrder, Zenon DEF DialError, conf
<1>3. CASE Authenticated
  <2>1. pc' = "send" /\ id' = 1 /\ UNCHANGED <<cmd, net>> /\ pc = "auth"
    BY <1>3, Zenon DEF Authenticated, Orderly
  <2>2. Clear'
    BY <2>1, Zenon DEF Clear, OrderInv
  <2> QED
    BY <2>1, <2>2, BusyGood DEF OrderInv, Kept
<1>4. CASE AuthError
  <2>1. PICK e \in {"timeout"} \cup ReadErrs \cup {"net", "ErrAuthFailed", "ErrInvalidAuthResponse"} : DialReturned(e)
    BY <1>4, Zenon DEF AuthError
  <2>2. e # "nil"
    BY Zenon DEF ReadErrs
  <2> QED
    BY <1>4, <2>1, <2>2, DialReturnedOrder, Zenon DEF AuthError, conf
<1>5. CASE BackoffOver
  BY <1>5, BusyGood, Zenon DEF BackoffOver, Redial, OrderInv, connVars
<1>6. CASE BackoffCancelled
  <2>1. pc' = "end" /\ id' = id /\ ~Succeeded'
    BY <1>6, Zenon DEF BackoffCancelled, Return, connVars, Succeeded
  <2> QED
    BY <2>1, Zenon DEF OrderInv, Right
<1>7. CASE Tick
  <2>1. UNCHANGED <<opt, mode, pc, cmd, conn, id, req, acc, net, runs, err, resp, code>>
    BY <1>7, Zenon DEF Tick, conf, connVars, doneVars
  <2> QED
    BY <2>1, SameOrder, Zenon
<1> QED
  BY <1>1, <1>2, <1>3, <1>4, <1>5, <1>6, <1>7

(* The server keeps it. *)
LEMMA ServerOrder ==
    ASSUME CallType, ByteType, runs \in [Commands -> Nat], Orderly, OrderInv, ServerStep
    PROVE  OrderInv'
<1>1. UNCHANGED <<opt, mode, pc, cmd, conn, id, req, acc, err, resp, code>>
  BY Zenon DEF ServerStep, ServerRun, ServerEcho, ServerWrite, Arrive, Drop, LateRun, clientVars, conf, callVars, connVars, doneVars
<1>2. pc = "auth" => Clear'
  BY ServerClear, Zenon DEF OrderInv
<1>3. ASSUME NEW o, Stale(o) PROVE Stale(o)' \/ Gone'
  BY <1>3, ServerStale, Zenon
<1>4. Kept => Kept'
  <2>1. Gone => Gone'
    BY ServerGone, Zenon
  <2>2. Clear => Clear' \/ Gone'
    BY ServerClear, Zenon
  <2>3. PICK o : o = id
    BY Zenon
  <2>4. Left => Left' \/ Gone'
    <3>1. Stale(id) => Stale(o)
      BY <2>3, Zenon
    <3>2. Stale(o)' => Stale(id)'
      BY <1>1, <2>3, Zenon
    <3> QED
      BY <1>1, <1>3, <3>1, <3>2, Zenon DEF Left
  <2> QED
    BY <2>1, <2>2, <2>4, Zenon DEF Kept
<1>5. Astray => Astray' \/ Gone'
  BY <1>1, <1>3, Zenon DEF Astray
<1>6. Own /\ cmd \in Commands => Own'
  BY ServerOwn, Zenon
<1>7. Response(cmd)' = Response(cmd)
  BY <1>1, Zenon DEF Response
<1>8. Right'
  <2>1. Succeeded' => Succeeded /\ cmd \in Commands
    BY <1>1 DEF Succeeded, CallType, Commands
  <2>2. CASE Succeeded
    <3>1. IsAnswer(resp)
      BY <2>2, Zenon DEF OrderInv, Right
    <3>2. PICK body : body = resp
      OBVIOUS
    <3>3. cmd \in Commands => IsAnswer(body)'
      BY <1>1, <3>1, <3>2, GoodKeeps, Zenon DEF Next
    <3> QED
      BY <1>1, <2>1, <3>2, <3>3, Zenon DEF Right, IsAnswer
  <2> QED
    BY <2>1, <2>2, Zenon DEF Right
<1>9. pc = "read" => Own' \/ Astray'
  BY <1>5, <1>6, Zenon DEF OrderInv, Own
<1> QED
  BY <1>1, <1>2, <1>4, <1>7, <1>8, <1>9 DEF OrderInv

(* On a connection at rest a command is the only one. *)
LEMMA SendClear ==
    ASSUME CallType, ByteType, cmd \in Commands, Send, Clear
    PROVE  net'.up /\ Unread'
<1>1. req' = NextID(id) /\ acc' = <<>> /\ UNCHANGED <<mode, cmd>> /\ net' = [net EXCEPT !.inq = @ \o Request(cmd, req')]
  BY Zenon DEF Send, execVars, conf, Clear
<1>2. net \in Nets /\ cmd \in 0..MaxCommands /\ req' \in Int32
  BY <1>1, NextIDProperties DEF ByteType, Commands
<1>3. Request(cmd, req)' = Request(cmd, req')
  BY <1>1, Zenon DEF Request, Sentinel
<1>4. <<>> \o Request(cmd, req') = Request(cmd, req')
  BY <1>2, RequestType, ConcatEmptySeq, Zenon
<1>5. net' = [net EXCEPT !.inq = Request(cmd, req')]
  BY <1>1, <1>4, Zenon DEF Clear
<1>6. net'.up /\ ~net'.busy /\ net'.inq = Request(cmd, req)' /\ net'.wire = <<>> /\ net'.out = <<>>
  BY <1>2, <1>3, <1>5, Zenon DEF Clear, Nets
<1> QED
  BY <1>1, <1>6, Zenon DEF Unread

(* Execute writes the command to a connection that is lost or at rest, or  *)
(* behind what is left of another answer; or it does not.                  *)
LEMMA SendOrder ==
    ASSUME CallType, ByteType, Orderly, OrderInv, Send
    PROVE  OrderInv'
<1>1. /\ pc = "send" /\ conn = "open" /\ pc' = "read" /\ acc' = <<>>
      /\ UNCHANGED <<opt, mode, cmd, conn>> /\ req' = NextID(id) /\ cmd \in Commands
      /\ net' = IF net.up THEN [net EXCEPT !.inq = @ \o Request(cmd, req')] ELSE net
  BY Zenon DEF Send, execVars, conf, OrderInv
<1>2. net \in Nets /\ id \in Int32 /\ id # -1 /\ id >= 0 /\ Kept /\ opt \in Configs /\ cmd \in Nat /\ cmd \in 0..MaxCommands
  BY <1>1 DEF ByteType, OrderInv, Commands, CallType
<1>3. NextID(id) \in Int32 /\ NextID(id) > 0 /\ NextID(id) # id /\ NextID(NextID(id)) > 0
  BY <1>2, NextIDProperties, Zenon
<1>4. id' >= 0 /\ (mode = "single" => id' = req')
  <2>1. id' = IF mode = "multi" THEN NextID(NextID(id)) ELSE NextID(id)
    BY <1>1, Zenon DEF Send
  <2>2. NextID(id) \in Int /\ NextID(NextID(id)) \in Int
    BY <1>3, NextIDProperties, Zenon DEF Int32
  <2> QED
    BY <1>1, <1>3, <2>1, <2>2
<1>9. \E k \in 0..opt.len : <<>> = SubSeq(Response(cmd), 1, k)
  <2>1. Response(cmd) \in Seq(Byte) /\ opt.len \in Nat
    BY <1>2, ResponseType, Zenon
  <2>2. SubSeq(Response(cmd), 1, 0) = <<>>
    BY <2>1
  <2>3. 0 \in 0..opt.len
    BY <2>1
  <2> QED
    BY <2>2, <2>3, Zenon
<1>10. Response(cmd)' = Response(cmd)
  BY <1>1, Zenon DEF Response
<1>11. Own' \/ Astray'
  <2>1. CASE Gone
    BY <1>1, <2>1, Zenon DEF Gone, Own
  <2>2. CASE Clear
    BY <1>1, <2>2, SendClear, Zenon DEF Own
  <2>3. CASE Left
    <3>1. /\ net'.up = net.up /\ net'.wire = net.wire /\ net'.out = net.out /\ net'.busy = net.busy /\ net'.ans = net.ans
      BY <1>1, <1>2, Zenon DEF Nets
    <3>2. PICK o \in Int32 : o = id
      BY <1>2, Zenon
    <3>3. Stale(o)
      BY <2>3, <3>2, Zenon DEF Left
    <3>4. Stale(o)'
      BY <3>1, <3>3, Zenon DEF Stale, Leads
    <3> QED
      BY <1>1, <1>2, <1>3, <2>3, <3>2, <3>4, Zenon DEF Astray, Left
  <2> QED
    BY <1>2, <2>1, <2>2, <2>3, Zenon DEF Kept
<1>12. \E k \in 0..opt'.len : acc' = SubSeq(Response(cmd)', 1, k)
  BY <1>1, <1>9, <1>10, Zenon
<1> QED
  BY <1>1, <1>4, <1>11, <1>12, BusyGood DEF OrderInv

(* A command that Conn.Execute refuses or cannot write is not under way. *)
LEMMA SendErrorOrder ==
    ASSUME CallType, ByteType, Orderly, OrderInv, SendError
    PROVE  OrderInv'
<1>1. PICK e \in IF conn = "closed" THEN {"ErrClosed"} ELSE IF check # "nil" THEN {check} ELSE {"timeout", "net"} :
             ConnReturned(e, <<>>, net) /\ id' = IF e \in NetErrors THEN NextID(id) ELSE id
  BY Zenon DEF SendError
<1>2. UNCHANGED <<opt, mode, cmd, runs>> /\ pc = "send"
  BY Zenon DEF SendError, execVars, conf
<1>3. e # "nil"
  BY <1>1, Zenon
<1>4. id' >= 0
  BY <1>1, NextIDProperties DEF ByteType, OrderInv, Int32
<1>5. ~IsConnError(e) /\ conn = "open" /\ net' = net => Kept'
  <2>1. SUFFICES ASSUME ~IsConnError(e), conn = "open", net' = net PROVE Kept'
    BY Zenon
  <2>2. e \notin NetErrors
    BY <2>1, Zenon DEF IsConnError
  <2>3. id' = id /\ Kept
    BY <1>1, <1>2, <2>1, <2>2, Zenon DEF OrderInv
  <2> QED
    BY <1>2, <2>1, <2>3, Zenon DEF Kept, Left, Gone, Clear, Stale, Leads
<1> QED
  BY <1>1, <1>2, <1>3, <1>4, <1>5, ConnReturnedOrder, Zenon

(* What is read from an empty stream. *)
LEMMA ReadEmpty ==
    ASSUME NEW end \in {"EOF", "timeout", "wait"}
    PROVE  ReadFrom(<<>>, end).err = end /\ ReadFrom(<<>>, end).rest = <<>>
BY DEF ReadFrom, ReadFull

(* The first packet after an old one is no answer. *)
LEMMA StaleRead ==
    ASSUME ByteType, NEW o, Stale(o)
    PROVE  \/ Packet1.err = "nil" /\ Packet1.p.ID = o
           \/ Packet1.err \in {"EOF", "timeout", "wait", "ErrUnexpectedEOF"} /\ Packet1.rest = <<>>
<1>1. PICK end \in {"EOF", "timeout", "wait"} : Packet1 = ReadFrom(net.wire, end)
  BY Zenon DEF Packet1
<1>2. CASE net.wire = <<>>
  BY <1>1, <1>2, ReadEmpty, Zenon
<1>3. CASE Leads(o)
  <2>1. PICK t \in Seq(Byte), p \in Sendable, r \in Seq(Byte) :
             (net.up => t = net.out) /\ p.ID = o /\ net.wire \o t = WriteTo(p) \o r
    BY <1>3, Zenon DEF Leads
  <2>2. p \in Packet /\ Len(p.Body) <= MaxPayloadSize /\ net.wire \in Seq(Byte)
    BY Zenon DEF Sendable, ByteType, Nets
  <2>3. PICK s \in Seq(Byte) : s = net.wire
    BY <2>2, Zenon
  <2>4. s \o t = WriteTo(p) \o r
    BY <2>1, <2>3, Zenon
  <2>5. \/ \E u \in Seq(Byte) : u \o t = r /\ ReadFrom(s, end) = [err |-> "nil", p |-> p, rest |-> u]
        \/ /\ ReadFrom(s, end).err \in {end, "ErrUnexpectedEOF"}
           /\ ReadFrom(s, end).rest = <<>>
    BY <2>2, <2>4, ReadsOrEnds, Zenon
  <2>6. CASE \E u \in Seq(Byte) : u \o t = r /\ ReadFrom(s, end) = [err |-> "nil", p |-> p, rest |-> u]
    <3>1. Packet1.err = "nil" /\ Packet1.p = p
      BY <1>1, <2>3, <2>6
    <3> QED
      BY <2>1, <3>1, Zenon
  <2>7. CASE ReadFrom(s, end).err \in {end, "ErrUnexpectedEOF"} /\ ReadFrom(s, end).rest = <<>>
    BY <1>1, <2>3, <2>7, Zenon
  <2> QED
    BY <2>5, <2>6, <2>7, Zenon
<1> QED
  BY <1>2, <1>3, Zenon DEF Stale

(* What is left when an answer ends. *)
LEMMA AnswerLeaves ==
    ASSUME ByteType, NEW t \in Seq(Byte), NEW u \in Seq(Byte), NEW c \in States, NEW b \in States, Flow(req, mode, u \o t, c, b),
           net.up => t = net.out /\ Serves(b),
           UNCHANGED mode, net' = [net EXCEPT !.wire = u],
           c.echoed \/ (opt.driver = "http" /\ mode = "single" /\ id' = req /\ UNCHANGED opt)
    PROVE  Kept'
<1>1. net \in Nets /\ net'.wire = u /\ net'.out = net.out /\ net'.up = net.up /\ net'.inq = net.inq
      /\ net'.busy = net.busy /\ net'.ans = net.ans
  BY Zenon DEF ByteType, Nets
<1>2. CASE u \o t = <<>> /\ c = b
  <2>1. u = <<>> /\ t = <<>>
    BY <1>2, Joined, EmptySeq
  <2>2. CASE net.up /\ ~net.busy
    <3>1. net.out = <<>> /\ Serves(b)
      BY <2>1, <2>2, Zenon
    <3>2. net.inq = <<>>
      BY <1>2, <3>1, Zenon DEF Serves, Sentinel
    <3> QED
      BY <1>1, <2>1, <2>2, <3>1, <3>2, Zenon DEF Kept, Clear
  <2>3. CASE net.up /\ net.busy
    <3>1. net.out = <<>> /\ ~b.echoed /\ net.ans = req
      BY <2>1, <2>3, Zenon DEF Serves
    <3>2. opt'.driver = "http" /\ mode' = "single" /\ id' = req
      BY <1>2, <3>1, Zenon
    <3>3. Stale(id)'
      BY <1>1, <2>1, <2>3, <3>1, <3>2, Zenon DEF Stale
    <3> QED
      BY <3>2, <3>3, Zenon DEF Kept, Left
  <2> QED
    BY <1>1, <2>1, <2>2, <2>3, Zenon DEF Kept, Gone
<1>3. CASE \E p \in Sendable, d \in States, r \in Seq(Byte) :
              u \o t = WriteTo(p) \o r /\ Frame(req, mode, p, c, d) /\ Flow(req, mode, r, d, b)
  <2>1. PICK p \in Sendable, d \in States, r \in Seq(Byte) : u \o t = WriteTo(p) \o r /\ Frame(req, mode, p, c, d)
    BY <1>3, Zenon
  <2>2. ~c.echoed
    BY <2>1, Zenon DEF Frame
  <2>3. opt'.driver = "http" /\ mode' = "single" /\ id' = req /\ p.ID = req
    BY <2>1, <2>2 DEF Frame
  <2>4. (net.up => t = net.out) /\ net'.wire \o t = WriteTo(p) \o r
    BY <1>1, <2>1, Zenon
  <2>5. Leads(id)'
    BY <1>1, <2>1, <2>3, <2>4, Zenon DEF Leads
  <2> QED
    BY <2>3, <2>5, Zenon DEF Kept, Left, Stale
<1> QED
  BY <1>2, <1>3, FlowHead, Zenon

(* A part of an answer. *)
LEMMA AnswerPrefix ==
    ASSUME opt \in Configs, NEW n \in Nat, NEW x \in Seq(Byte), NEW y \in Seq(Byte), x \o y = Response(n)
    PROVE  \E k \in 0..opt.len : x = SubSeq(Response(n), 1, k)
<1>1. Len(x \o y) = opt.len /\ opt.len \in Nat
  BY ResponseType, Zenon
<1>2. Len(x) \in 0..opt.len /\ x \o y \in Seq(Byte)
  <2>1. Len(x \o y) = Len(x) + Len(y) /\ Len(x) \in Nat /\ Len(y) \in Nat /\ x \o y \in Seq(Byte)
    BY Joined, Zenon
  <2> QED
    BY <1>1, <2>1
<1>3. x = SubSeq(x \o y, 1, Len(x))
  BY SplitOff
<1> QED
  BY <1>2, <1>3, Zenon

(* Execute returns an answer, or has read a part of it. *)
Answered == \E body, n : ConnReturned("nil", body, n) /\ IsAnswer(body) /\ (opt.driver = "http" /\ net' = n => Kept')
Continues ==
    /\ mode # "single" /\ Own' /\ \E k \in 0..opt'.len : acc' = SubSeq(Response(cmd)', 1, k)
    /\ net'.up = net.up /\ UNCHANGED <<conn, pc, attempt, elapsed, failed>> /\ (mode # "idle" => dl' = dl)

(* A packet that Execute reads of its own answer is the next part of it,   *)
(* or says that it is complete.                                            *)
LEMMA ReadOwn ==
    ASSUME CallType, ByteType, OrderInv, Own, Read
    PROVE  Answered \/ Continues
<1> DEFINE n == [net EXCEPT !.wire = Packet1.rest]
<1>1. /\ pc = "read" /\ Packet1.err = "nil" /\ ReadResponse(Packet1.p, n)
      /\ UNCHANGED <<opt, mode, cmd, runs, id, req>>
  BY Zenon DEF Read, execVars, conf
<1>2. cmd \in Commands /\ (mode = "single" => id = req /\ acc = <<>>)
  BY <1>1, Zenon DEF OrderInv
<1>3. net \in Nets /\ net.wire \in Seq(Byte) /\ req \in Int32 /\ acc \in Seq(Byte) /\ opt \in Configs /\ cmd \in Nat
  BY <1>2 DEF ByteType, Nets, CallType, Commands
<1>4. NextID(req) # req /\ NextID(req) # -1
  BY <1>3, NextIDProperties DEF Int32
<1>5. PICK end \in {"EOF", "timeout", "wait"} : Packet1 = ReadFrom(net.wire, end)
  BY Zenon DEF Packet1
<1> HIDE DEF n
<1>11. net.wire # <<>>
  BY <1>1, <1>5, ReadEmpty, Zenon
<1>12. Answering
  BY <1>11, Zenon DEF Own, Gone, Unread
<1>13. PICK t \in Seq(Byte), a, b \in States : AnsweredBy(t, a, b)
  BY <1>12, Zenon DEF Answering
<1>14. Flow(req, mode, net.wire \o t, a, b) /\ acc \o a.left = Response(cmd) /\ (net.up => t = net.out /\ Serves(b))
  BY <1>13, Zenon DEF AnsweredBy
<1>15. PICK p \in Sendable, c \in States, u \in Seq(Byte) :
            /\ ReadFrom(net.wire, end) = [err |-> "nil", p |-> p, rest |-> u]
            /\ Frame(req, mode, p, a, c) /\ Flow(req, mode, u \o t, c, b)
  <2>1. PICK s \in Seq(Byte) : s = net.wire
    BY <1>3, Zenon
  <2>2. Flow(req, mode, s \o t, a, b) /\ ReadFrom(s, end).err = "nil"
    BY <1>1, <1>5, <1>14, <2>1, Zenon
  <2>3. \/ \E p \in Sendable, c \in States, u \in Seq(Byte) :
               /\ ReadFrom(s, end) = [err |-> "nil", p |-> p, rest |-> u]
               /\ Frame(req, mode, p, a, c) /\ Flow(req, mode, u \o t, c, b)
        \/ ReadFrom(s, end).err \in {end, "ErrUnexpectedEOF"} /\ ReadFrom(s, end).rest = <<>>
    BY <2>2, ReadFlow, Zenon
  <2>4. ~(ReadFrom(s, end).err \in {end, "ErrUnexpectedEOF"})
    BY <2>2, Zenon
  <2> QED
    BY <2>1, <2>3, <2>4, Zenon
<1>16. Packet1.p = p /\ n = [net EXCEPT !.wire = u]
  BY <1>5, <1>15 DEF n
<1>17. a.left \in Seq(Byte)
  BY Zenon DEF States
<1>18. CASE p = [ID |-> req, Type |-> 0, Body |-> Chunk(a.left)] /\ c = [left |-> AfterChunk(a.left), echoed |-> FALSE]
  <2>1. p.ID = req /\ p.Body = Chunk(a.left) /\ Mine(p) /\ c.left = AfterChunk(a.left) /\ ~c.echoed
    BY <1>18, Zenon DEF Mine
  <2>2. CASE mode = "single"
    <3>1. ConnReturned("nil", p.Body, n)
      BY <1>1, <1>16, <2>1, <2>2, Zenon DEF ReadResponse
    <3>2. a.left = Response(cmd)
      <4>1. <<>> \o a.left = a.left
        BY <1>17, ConcatEmptySeq, Zenon
      <4> QED
        BY <1>2, <1>14, <2>2, <4>1, ZenonT(40)
    <3>3. IsAnswer(p.Body)
      BY <1>12, <2>1, <2>2, <3>2, Zenon DEF IsAnswer, Answering
    <3>4. opt.driver = "http" /\ net' = n => Kept'
      <4>1. SUFFICES ASSUME opt.driver = "http", net' = n PROVE Kept'
        BY Zenon
      <4> QED
        BY <1>1, <1>2, <1>14, <1>15, <1>16, <2>2, <4>1, AnswerLeaves, Zenon
    <3> QED
      BY <3>1, <3>3, <3>4, Zenon DEF Answered
  <2>3. CASE mode # "single"
    <3>1. /\ acc' = acc \o p.Body /\ net' = n /\ UNCHANGED <<conn, pc>>
      BY <1>1, <1>4, <1>16, <2>1, <2>3 DEF ReadResponse, KeepConn
    <3>2. acc' \o c.left = Response(cmd) /\ acc' \in Seq(Byte) /\ c.left \in Seq(Byte)
      <4>1. p.Body \in Seq(Byte) /\ p.Body \o c.left = a.left /\ c.left \in Seq(Byte)
        BY <1>17, <2>1, ChunkType, ResponseIsSplit, Zenon
      <4>2. (acc \o p.Body) \o c.left = acc \o (p.Body \o c.left) /\ acc \o p.Body \in Seq(Byte)
        <5>1. (acc \o p.Body) \o c.left = acc \o (p.Body \o c.left)
          BY <1>3, <4>1, JoinedThrice, Zenon
        <5>2. acc \o p.Body \in Seq(Byte)
          BY <1>3, <4>1, Joined, Zenon
        <5> QED
          BY <5>1, <5>2, Zenon
      <4> QED
        BY <1>14, <3>1, <4>1, <4>2, Zenon
    <3>3. Response(cmd)' = Response(cmd) /\ Sentinel(req)' = Sentinel(req)
      BY <1>1, Zenon DEF Response, Sentinel
    <3>4. net'.wire = u /\ net'.out = net.out /\ net'.up = net.up /\ net'.inq = net.inq
          /\ net'.busy = net.busy /\ net'.ans = net.ans /\ net'.rest = net.rest
      BY <1>3, <1>16, <3>1, Zenon DEF Nets
    <3>5. net'.up => t = net'.out /\ Serves(b)'
      BY <1>1, <1>14, <3>3, <3>4, Zenon DEF Serves
    <3>6. Flow(req', mode', net'.wire \o t, c, b)
      BY <1>1, <1>15, <3>4, ZenonT(40)
    <3>7. AnsweredBy(t, c, b)'
      BY <2>1, <3>2, <3>3, <3>5, <3>6, Zenon DEF AnsweredBy
    <3>8. Own'
      BY <1>1, <1>12, <3>7, Zenon DEF Own, Answering
    <3>9. \E k \in 0..opt'.len : acc' = SubSeq(Response(cmd)', 1, k)
      <4>1. PICK x \in Seq(Byte) : x = acc'
        BY <3>2, Zenon
      <4>2. \E k \in 0..opt.len : x = SubSeq(Response(cmd), 1, k)
        BY <1>3, <3>2, <4>1, AnswerPrefix, Zenon
      <4> QED
        BY <1>1, <3>3, <4>1, <4>2, Zenon
    <3>10. UNCHANGED <<attempt, elapsed, failed>> /\ (mode # "idle" => dl' = dl)
      BY <1>1, <1>4, <1>16, <2>1, <2>3, Zenon DEF ReadResponse, doneVars
    <3> QED
      BY <2>3, <3>1, <3>4, <3>8, <3>9, <3>10, Zenon DEF Continues
  <2> QED
    BY <2>2, <2>3, Zenon
<1>19. CASE mode = "multi" /\ a.left = <<>> /\ p = [ID |-> NextID(req), Type |-> 0, Body |-> <<>>] /\ c.echoed
  <2>1. p.ID = NextID(req) /\ ~Mine(p)
    BY <1>4, <1>19, Zenon DEF Mine
  <2>2. ConnReturned("nil", acc, n)
    BY <1>1, <1>16, <1>19, <2>1, Zenon DEF ReadResponse
  <2>3. IsAnswer(acc)
    <3>1. acc \o <<>> = acc
      BY <1>3, ConcatEmptySeq, Zenon
    <3> QED
      BY <1>12, <1>14, <1>19, <3>1, Zenon DEF IsAnswer, Answering
  <2>4. net' = n => Kept'
    <3>1. SUFFICES ASSUME net' = n PROVE Kept'
      BY Zenon
    <3> QED
      BY <1>1, <1>14, <1>15, <1>16, <1>19, <3>1, AnswerLeaves, Zenon
  <2> QED
    BY <2>2, <2>3, <2>4, Zenon DEF Answered
<1>20. CASE c = [left |-> <<>>, echoed |-> TRUE] /\ mode = "multi" /\ a.left = <<>>
            /\ p = [ID |-> NextID(req), Type |-> 0, Body |-> <<>>]
  <2>1. c.echoed
    BY <1>20, Zenon
  <2> QED
    BY <1>19, <1>20, <2>1, Zenon
<1> QED
  BY <1>15, <1>18, <1>20, Zenon DEF Frame

(* A packet left from another answer ends the connection. *)
LEMMA ReadAstray ==
    ASSUME ByteType, Astray, Read
    PROVE  opt.driver = "http" /\ \E n : ConnReturned("ErrResponseMismatch", <<>>, n)
<1> DEFINE n == [net EXCEPT !.wire = Packet1.rest]
<1>1. Packet1.err = "nil" /\ ReadResponse(Packet1.p, n)
  BY Zenon DEF Read
<1> HIDE DEF n
<1>2. PICK o \in Int32 : o # req /\ o # -1 /\ Stale(o)
  BY Zenon DEF Astray
<1>3. Packet1.p.ID = o
  BY <1>1, <1>2, StaleRead, Zenon
<1>4. mode = "single" /\ ~Mine(Packet1.p) /\ opt.driver = "http"
  BY <1>2, <1>3, Zenon DEF Astray, Mine
<1>5. ConnReturned("ErrResponseMismatch", <<>>, n)
  BY <1>1, <1>4, Zenon DEF ReadResponse
<1> QED
  BY <1>4, <1>5, Zenon

(* A read finds the answer, or that the packet is another's. *)
LEMMA ReadOrder ==
    ASSUME CallType, ByteType, Orderly, OrderInv, Read
    PROVE  OrderInv'
<1>1. pc = "read" /\ UNCHANGED <<opt, mode, cmd, runs, id, req>>
  BY Zenon DEF Read, execVars, conf
<1>2. cmd \in Commands /\ conn = "open" /\ (Own \/ Astray) /\ id' >= 0
  BY <1>1, Zenon DEF OrderInv
<1>3. CASE Astray
  <2>1. PICK n : ConnReturned("ErrResponseMismatch", <<>>, n)
    BY <1>3, ReadAstray, Zenon
  <2>2. IsConnError("ErrResponseMismatch")
    BY Zenon DEF IsConnError
  <2> QED
    BY <1>1, <1>2, <2>1, <2>2, ConnReturnedOrder, Zenon
<1>4. CASE Answered
  <2>1. PICK body, n : ConnReturned("nil", body, n) /\ IsAnswer(body) /\ (opt.driver = "http" /\ net' = n => Kept')
    BY <1>4, Zenon DEF Answered
  <2> QED
    BY <1>1, <1>2, <2>1, ConnReturnedOrder, Zenon
<1>5. CASE Continues
  BY <1>1, <1>2, <1>5, BusyGood, Zenon DEF OrderInv, Continues
<1> QED
  BY <1>2, <1>3, <1>4, <1>5, ReadOwn, Zenon

(* What a read that fails finds. *)
LEMMA ReadFails ==
    ASSUME CallType, ByteType, OrderInv, pc = "read"
    PROVE  Packet1.err = "nil" \/ (Packet1.err \in {"EOF", "timeout", "wait", "ErrUnexpectedEOF"} /\ Packet1.rest = <<>>)
<1>1. net.wire \in Seq(Byte) /\ (Own \/ Astray)
  BY Zenon DEF ByteType, Nets, OrderInv
<1>2. PICK end \in {"EOF", "timeout", "wait"} : Packet1 = ReadFrom(net.wire, end)
  BY Zenon DEF Packet1
<1>3. CASE Astray
  BY <1>3, StaleRead, Zenon DEF Astray
<1>4. CASE net.wire = <<>>
  BY <1>2, <1>4, ReadEmpty, Zenon
<1>5. CASE Answering
  <2>1. PICK t \in Seq(Byte), a, b \in States : AnsweredBy(t, a, b)
    BY <1>5, Zenon DEF Answering
  <2>2. PICK s \in Seq(Byte) : s = net.wire
    BY <1>1, Zenon
  <2>3. Flow(req, mode, s \o t, a, b)
    BY <2>1, <2>2, Zenon DEF AnsweredBy
  <2>4. \/ \E p \in Sendable, c \in States, u \in Seq(Byte) :
               /\ ReadFrom(s, end) = [err |-> "nil", p |-> p, rest |-> u]
               /\ Frame(req, mode, p, a, c) /\ Flow(req, mode, u \o t, c, b)
        \/ ReadFrom(s, end).err \in {end, "ErrUnexpectedEOF"} /\ ReadFrom(s, end).rest = <<>>
    BY <2>3, ReadFlow, Zenon
  <2>5. ReadFrom(s, end).err = "nil" \/ (ReadFrom(s, end).err \in {end, "ErrUnexpectedEOF"} /\ ReadFrom(s, end).rest = <<>>)
    <3>1. ASSUME NEW p, NEW u, ReadFrom(s, end) = [err |-> "nil", p |-> p, rest |-> u]
          PROVE  ReadFrom(s, end).err = "nil"
      BY <3>1
    <3> QED
      BY <2>4, <3>1, Zenon
  <2> QED
    BY <1>2, <2>2, <2>5, Zenon
<1> QED
  BY <1>1, <1>3, <1>4, <1>5, Zenon DEF Own, Gone, Unread

(* A read that fails returns no answer but, in idle mode, what was read. *)
LEMMA ReadErrorOrder ==
    ASSUME CallType, ByteType, Orderly, OrderInv, ReadError
    PROVE  OrderInv'
<1> DEFINE n == [net EXCEPT !.wire = Packet1.rest, !.torn = Torn]
<1>1. UNCHANGED <<opt, mode, cmd, runs, id, req>> /\ pc = "read"
  BY Zenon DEF ReadError, execVars, conf
<1>2. PICK e \in ({Packet1.err} \ {"nil", "wait"}) \cup (IF net.up THEN {} ELSE {"net"}) :
             IF mode = "idle" /\ ~first /\ e \in {"timeout", "EOF"}
               THEN ConnReturned("nil", acc, n)
               ELSE ConnReturned(e, <<>>, n)
  BY Zenon DEF ReadError
<1>3. e \in {"EOF", "timeout", "ErrUnexpectedEOF", "net"}
  BY <1>1, <1>2, ReadFails, Zenon
<1>4. id' >= 0
  BY <1>1, Zenon DEF OrderInv
<1>5. CASE mode = "idle" /\ ~first /\ e \in {"timeout", "EOF"}
  <2>1. IsAnswer(acc)
    BY <1>1, <1>5, Zenon DEF IsAnswer, OrderInv
  <2>2. opt.driver # "http"
    BY <1>5, Zenon DEF Orderly
  <2>3. ConnReturned("nil", acc, n)
    BY <1>2, <1>5, Zenon
  <2> HIDE DEF n
  <2> QED
    BY <1>1, <1>4, <2>1, <2>2, <2>3, ConnReturnedOrder, Zenon
<1>6. CASE ConnReturned(e, <<>>, n)
  <2>1. e # "nil" /\ (e # "ErrUnexpectedEOF" => IsConnError(e))
    BY <1>3, Zenon DEF IsConnError, NetErrors
  <2>2. e = "ErrUnexpectedEOF" => ~net.up /\ Packet1.rest = <<>>
    <3>1. SUFFICES ASSUME e = "ErrUnexpectedEOF" PROVE ~net.up /\ Packet1.rest = <<>>
      BY Zenon
    <3>2. Packet1.err = "ErrUnexpectedEOF"
      BY <1>2, <3>1, Zenon
    <3>3. Packet1.rest = <<>>
      BY <1>1, <3>2, ReadFails, Zenon
    <3>4. PICK end \in {"EOF", "timeout", "wait"} : Packet1 = ReadFrom(net.wire, end) /\ (end = "EOF" => ~net.up)
      BY Zenon DEF Packet1
    <3>5. end = "EOF"
      BY <3>2, <3>4, ReadFromType, Zenon DEF ByteType, Nets
    <3> QED
      BY <3>3, <3>4, <3>5, Zenon
  <2>3. ~IsConnError(e) /\ net' = n => Kept'
    <3>1. SUFFICES ASSUME ~IsConnError(e), net' = n PROVE Gone'
      BY Zenon DEF Kept
    <3>2. net'.up = net.up /\ net'.wire = Packet1.rest
      BY <3>1, Zenon DEF ByteType, Nets
    <3> QED
      BY <2>1, <2>2, <3>1, <3>2, Zenon DEF Gone
  <2> HIDE DEF n
  <2> QED
    BY <1>1, <1>4, <1>6, <2>1, <2>3, ConnReturnedOrder, Zenon
<1> QED
  BY <1>2, <1>5, <1>6, Zenon

(* The types, and the order of the stream. *)
AnswerInv == CallType /\ ByteType /\ runs \in [Commands -> Nat] /\ (Orderly => OrderInv)

(* The order of the stream holds after every step. *)
LEMMA OrderStep ==
    ASSUME CallType, ByteType, runs \in [Commands -> Nat], Orderly, OrderInv, [Next]_vars
    PROVE  OrderInv'
<1>1. CASE UNCHANGED vars
  <2>1. UNCHANGED <<opt, mode, pc, cmd, conn, id, req, acc, net, runs, err, resp, code>>
    BY <1>1, Zenon DEF vars, conf, callVars, connVars, doneVars
  <2>2. OrderInv' <=> OrderInv
    BY <2>1, SameOrder, Zenon
  <2> QED
    BY <2>2, Zenon
<1> QED
  BY <1>1, ServerOrder, ProgramOrder, DialOrder, SendOrder, SendErrorOrder, ReadOrder, ReadErrorOrder, Zenon
  DEF Next, ClientStep

(* They hold always. *)
LEMMA AnswerAlways == Spec => []AnswerInv
<1>1. Init => AnswerInv
  BY InitType, InitOrder DEF AnswerInv, Init
<1>2. AnswerInv /\ [Next]_vars => AnswerInv'
  BY TypeStep, RunsGrow, OrderlySame, OrderStep, Zenon DEF AnswerInv
<1> QED
  BY <1>1, <1>2, PTL DEF Spec

(* SuccessIsAnswer, for RunSingle in every mode and for the handler in the *)
(* modes that read a response to its end: what Client.Execute or           *)
(* Session.Execute returns as a success is the answer to this command,     *)
(* through retries, reconnects, torn frames and lost connections.  These   *)
(* programs need not be told that no earlier command tore the stream: they *)
(* never go on with one that is torn.                                      *)
THEOREM SuccessAnswersCommand ==
    Spec => [](Orderly => SuccessIsAnswer /\ (Succeeded => IsAnswer(resp)))
<1>1. AnswerInv => (Orderly => SuccessIsAnswer /\ (Succeeded => IsAnswer(resp)))
  BY Zenon DEF AnswerInv, OrderInv, Right, SuccessIsAnswer
<1> QED
  BY <1>1, AnswerAlways, PTL

-----------------------------------------------------------------------------
(* The deadline in force never reaches past the end of the timeout. *)
TimeInv ==
    /\ opt \in Configs /\ attempt \in Nat /\ elapsed \in Nat /\ dl \in Nat
    /\ pc = "start" => attempt = 0 /\ elapsed = 0
    /\ mode # "idle" /\ opt.timeout > 0 =>
         /\ elapsed <= opt.timeout
         /\ pc \in {"dial", "auth", "read"} /\ attempt > 0 => elapsed + dl <= opt.timeout

(* The handler after a request that failed although nothing went wrong: it *)
(* has dropped its session, or the connection of the session is lost, and  *)
(* the next request finds this out in time for its reconnect.  A request   *)
(* that meets no fault has time to send and to read.                       *)
Handler == opt.driver = "http" /\ mode # "idle"

HealInv ==
    /\ failed \in {0, 1} /\ pc # "backoff"
    /\ attempt = 0 => elapsed = 0
    /\ pc = "send" => ~Done(attempt, elapsed)
    /\ pc = "read" /\ clean => dl > 0
    /\ failed = 1 =>
         /\ pc = "ready" => conn = "none" \/ (conn = "open" /\ Gone)
         /\ pc = "send" /\ clean => conn = "open" /\ ((Gone /\ attempt = 1) \/ Clear)
         /\ pc = "read" /\ clean => (Gone /\ attempt = 1) \/ (net.up /\ Own)

Failure(e) == e \notin CommandErrs \cup {"nil"}

(* It holds at the start. *)
LEMMA InitHeal == Init => HealInv
BY Zenon DEF Init, HealInv, Done, HasDeadline

(* Session.Execute returns, or reconnects. *)
LEMMA ConnReturnedHeal ==
    ASSUME CallType, Handler, HealInv, UNCHANGED <<opt, mode, clean>>, NEW e, NEW body, NEW n, ConnReturned(e, body, n),
           failed = 1 /\ clean /\ Failure(e) => IsRetryable(e) /\ attempt = 1,
           net' = n /\ ~IsConnError(e) /\ Failure(e) => conn = "open" /\ Gone'
    PROVE  HealInv'
<1>1. CASE Redial(2)
  BY <1>1 DEF Redial, HealInv, doneVars
<1>2. CASE ~(IsRetryable(e) /\ attempt = 1) /\ SessionReturned(e, body, n)
  <2>1. /\ pc' = "ready" /\ attempt' = 0 /\ elapsed' = 0
        /\ failed' = IF ~Failure(e) \/ ~clean' THEN 0 ELSE failed + 1
    BY <1>2, Zenon DEF SessionReturned, Return, Failure
  <2>2. CASE Failure(e) /\ clean
    <3>1. failed = 0 /\ failed' = 1
      BY <1>2, <2>1, <2>2 DEF HealInv
    <3>2. conn' = "none" \/ (conn' = "open" /\ Gone')
      BY <1>2, <2>2, Zenon DEF SessionReturned, Drops, Handler, CloseConn, KeepConn
    <3> QED
      BY <2>1, <3>1, <3>2, Zenon DEF HealInv
  <2>3. CASE ~(Failure(e) /\ clean)
    <3>1. failed' = 0
      BY <2>1, <2>3, Zenon
    <3> QED
      BY <2>1, <3>1 DEF HealInv
  <2> QED
    BY <2>2, <2>3, Zenon
<1> QED
  BY <1>1, <1>2, Zenon DEF ConnReturned, Handler

(* The programs and Client.dial keep it; a fault resets the count. *)
LEMMA ProgramHeal ==
    ASSUME CallType, Handler, HealInv, MainEnds \/ RunSingle \/ RunInteractive \/ UserStep
    PROVE  HealInv'
<1>1. opt.timeout \in Nat
  BY ClientAssumption, Zenon DEF CallType
<1>2. CASE MainEnds
  BY <1>2, Zenon DEF MainEnds, HealInv, callVars
<1>3. ~RunSingle /\ ~RunInteractive
  BY Zenon DEF RunSingle, RunInteractive, Handler
<1>4. CASE SessionExecute
  <2>1. UNCHANGED <<opt, conn, net, failed>> /\ elapsed' = 0 /\ pc = "ready"
    BY <1>4, Zenon DEF SessionExecute, TakeCommand, connVars
  <2>2. Gone' <=> Gone
    BY <2>1, Zenon DEF Gone
  <2>3. \/ pc' = "dial" /\ attempt' = 0
        \/ pc' = "send" /\ attempt' = 1 /\ conn # "none"
    BY <1>4, Zenon DEF SessionExecute
  <2>4. ~Done(attempt, elapsed)'
    BY <1>1, <2>1 DEF Done, HasDeadline
  <2> QED
    BY <2>1, <2>2, <2>3, <2>4, Zenon DEF HealInv
<1>5. CASE HttpRefuse
  <2>1. UNCHANGED <<opt, pc, conn, net, failed, attempt, elapsed>> /\ pc = "ready"
    BY <1>5, Zenon DEF HttpRefuse, conf, connVars
  <2>2. Gone' <=> Gone
    BY <2>1, Zenon DEF Gone
  <2> QED
    BY <2>1, <2>2, Zenon DEF HealInv
<1>6. CASE Quit
  BY <1>6, Zenon DEF Quit, HealInv, callVars
<1> QED
  BY <1>2, <1>3, <1>4, <1>5, <1>6, Zenon DEF UserStep

(* A new connection has nothing left from an old one. *)
LEMMA DialHeal ==
    ASSUME CallType, Handler, OrderInv, TimeInv, HealInv,
           Dialed \/ DialError \/ Authenticated \/ AuthError \/ BackoffOver \/ BackoffCancelled \/ Tick
    PROVE  HealInv'
<1>1. opt.timeout \in Nat /\ attempt \in Nat /\ elapsed \in Nat /\ dl \in Nat
  BY ClientAssumption, Zenon DEF CallType, TimeInv
<1>2. CASE Dialed
  BY <1>2, Zenon DEF Dialed, HealInv, doneVars
<1>3. CASE DialError \/ AuthError
  <2>1. PICK e : DialReturned(e)
    BY <1>3, Zenon DEF DialError, AuthError
  <2>2. ~clean' /\ UNCHANGED <<opt, mode>>
    BY <1>3, Zenon DEF DialError, AuthError, conf
  <2>3. Return(e, <<>>, "ready")
    BY <2>1, Zenon DEF DialReturned, Handler
  <2>4. failed' = 0 /\ pc' = "ready" /\ attempt' = 0 /\ elapsed' = 0
    BY <2>2, <2>3, Zenon DEF Return
  <2> QED
    BY <2>4 DEF HealInv
<1>4. CASE Authenticated
  <2>1. /\ pc = "auth" /\ dl > 0 /\ UNCHANGED <<opt, elapsed, net, failed>> /\ pc' = "send" /\ conn' = "open"
        /\ attempt' = IF attempt = 0 THEN 1 ELSE attempt
    BY <1>4, Zenon DEF Authenticated, Handler, conf, doneVars
  <2>2. Clear'
    BY <2>1, Zenon DEF OrderInv, Clear
  <2>3. ~Done(attempt, elapsed)'
    BY <1>1, <2>1 DEF Done, HasDeadline, TimeInv, Handler, HealInv
  <2>4. attempt' # 0
    BY <1>1, <2>1
  <2> QED
    BY <2>1, <2>2, <2>3, <2>4, Zenon DEF HealInv
<1>5. ~BackoffOver /\ ~BackoffCancelled
  BY Zenon DEF BackoffOver, BackoffCancelled, HealInv
<1>6. CASE Tick
  <2>1. /\ UNCHANGED <<opt, mode, pc, cmd, conn, id, req, acc, net, runs, failed, attempt>>
        /\ pc # "send" /\ dl' = dl - 1 /\ clean' = (clean /\ dl > 1)
    BY <1>6, Zenon DEF Tick, Blocked, HealInv, conf, connVars, doneVars
  <2>2. attempt = 0 => elapsed' = elapsed
    BY <1>6 DEF Tick, HasDeadline
  <2>3. Response(cmd)' = Response(cmd) /\ Sentinel(req)' = Sentinel(req) /\ Request(cmd, req)' = Request(cmd, req)
    BY <2>1, Zenon DEF Response, Sentinel, Request
  <2>4. (Own' <=> Own) /\ (Gone' <=> Gone)
    BY <2>1, <2>3, Zenon DEF Own, Gone, Unread, Answering, AnsweredBy, Serves
  <2>5. clean' => clean /\ dl' > 0
    <3>1. clean' => clean /\ dl > 1
      BY <2>1, Zenon
    <3>2. dl > 1 => dl' > 0
      BY <1>1, <2>1
    <3> QED
      BY <3>1, <3>2, Zenon
  <2> QED
    BY <2>1, <2>2, <2>4, <2>5, Zenon DEF HealInv
<1> QED
  BY <1>2, <1>3, <1>4, <1>5, <1>6, Zenon

(* The server keeps it: a connection that it drops is a fault. *)
LEMMA ServerHeal ==
    ASSUME CallType, ByteType, runs \in [Commands -> Nat], OrderInv, HealInv, ServerStep
    PROVE  HealInv'
<1>1. UNCHANGED <<opt, pc, conn, failed, attempt, elapsed, dl>>
  BY Zenon DEF ServerStep, ServerRun, ServerEcho, ServerWrite, Arrive, Drop, LateRun, clientVars, conf, callVars, connVars, doneVars
<1>2. Gone => Gone'
  BY ServerGone
<1>3. Done(attempt, elapsed)' <=> Done(attempt, elapsed)
  BY <1>1, Zenon DEF Done, HasDeadline
<1>4. CASE Drop
  BY <1>1, <1>2, <1>3, <1>4, Zenon DEF Drop, HealInv
<1>5. CASE ~Drop
  <2>1. clean' = clean /\ net'.up = net.up
    <3>1. net \in Nets
      BY Zenon DEF ByteType
    <3>2. CASE ServerRun \/ Arrive
      BY <3>1, <3>2, Zenon DEF ServerRun, Arrive, Nets
    <3>3. CASE LateRun
      BY <3>3, Zenon DEF LateRun
    <3>4. CASE ServerEcho \/ ServerWrite
      BY <3>1, <3>4, ZenonT(40) DEF ServerEcho, ServerWrite, Written, Nets
    <3> QED
      BY <1>5, <3>2, <3>3, <3>4, Zenon DEF ServerStep
  <2>2. Clear => Clear'
    BY <2>1, ServerClear, Zenon DEF Clear, Gone
  <2>3. pc = "read" /\ Own => Own'
    BY ServerOwn, Zenon DEF OrderInv
  <2> QED
    BY <1>1, <1>2, <1>3, <2>1, <2>2, <2>3, Zenon DEF HealInv
<1> QED
  BY <1>4, <1>5, Zenon

(* A request that meets no fault is sent, *)
LEMMA SendHeal ==
    ASSUME CallType, ByteType, Handler, OrderInv, TimeInv, HealInv, Send
    PROVE  HealInv'
<1>1. /\ pc = "send" /\ pc' = "read" /\ ~Done(attempt, elapsed) /\ UNCHANGED <<opt, attempt, elapsed, conn, failed, clean>>
      /\ dl' = Sooner(Deadline, attempt, elapsed)
      /\ ~net.up => net' = net
  BY Zenon DEF Send, execVars, conf, doneVars
<1>2. opt.timeout \in Nat /\ elapsed \in Nat /\ attempt \in Nat /\ Deadline \in Nat /\ Deadline > 0
  BY ClientAssumption DEF TimeInv
<1>3. dl' > 0
  BY <1>1, <1>2 DEF Sooner, Done, HasDeadline, Min2
<1>4. Gone => Gone'
  BY <1>1, Zenon DEF Gone
<1>5. Clear => net'.up /\ Own'
  BY <1>1, SendClear, Zenon DEF OrderInv, Own
<1> QED
  BY <1>1, <1>3, <1>4, <1>5, Zenon DEF HealInv

(* or the Session reconnects, *)
LEMMA SendErrorHeal ==
    ASSUME CallType, Handler, HealInv, SendError
    PROVE  HealInv'
<1>1. PICK e \in IF conn = "closed" THEN {"ErrClosed"}
                 ELSE IF check # "nil" THEN {check}
                 ELSE {x \in {"timeout", "net"} : IF x = "net" THEN ~net.up ELSE Done(attempt, elapsed)} :
             ConnReturned(e, <<>>, net)
  BY Zenon DEF SendError
<1>2. pc = "send" /\ UNCHANGED <<opt, mode, clean>>
  BY Zenon DEF SendError, execVars, conf
<1>3. check \in {"nil"} \cup CommandErrs
  BY Zenon DEF CallType
<1>4. Failure(e) => \/ conn = "closed" /\ e = "ErrClosed"
                    \/ e = "net" /\ ~net.up
                    \/ e = "timeout" /\ Done(attempt, elapsed)
  BY <1>1, <1>3, Zenon DEF Failure
<1>5. Failure(e) => IsConnError(e)
  BY <1>4, Zenon DEF IsConnError, NetErrors
<1>6. failed = 1 /\ clean /\ Failure(e) => IsRetryable(e) /\ attempt = 1
  BY <1>2, <1>4, Zenon DEF HealInv, IsRetryable, NetErrors, Clear
<1> QED
  BY <1>1, <1>2, <1>5, <1>6, ConnReturnedHeal, Zenon

(* and its answer is read, *)
LEMMA ReadHeal ==
    ASSUME CallType, ByteType, Handler, OrderInv, HealInv, Read
    PROVE  HealInv'
<1>1. pc = "read" /\ Packet1.err = "nil" /\ UNCHANGED <<opt, mode, clean>>
  BY Zenon DEF Read, execVars, conf
<1>2. ~Gone
  <2>1. PICK end \in {"EOF", "timeout", "wait"} : Packet1 = ReadFrom(net.wire, end)
    BY Zenon DEF Packet1
  <2> QED
    BY <1>1, <2>1, ReadEmpty, Zenon DEF Gone
<1>3. CASE Answered
  <2>1. PICK body, n : ConnReturned("nil", body, n)
    BY <1>3, Zenon DEF Answered
  <2>2. ~Failure("nil")
    BY Zenon DEF Failure
  <2> QED
    BY <1>1, <2>1, <2>2, ConnReturnedHeal, Zenon
<1>4. CASE Continues
  <2>1. UNCHANGED <<pc, attempt, elapsed, failed, dl, conn>> /\ Own' /\ net'.up = net.up
    BY <1>4, Zenon DEF Continues, Handler
  <2> QED
    BY <1>1, <1>2, <2>1, Zenon DEF HealInv
<1>5. CASE Astray /\ ~Own
  <2>1. PICK n : ConnReturned("ErrResponseMismatch", <<>>, n)
    BY <1>5, ReadAstray, Zenon
  <2>2. IsConnError("ErrResponseMismatch")
    BY Zenon DEF IsConnError
  <2>3. ~(failed = 1 /\ clean)
    BY <1>1, <1>2, <1>5, Zenon DEF HealInv
  <2> QED
    BY <1>1, <2>1, <2>2, <2>3, ConnReturnedHeal, Zenon
<1> QED
  BY <1>1, <1>3, <1>4, <1>5, ReadOwn, Zenon DEF OrderInv

(* or the Session reconnects. *)
LEMMA ReadErrorHeal ==
    ASSUME CallType, ByteType, Handler, OrderInv, TimeInv, HealInv, ReadError
    PROVE  HealInv'
<1> DEFINE n == [net EXCEPT !.wire = Packet1.rest, !.torn = Torn]
<1>1. pc = "read" /\ UNCHANGED <<opt, mode, clean>> /\ conn = "open"
  BY Zenon DEF ReadError, execVars, conf, OrderInv
<1>2. PICK e \in ({Packet1.err} \ {"nil", "wait"}) \cup (IF net.up THEN {} ELSE {"net"}) : ConnReturned(e, <<>>, n)
  BY Zenon DEF ReadError, Handler
<1>3. e \in {"EOF", "timeout", "ErrUnexpectedEOF", "net"}
  BY <1>1, <1>2, ReadFails, Zenon
<1>4. PICK end \in {"EOF", "timeout", "wait"} :
             /\ Packet1 = ReadFrom(net.wire, end)
             /\ (end = "EOF" <=> ~net.up) /\ (end = "timeout" => dl = 0)
  BY Zenon DEF Packet1
<1>5. net.wire \in Seq(Byte) /\ net \in Nets
  BY Zenon DEF ByteType, Nets
<1>6. Packet1.err = "ErrUnexpectedEOF" => ~net.up
  BY <1>4, <1>5, ReadFromType, Zenon
<1>7. e = "ErrUnexpectedEOF" => ~net.up /\ Packet1.rest = <<>>
  BY <1>1, <1>2, <1>6, ReadFails, Zenon
<1>8. failed = 1 /\ clean => IsRetryable(e) /\ attempt = 1
  <2>1. SUFFICES ASSUME failed = 1, clean PROVE IsRetryable(e) /\ attempt = 1
    BY Zenon
  <2>2. CASE Gone /\ attempt = 1
    <3>1. Packet1.err = "EOF"
      BY <1>4, <2>2, ReadEmpty, Zenon DEF Gone
    <3> QED
      BY <1>2, <2>2, <3>1, Zenon DEF IsRetryable, NetErrors
  <2>3. CASE net.up /\ Own
    <3>1. dl # 0 /\ end = "wait"
      BY <1>1, <1>4, <2>1, <2>3 DEF HealInv, TimeInv
    <3>2. Packet1.err \in {"nil", "wait"}
      <4>1. Packet1.err \in {"nil", "wait", "ErrUnexpectedEOF", "ErrResponseTooLong", "ErrResponseTooShort"}
        BY <1>4, <1>5, <3>1, ReadFromType, Zenon
      <4>2. Packet1.err \in {"nil", "EOF", "timeout", "wait", "ErrUnexpectedEOF"}
        BY <1>1, ReadFails, Zenon
      <4> QED
        BY <1>6, <2>3, <4>1, <4>2, Zenon
    <3> QED
      BY <1>2, <2>3, <3>2, Zenon
  <2> QED
    BY <1>1, <2>1, <2>2, <2>3, Zenon DEF HealInv
<1>9. net' = n /\ ~IsConnError(e) => Gone'
  <2>1. SUFFICES ASSUME net' = n, ~IsConnError(e) PROVE Gone'
    BY Zenon
  <2>2. e = "ErrUnexpectedEOF"
    BY <1>3, <2>1, Zenon DEF IsConnError, NetErrors
  <2>3. net'.up = net.up /\ net'.wire = Packet1.rest
    BY <1>5, <2>1, Zenon DEF Nets
  <2> QED
    BY <1>7, <2>2, <2>3, Zenon DEF Gone
<1> HIDE DEF n
<1> QED
  BY <1>1, <1>2, <1>8, <1>9, ConnReturnedHeal, Zenon

(* Every step of the handler keeps it. *)
LEMMA HealStep ==
    ASSUME CallType, ByteType, runs \in [Commands -> Nat], Handler, OrderInv, TimeInv, HealInv, [Next]_vars
    PROVE  HealInv'
<1>1. CASE UNCHANGED vars
  <2>1. UNCHANGED <<opt, mode, pc, cmd, conn, id, req, acc, net, runs, failed, attempt, elapsed, dl, clean>>
    BY <1>1, Zenon DEF vars, conf, callVars, connVars, doneVars
  <2>2. Response(cmd)' = Response(cmd) /\ Sentinel(req)' = Sentinel(req) /\ Request(cmd, req)' = Request(cmd, req)
    BY <2>1, Zenon DEF Response, Sentinel, Request
  <2>3. (Own' <=> Own) /\ (Gone' <=> Gone) /\ (Clear' <=> Clear)
    BY <2>1, <2>2, Zenon DEF Own, Gone, Clear, Unread, Answering, AnsweredBy, Serves
  <2>4. Done(attempt, elapsed)' <=> Done(attempt, elapsed)
    BY <2>1, Zenon DEF Done, HasDeadline
  <2> QED
    BY <2>1, <2>3, <2>4, Zenon DEF HealInv
<1> QED
  BY <1>1, ServerHeal, ProgramHeal, DialHeal, SendHeal, SendErrorHeal, ReadHeal, ReadErrorHeal, Zenon DEF Next, ClientStep

(* The handler stays one: its driver and its mode are fixed. *)
LEMMA HandlerSame == ASSUME CallType, [Next]_vars PROVE Handler' <=> Handler
<1>1. CASE UNCHANGED <<opt, mode>>
  BY <1>1, Zenon DEF Handler
<1>2. CASE RunSingle \/ RunInteractive
  BY <1>2, Zenon DEF Handler, RunSingle, RunInteractive, TakeCommand
<1>3. CASE MainEnds \/ UserStep \/ Tick \/ UNCHANGED vars
  <2>1. UNCHANGED <<opt, mode>>
    BY <1>3, Zenon DEF UserStep, MainEnds, SessionExecute, HttpRefuse, Quit, Tick, TakeCommand, vars, conf
  <2> QED
    BY <1>1, <2>1, Zenon
<1>4. CASE Dialed \/ DialError \/ Authenticated \/ AuthError \/ BackoffOver \/ BackoffCancelled
  <2>1. UNCHANGED <<opt, mode>>
    BY <1>4, Zenon DEF Dialed, DialError, Authenticated, AuthError, BackoffOver, BackoffCancelled, execVars, conf
  <2> QED
    BY <1>1, <2>1, Zenon
<1>5. CASE SendError \/ Send \/ Read \/ ReadError
  <2>1. UNCHANGED <<opt, mode>>
    BY <1>5, Zenon DEF SendError, Send, Read, ReadError, execVars, conf
  <2> QED
    BY <1>1, <2>1, Zenon
<1>6. CASE ServerStep
  <2>1. UNCHANGED <<opt, mode>>
    BY <1>6, Zenon DEF ServerStep, ServerRun, ServerEcho, ServerWrite, Arrive, Drop, LateRun, clientVars, conf
  <2> QED
    BY <1>1, <2>1, Zenon
<1> QED
  BY <1>2, <1>3, <1>4, <1>5, <1>6, Zenon DEF Next, ClientStep
=============================================================================
