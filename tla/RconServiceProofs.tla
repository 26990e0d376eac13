------------------------- MODULE RconServiceProofs --------------------------
(***************************************************************************)
(* Proofs that Execute returns the answer to its own command. A Conn that  *)
(* makes fewer calls than half the ids there are never gives an id out     *)
(* again, and the exchange with its server implements CommandService.      *)
(***************************************************************************)
EXTENDS RconService, RconStreamProofs, FiniteSetTheorems

-----------------------------------------------------------------------------
(* What Execute returns. *)

(* What the last call of c got is what it should get. *)
Good(c) ==
    LET n == res[c].n  body == res[c].body
    IN  /\ n \in 1..MaxCalls
        /\ mode = "multi"  => chunks[n] > 0 /\ Len(body) = chunks[n]
        /\ mode = "single" => chunks[n] > 0 /\ body = <<<<n, 1>>>>
        /\ mode # "single" => body = Whole(n, Len(body)) /\ Len(body) <= chunks[n]

ResultInv == \A c \in Callers : Succeeded(c) => Good(c)

(* No call is in flight and none has returned. *)
LEMMA StreamInit == Init => StreamInv /\ ResultInv
<1> SUFFICES ASSUME Init PROVE StreamInv /\ ResultInv
  BY Zenon
<1>1. mu \notin Callers
  BY ConnAssumption, Zenon DEF Init, ConnInit
<1>2. \A c \in Callers : ~Succeeded(c)
  BY Zenon DEF Init, ConnInit, Succeeded, NoResult
<1> QED
  BY <1>1, <1>2, Zenon DEF StreamInv, ResultInv, Good

(* Each step of the exchange keeps it. *)
LEMMA ResultStep ==
    (/\ PeerTypeOK
     /\ PeerTypeOK'
     /\ CallInv
     /\ OpenInv
     /\ Holder
     /\ StreamInv
     /\ ResultInv
     /\ [Next]_vars
     /\ (\A d \in Callers : pc[d] # "idle" => phase = "ready")
     /\ (\A d \in Callers : pc[d] \in {"sentinel", "drain"} => mode = "multi")) => ResultInv'
(* A step that gives no caller a response from a whole stream. *)
<1>ResultSame. ASSUME ResultInv, UNCHANGED <<mode, chunks>>,
                      \A c \in Callers : res'[c] = res[c] \/ res'[c].kind # "ok" \/ res'[c].torn
               PROVE  ResultInv'
  BY <1>ResultSame, Zenon DEF ResultInv, Good, Succeeded
(* Execute returns to c with what it should. *)
<1>ResultReturn. ASSUME PeerTypeOK, PeerTypeOK', ResultInv, UNCHANGED <<mode, chunks>>, NEW c \in Callers,
                        NEW kind, NEW body, Return(c, kind, body),
                        kind = "ok" /\ ~torn =>
                            /\ args[c].n \in 1..MaxCalls
                            /\ mode = "multi"  => chunks[args[c].n] > 0 /\ Len(body) = chunks[args[c].n]
                            /\ mode = "single" => chunks[args[c].n] > 0 /\ body = <<<<args[c].n, 1>>>>
                            /\ mode # "single" => body = Whole(args[c].n, Len(body)) /\ Len(body) <= chunks[args[c].n]
                 PROVE  ResultInv'
  <2> USE <1>ResultReturn
  <2> DEFINE r == [n |-> args[c].n, kind |-> kind, body |-> body, torn |-> torn]
  <2>1. res' = [res EXCEPT ![c] = r] /\ res \in [Callers -> [n : Nat, kind : Kinds, body : Seq(Body), torn : BOOLEAN]]
    BY ZenonT(40) DEF Return, Result, PeerTypeOK, TypeOK
  <2>2. r.n = args[c].n /\ r.kind = kind /\ r.body = body /\ r.torn = torn
    BY Zenon
  <2> HIDE DEF r
  <2>3. res'[c] = r /\ \A d \in Callers : d # c => res'[d] = res[d]
    BY <2>1, Zenon
  <2> QED
    BY <2>2, <2>3, ZenonT(40) DEF ResultInv, Good, Succeeded
(* Each way in which a step of Execute returns. *)
<1>ResultCaller. ASSUME PeerTypeOK, PeerTypeOK', CallInv, OpenInv, Holder, StreamInv, ResultInv,
                        NEW c \in Callers, CallerStep(c), UNCHANGED peerVars,
                        \A d \in Callers : pc[d] # "idle" => phase = "ready",
                        \A d \in Callers : pc[d] \in {"sentinel", "drain"} => mode = "multi"
                 PROVE  ResultInv'
  <2> USE <1>ResultCaller
  <2>1. UNCHANGED <<mode, chunks, todo, mirror>>
    BY Zenon DEF peerVars, CallerStep, SendClosed, SendError, Send, SendSentinel, ReadSinglePacket, ReadMultiPacket,
           ReadIdleDrain, ReadIdleClosed, Drain, ReadError, ReadUnchanged
  <2>2. CASE UNCHANGED res
    BY <2>1, <2>2, <1>ResultSame, Zenon
  <2>3. CASE \E kind, body : Return(c, kind, body) /\ kind # "ok"
    BY <2>1, <2>3, <1>ResultReturn, ZenonT(40)
  <2>4. ASSUME pc[c] = "read" \/ pc[c] = "drain", ~torn
        PROVE  /\ mu = c /\ mu \in Callers /\ args[c].n \in 1..MaxCalls /\ Cmd = args[c].n /\ Total = chunks[args[c].n]
               /\ flight.acc = Whole(Cmd, Have) /\ Have <= Total /\ Have = Len(flight.acc) /\ Total \in Nat
               /\ pc[c] = "drain" => Have = Total /\ Total > 0
    <3>1. mu = c
      BY <2>4, Zenon DEF Holder
    <3>2. Cmd \in 1..MaxCalls /\ Total \in Nat
      BY <2>4, <3>1, TotalOK, Zenon
    <3> QED
      BY <2>4, <3>1, <3>2, Zenon DEF StreamInv, Cmd, Total, Have
  <2>5. CASE ReadSinglePacket(c)
    <3>1. mode = "single" /\ pc[c] = "read" /\ Fetch
      BY <2>5, Zenon DEF ReadSinglePacket
    <3>2. PICK p \in Decoded : IF Mine(p) THEN Return(c, "ok", <<p.body>>)
                                          ELSE Return(c, "ErrResponseMismatch", <<>>)
      BY <2>5, Zenon DEF ReadSinglePacket
    <3>3. CASE ~Mine(p)
      BY <2>3, <3>2, <3>3
    <3>4. CASE Mine(p)
      <4>1. ASSUME ~torn PROVE chunks[args[c].n] > 0 /\ p.body = <<args[c].n, 1>>
        <5>1. p = Line[1] /\ Len(Line) > 0
          BY <2>1, <3>1, <3>2, <4>1, FetchLine, Zenon DEF HeadTaken
        <5>2. Sizes /\ 1 \in 1..Len(Line) /\ phase = "ready"
          BY <3>1, <5>1, SizesOK DEF Sizes
        <5>3. p.id > 0
          BY <5>1, <5>2, Zenon DEF OpenInv
        <5>4. p.id = flight.req
          BY <3>4, <5>3 DEF Mine
        <5>5. PICK j \in 0..Len(Line), m \in 0..Len(c2s) : Own(j, m) /\ First(p, j)
          BY <2>4, <3>1, <4>1, <5>1, HeadFirst, Zenon
        <5>6. ~Asked /\ Have = 0 /\ flight.sen = 0
          BY <2>4, <3>1, <4>1, Zenon DEF Asked, StreamInv
        <5>7. j = 0
          <6>1. j > 0 => p.id # flight.req
            BY <5>5, Zenon DEF First
          <6>2. j \in Nat
            BY <5>2 DEF Sizes
          <6> QED
            BY <5>4, <6>1, <6>2
        <5>8. Have + 1 <= Total
          BY <2>4, <3>1, <4>1, <5>2, <5>5, <5>6, <5>7 DEF First, Sizes
        <5> QED
          BY <2>4, <3>1, <4>1, <5>5, <5>6, <5>7, <5>8 DEF First
      <4>2. Return(c, "ok", <<p.body>>)
        BY <3>2, <3>4, Zenon
      <4> QED
        BY <2>1, <2>4, <3>1, <4>1, <4>2, <1>ResultReturn, ZenonT(40)
    <3> QED
      BY <3>3, <3>4, Zenon
  <2>6. ASSUME pc[c] = "drain" \/ (pc[c] = "read" /\ mode = "idle"), Return(c, "ok", flight.acc) PROVE ResultInv'
    <3>1. mode # "single" /\ (mode = "multi" => pc[c] = "drain")
      BY <2>6, Zenon
    <3> QED
      BY <2>1, <2>4, <2>6, <3>1, <1>ResultReturn, Zenon
  <2>7. CASE Drain(c)
    <3>1. pc[c] = "drain"
      BY <2>7, Zenon DEF Drain
    <3>2. CASE Return(c, "ok", flight.acc)
      BY <2>6, <3>1, <3>2, Zenon
    <3> QED
      BY <2>2, <2>7, <3>2, Zenon DEF Drain, Stay
  <2>8. CASE ReadError(c)
    <3>1. PICK k \in ReadErrors : IF Quiet(c, k) THEN Return(c, "ok", flight.acc) ELSE Return(c, k, <<>>)
      BY <2>8, Zenon DEF ReadError
    <3>2. k # "ok"
      BY <3>1, Zenon DEF ReadErrors
    <3>3. CASE Quiet(c, k)
      BY <2>6, <3>1, <3>3 DEF Quiet
    <3>4. CASE ~Quiet(c, k)
      BY <2>3, <3>1, <3>2, <3>4, ZenonT(40)
    <3> QED
      BY <3>3, <3>4, Zenon
  <2>9. CASE SendClosed(c) \/ SendError(c)
    BY <2>3, <2>9 DEF SendClosed, SendError
  <2>10. CASE Send(c)
    BY <2>2, <2>10, Zenon DEF Send
  <2>11. CASE SendSentinel(c)
    BY <2>2, <2>3, <2>11, Zenon DEF SendSentinel
  <2>12. CASE ReadMultiPacket(c)
    BY <2>2, <2>3, <2>12 DEF ReadMultiPacket, Stay
  <2>13. CASE ReadIdleDrain(c)
    BY <2>2, <2>13, Zenon DEF ReadIdleDrain, Stay
  <2>14. CASE ReadIdleClosed(c)
    BY <2>3, <2>14 DEF ReadIdleClosed
  <2> QED
    BY <2>5, <2>7, <2>8, <2>9, <2>10, <2>11, <2>12, <2>13, <2>14, Zenon DEF CallerStep
<1> SUFFICES ASSUME PeerTypeOK,
                   PeerTypeOK',
                   CallInv,
                   OpenInv,
                   Holder,
                   StreamInv,
                   ResultInv,
                   [Next]_vars,
                   \A d \in Callers : pc[d] # "idle" => phase = "ready",
                   \A d \in Callers : pc[d] \in {"sentinel", "drain"} => mode = "multi"
             PROVE  ResultInv'
  BY Zenon
<1>1. CASE UNCHANGED <<mode, chunks, res>>
  BY <1>1, <1>ResultSame, Zenon
<1>2. ASSUME NEW c \in Callers, Begin(c), UNCHANGED peerVars PROVE ResultInv'
  <2>1. UNCHANGED <<mode, chunks>>
    BY <1>2, ZenonT(40) DEF Begin, peerVars
  <2>2. CASE \E k \in IF closed THEN {"ErrClosed"} ELSE {"ErrCommandEmpty", "ErrCommandTooLong"} :
            res' = [res EXCEPT ![c] = [n |-> calls + 1, kind |-> k, body |-> <<>>, torn |-> FALSE]]
    <3>1. PICK k \in {"ErrClosed", "ErrCommandEmpty", "ErrCommandTooLong"} :
            res' = [res EXCEPT ![c] = [n |-> calls + 1, kind |-> k, body |-> <<>>, torn |-> FALSE]]
      BY <2>2, ZenonT(40)
    <3>2. k # "ok" /\ res \in [Callers -> [n : Nat, kind : Kinds, body : Seq(Body), torn : BOOLEAN]]
      BY Zenon DEF PeerTypeOK, TypeOK
    <3>3. \A d \in Callers : res'[d] = res[d] \/ res'[d].kind # "ok"
      BY <3>1, <3>2, Zenon
    <3> QED
      BY <2>1, <3>3, <1>ResultSame, Zenon
  <2> QED
    BY <1>1, <1>2, <2>1, <2>2, ZenonT(40) DEF Begin
<1>3. CASE PeerExec
  <2>1. PICK k \in 1..MaxChunks : chunks' = [chunks EXCEPT ![c2s[1].body[1]] = k]
    <3>1. c2s \in Seq(Packet) /\ c2s # <<>>
      BY <1>3, TypedParts, Zenon DEF PeerExec, Typed
    <3>2. Head(c2s) = c2s[1]
      BY <3>1
    <3> QED
      BY <1>3, <3>2, Zenon DEF PeerExec
  <2>2. 1 \in 1..Len(c2s) /\ c2s[1].type = TypeExecCommand /\ UNCHANGED <<mode, res>>
    BY <1>3, TypedParts DEF PeerExec, PeerRead, connVars, Typed
  <2>3. c2s[1].body[1] \in 1..calls /\ chunks[c2s[1].body[1]] = 0
    BY <2>2, Zenon DEF CallInv
  <2> DEFINE n == c2s[1].body[1]
  <2>4. k \in Nat /\ chunks \in [1..MaxCalls -> 0..MaxChunks] /\ MaxChunks \in Nat
    BY TypedParts, ExchangeAssumption DEF Typed
  <2> HIDE DEF n
  <2>5. chunks[n] = 0 /\ chunks' = [chunks EXCEPT ![n] = k]
    BY <2>1, <2>3, Zenon DEF n
  <2> SUFFICES ASSUME NEW c \in Callers, Succeeded(c)' PROVE Good(c)'
    BY Zenon DEF ResultInv, Good
  <2>6. Succeeded(c) /\ res'[c] = res[c]
    BY <2>2, Zenon DEF Succeeded
  <2>7. Good(c)
    BY <2>6, Zenon DEF ResultInv, Good
  <2>8. Len(res[c].body) \in Nat
    <3>1. res \in [Callers -> [n : Nat, kind : Kinds, body : Seq(Body), torn : BOOLEAN]]
      BY Zenon DEF PeerTypeOK, TypeOK
    <3>2. res[c].body \in Seq(Body)
      BY <3>1, Zenon
    <3> QED
      BY <3>2
  <2>9. CASE res[c].n # n
    <3>1. res[c].n \in 1..MaxCalls
      BY <2>7, Zenon DEF Good
    <3>2. chunks'[res[c].n] = chunks[res[c].n]
      BY <2>4, <2>5, <2>9, <3>1, Zenon
    <3> QED
      BY <2>2, <2>6, <2>7, <3>2, ZenonT(40) DEF Good
  <2>10. CASE res[c].n = n
    <3>1. chunks'[n] = k /\ mode # "multi"
      BY <2>4, <2>5, <2>7, <2>10 DEF Good
    <3>2. mode # "single" => Len(res[c].body) <= k
      BY <2>4, <2>5, <2>7, <2>8, <2>10 DEF Good
    <3> QED
      BY <2>2, <2>6, <2>7, <2>10, <3>1, <3>2, SMTT(30) DEF Good
  <2> QED
    BY <2>9, <2>10, Zenon
<1>4. CASE PeerAuth \/ PeerEcho \/ PeerWrite \/ PeerDrop
  BY <1>1, <1>4, ZenonT(40) DEF PeerAuth, PeerEcho, PeerWrite, PeerDrop, PeerRead, connVars
<1>5. CASE (AuthSend \/ AuthReceive \/ AuthError \/ CloseStore \/ CloseSocket \/ Tick) /\ UNCHANGED peerVars
  BY <1>1, <1>5, Zenon DEF AuthSend, AuthReceive, AuthError, OpenUnchanged, CloseStore, CloseSocket, Tick, peerVars
<1>6. CASE UNCHANGED vars
  BY <1>1, <1>6, Zenon DEF vars, connVars, peerVars
<1>7. ASSUME NEW c \in Callers, CallerStep(c), UNCHANGED peerVars PROVE ResultInv'
  BY <1>7, <1>ResultCaller, Zenon
<1> QED
  BY <1>2, <1>3, <1>4, <1>5, <1>6, <1>7, Zenon DEF Next, ConnNext, PeerStep

(* The three properties of results follow. *)
LEMMA ResultsGood ==
    ASSUME PeerTypeOK, ResultInv
    PROVE  MultiComplete /\ SingleFirst /\ IdlePrefix
<1>1. MultiComplete
  BY ZenonT(40) DEF ResultInv, Good, MultiComplete, Answer, Whole
<1>2. SingleFirst
  BY Zenon DEF ResultInv, Good, SingleFirst
<1>3. IdlePrefix
  <2> SUFFICES ASSUME mode = "idle", NEW c \in Callers, Succeeded(c)
               PROVE  /\ Len(res[c].body) <= chunks[res[c].n]
                      /\ res[c].body = SubSeq(Answer(res[c].n), 1, Len(res[c].body))
    BY Zenon DEF IdlePrefix
  <2>1. PICK n \in 1..MaxCalls, k \in Nat, l \in Nat :
          n = res[c].n /\ k = chunks[n] /\ l = Len(res[c].body)
    <3>1. Len(res[c].body) \in Nat
      BY DEF PeerTypeOK, TypeOK
    <3>2. res[c].n \in 1..MaxCalls /\ chunks \in [1..MaxCalls -> 0..MaxChunks] /\ MaxChunks \in Nat
      BY TypedParts, Zenon DEF Typed, ResultInv, Good
    <3> QED
      BY <3>1, <3>2
  <2>2. res[c].body = Whole(n, l) /\ l <= k
    BY <2>1, Zenon DEF ResultInv, Good
  <2>3. Answer(n) = Whole(n, k)
    BY <2>1, Zenon DEF Answer, Whole
  <2>4. n \in Nat
    BY <2>1, TypedParts DEF Typed
  <2>5. SubSeq(Whole(n, k), 1, l) = Whole(n, l)
    <3>1. Whole(n, k) \in Seq(Nat \X Nat) /\ Len(Whole(n, k)) = k
      BY <2>1, <2>4 DEF Whole
    <3>2. Whole(n, l) \in Seq(Nat \X Nat) /\ Len(Whole(n, l)) = l
      BY <2>1, <2>4 DEF Whole
    <3>3. /\ SubSeq(Whole(n, k), 1, l) \in Seq(Nat \X Nat) /\ Len(SubSeq(Whole(n, k), 1, l)) = l
          /\ \A i \in 1..l : SubSeq(Whole(n, k), 1, l)[i] = Whole(n, k)[i]
      <4> DEFINE w == Whole(n, k)
      <4>1. w \in Seq(Nat \X Nat) /\ Len(w) = k
        BY <3>1, Zenon
      <4> HIDE DEF w
      <4>2. /\ SubSeq(w, 1, l) \in Seq(Nat \X Nat) /\ Len(SubSeq(w, 1, l)) = l
            /\ \A i \in 1..l : SubSeq(w, 1, l)[i] = w[i]
        BY <2>1, <2>2, <4>1
      <4> QED
        BY <4>2, Zenon DEF w
    <3>4. \A i \in 1..l : Whole(n, k)[i] = Whole(n, l)[i]
      BY <2>1, <2>2 DEF Whole
    <3> QED
      BY <3>1, <3>2, <3>3, <3>4, SameSeq, Zenon
  <2> QED
    BY <2>1, <2>2, <2>3, <2>5, Zenon
<1> QED
  BY <1>1, <1>2, <1>3, Zenon

(* Under that hypothesis the two invariants hold always. *)
LEMMA HoldsWhenFresh == Spec /\ []IdsFresh => [](StreamInv /\ ResultInv)
<1>1. Base /\ Base' /\ IdsFresh /\ StreamInv /\ ResultInv /\ [Next]_vars => StreamInv' /\ ResultInv'
  BY StreamStep, ResultStep, FlightHolds, Zenon DEF Base
<1> QED
  BY <1>1, StreamInit, BaseAlways, PTL DEF Spec

(* For any number of calls and however often c.id has wrapped, Execute     *)
(* returns what it should as long as nextID gives out no id that a packet  *)
(* still on the way carries.                                               *)
THEOREM AnswersWhenFresh == Spec /\ []IdsFresh => [](MultiComplete /\ SingleFirst /\ IdlePrefix)
<1>1. Base /\ ResultInv => MultiComplete /\ SingleFirst /\ IdlePrefix
  BY ResultsGood, Zenon DEF Base
<1> QED
  BY <1>1, BaseAlways, HoldsWhenFresh, PTL

-----------------------------------------------------------------------------
(* What it leaves behind. *)

(* In multi-packet mode Execute succeeds only from drainSourceMirror, once *)
(* nothing is buffered.                                                    *)
LEMMA OkDrained ==
    ASSUME PeerTypeOK, NEW c \in Callers, CallerStep(c), NEW kind, NEW body, Return(c, kind, body),
           kind = "ok", mode = "multi", ~torn
    PROVE  pc[c] = "drain" /\ buf = <<>> /\ ~part' /\ UNCHANGED <<buf, s2c, c2s>>
<1>1. c \in DOMAIN res /\ c \in DOMAIN pc
  BY Zenon DEF PeerTypeOK, TypeOK
<1>2. \A k, b : Return(c, k, b) => k = "ok"
  <2>1. \A k, b : Return(c, k, b) => res'[c].kind = k
    BY <1>1, Zenon DEF Return, Result
  <2> QED
    BY <2>1, Zenon
<1>3. pc'[c] = "idle"
  BY <1>1, Zenon DEF Return
<1>4. CASE SendClosed(c) \/ SendError(c) \/ ReadIdleClosed(c)
  <2>1. \E k \in {"net", "timeout"} : Return(c, k, <<>>)
    BY <1>4, Zenon DEF SendClosed, SendError, ReadIdleClosed
  <2> QED
    BY <1>2, <2>1, Zenon
<1>5. CASE Send(c)
  BY <1>1, <1>3, <1>5, Zenon DEF Send
<1>6. CASE SendSentinel(c)
  BY <1>1, <1>2, <1>3, <1>6, Zenon DEF SendSentinel
<1>7. CASE ReadSinglePacket(c) \/ ReadIdleDrain(c)
  BY <1>7, Zenon DEF ReadSinglePacket, ReadIdleDrain
<1>8. CASE ReadMultiPacket(c)
  BY <1>1, <1>2, <1>3, <1>8, Zenon DEF ReadMultiPacket, Stay
<1>9. CASE Drain(c)
  BY <1>3, <1>9, Zenon DEF Drain, Stay, ReadUnchanged
<1>10. CASE ReadError(c)
  <2>1. PICK k \in ReadErrors : ReadFails(k) /\ (IF Quiet(c, k) THEN Return(c, "ok", flight.acc) ELSE Return(c, k, <<>>))
    BY <1>10, ZenonT(40) DEF ReadError
  <2>2. k # "ok" /\ buf = <<>>
    BY <2>1, ZenonT(40) DEF ReadErrors
  <2>3. Quiet(c, k)
    BY <1>2, <2>1, <2>2, Zenon
  <2>4. pc[c] = "drain"
    BY <2>3, Zenon DEF Quiet
  <2>5. ~part' /\ UNCHANGED <<buf, s2c, c2s>>
    BY <1>10, <2>1, Zenon DEF ReadFails, ReadError
  <2> QED
    BY <2>2, <2>4, <2>5, Zenon
<1> QED
  BY <1>4, <1>5, <1>6, <1>7, <1>8, <1>9, <1>10, Zenon DEF CallerStep

(* What SuccessLeavesStreamClean says of one step. *)
CleanStep ==
    mode = "multi" /\ ~torn =>
         \A c \in Callers : mu = c /\ mu' = NoOne /\ res'[c].kind = "ok" =>
             /\ buf' = <<>> /\ ~part'
             /\ ~mirror => c2s' = <<>> /\ todo' = <<>> /\ s2c' = <<>>

(* The call that holds mu has read its whole answer and the echo by then.  *)
LEMMA CleanEnd ==
    ASSUME PeerTypeOK, FlightInv, StreamInv, [Next]_vars
    PROVE  CleanStep
<1> SUFFICES ASSUME mode = "multi", ~torn, NEW c \in Callers, mu = c, mu' = NoOne, res'[c].kind = "ok"
             PROVE  /\ buf' = <<>> /\ ~part'
                    /\ ~mirror => c2s' = <<>> /\ todo' = <<>> /\ s2c' = <<>>
  BY Zenon DEF CleanStep
<1>1. NoOne # c
  BY ConnAssumption, Zenon
<1>2. PICK d \in Callers : CallerStep(d) /\ UNCHANGED peerVars
  BY <1>1, Zenon DEF Next, ConnNext, vars, connVars, AuthSend, AuthReceive, AuthError, OpenUnchanged, Begin,
     CloseStore, CloseSocket, Tick, PeerStep, PeerAuth, PeerExec, PeerEcho, PeerWrite, PeerDrop, PeerRead
<1>3. Ends(d)
  BY <1>1, <1>2, StepForms, ZenonT(40) DEF Send, Asks, Reads
<1>4. PICK kind, body : Return(d, kind, body)
  BY <1>3, Zenon DEF Ends
<1>5. d = c
  <2>1. pc[d] # "lock" /\ pc[d] # "idle"
    BY <1>1, <1>2, <1>3, <1>4, ReturnKind, Zenon DEF Ends
  <2> QED
    BY <2>1, Zenon DEF FlightInv, Flying
<1>6. kind = "ok"
  BY <1>4, <1>5, ZenonT(40) DEF PeerTypeOK, TypeOK, Return, Result
<1>7. pc[c] = "drain" /\ buf = <<>> /\ ~part' /\ UNCHANGED <<buf, s2c, c2s, todo>>
  BY <1>2, <1>4, <1>5, <1>6, OkDrained, Zenon DEF peerVars
<1>8. ASSUME ~mirror PROVE c2s = <<>> /\ todo = <<>> /\ s2c = <<>>
  <2>1. Len(c2s) = 0 /\ Len(Line) < 1
    BY <1>7, <1>8, Zenon DEF StreamInv, Echoes
  <2>2. c2s \in Seq(Packet) /\ s2c \in Seq(Packet) /\ todo \in Seq(Packet) /\ buf \in Seq(Packet)
    BY Zenon DEF PeerTypeOK, TypeOK
  <2>3. Len(Line) = Len(buf) + Len(s2c) + Len(todo)
    BY <2>2 DEF Line
  <2>4. Len(buf) \in Nat /\ Len(s2c) \in Nat /\ Len(todo) \in Nat
    BY <2>2
  <2>5. Len(s2c) = 0 /\ Len(todo) = 0
    BY <2>1, <2>3, <2>4
  <2> QED
    BY <2>1, <2>2, <2>5
<1> QED
  BY <1>7, <1>8, Zenon

(* So it leaves nothing behind, if nextID gives out no id that a packet on *)
(* the way carries.                                                        *)
LEMMA CleanWhenFresh == Spec /\ []IdsFresh => SuccessLeavesStreamClean
<1>1. Base /\ StreamInv /\ [Next]_vars => [CleanStep]_vars
  BY CleanEnd, Zenon DEF Base
<1>2. Spec /\ []IdsFresh => [][CleanStep]_vars
  BY <1>1, BaseAlways, HoldsWhenFresh, PTL DEF Spec
<1> QED
  BY <1>2, Zenon DEF SuccessLeavesStreamClean, CleanStep

-----------------------------------------------------------------------------
(* The ids. *)

(* Callers that wait for mu will use two ids each, the one about to send   *)
(* its sentinel one more.                                                  *)
Waiting == {c \in Callers : pc[c] = "lock"}

Due     == IF \E c \in Callers : pc[c] = "sentinel" THEN 1 ELSE 0

IdInv ==
    /\ \A i \in 1..Len(c2s) : c2s[i].id <= id
    /\ \A i \in 1..Len(Line) : Line[i].id <= id
    /\ IsFiniteSet(Waiting)
    /\ id + 2 * Cardinality(Waiting) + Due <= 2 * calls + 1
    /\ phase = "dial" => id = 0

(* No id has been used. *)
LEMMA IdInit == Init => IdInv
<1> SUFFICES ASSUME Init PROVE IdInv
  BY Zenon
<1>1. Waiting = {} /\ Due = 0 /\ id = 0 /\ calls = 0 /\ Len(c2s) = 0 /\ Len(Line) = 0
  BY DEF Init, ConnInit, Waiting, Due, Line
<1>2. IsFiniteSet({}) /\ Cardinality({}) = 0
  BY FS_EmptySet, Zenon
<1> QED
  BY <1>1, <1>2 DEF IdInv

(* The id of the next packet is new. *)
LEMMA IdFree ==
    ASSUME PeerTypeOK, IdInv, 2 * MaxCalls < IdMax, NEW c \in Callers, pc[c] \in {"lock", "sentinel"}
    PROVE  NextID(id) = id + 1
<1>1. id \in Nat /\ IdMax \in Nat /\ calls \in Nat /\ MaxCalls \in Nat /\ calls <= MaxCalls
  BY ConnAssumption DEF PeerTypeOK, TypeOK
<1>2. Cardinality(Waiting) \in Nat /\ Due \in {0, 1}
  BY FS_CardinalityType, Zenon DEF IdInv, Due
<1>3. CASE pc[c] = "lock"
  <2>1. c \in Waiting
    BY <1>3, Zenon DEF Waiting
  <2>2. Cardinality(Waiting) # 0
    BY <2>1, FS_EmptySet, Zenon DEF IdInv
  <2> QED
    BY <1>1, <1>2, <2>2 DEF IdInv, NextID
<1>4. CASE pc[c] = "sentinel"
  <2>1. Due = 1
    BY <1>4, Zenon DEF Due
  <2> QED
    BY <1>1, <1>2, <2>1 DEF IdInv, NextID
<1> QED
  BY <1>3, <1>4, Zenon

(* Hence IdsFresh. *)
LEMMA FreshIds ==
    ASSUME PeerTypeOK, IdInv, 2 * MaxCalls < IdMax
    PROVE  IdsFresh
<1> SUFFICES ASSUME NEW c \in Callers, pc[c] \in {"lock", "sentinel"}
             PROVE  /\ NextID(id) # id
                    /\ \A i \in 1..Len(c2s) : c2s[i].id # NextID(id)
                    /\ \A i \in 1..Len(Line) : Line[i].id # NextID(id)
  BY Zenon DEF IdsFresh
<1>1. NextID(id) = id + 1
  BY IdFree, Zenon
<1>2. id \in Nat
  BY ConnAssumption DEF PeerTypeOK, TypeOK
<1> QED
  BY <1>1, <1>2 DEF IdInv

(* Each step of the exchange keeps it. *)
LEMMA IdStep ==
    (/\ PeerTypeOK
     /\ PeerTypeOK'
     /\ IdInv
     /\ Holder
     /\ 2 * MaxCalls < IdMax
     /\ [Next]_vars
     /\ (\A c \in Callers : pc[c] # "idle" => phase = "ready")) => IdInv'
(* Packets and frames keep their ids when no new packet is written. *)
<1>IdsKept. ASSUME PeerTypeOK, PeerTypeOK', IdInv, id' \in Nat, id <= id', NEW t \in {0, 1}, NEW u \in {0, 1},
                   \A i \in 1..Len(c2s') : (i + t \in 1..Len(c2s) /\ c2s'[i] = c2s[i + t]) \/ c2s'[i].id <= id',
                   \A i \in 1..Len(Line') : (i + u \in 1..Len(Line) /\ Line'[i] = Line[i + u]) \/ Line'[i].id <= id'
            PROVE  (\A i \in 1..Len(c2s) : c2s[i].id <= id)' /\ (\A i \in 1..Len(Line) : Line[i].id <= id)'
  <2> USE <1>IdsKept
  <2>1. c2s \in Seq(Packet) /\ Line \in Seq(Packet) /\ id \in Nat
    <3>1. LineTyped
      BY LineType, Zenon
    <3>2. id \in 0..IdMax /\ IdMax \in Nat
      BY ConnAssumption, Zenon DEF PeerTypeOK, TypeOK
    <3> QED
      BY <3>1, <3>2 DEF LineTyped
  <2>2. \A i \in 1..Len(c2s) : c2s[i].id \in Int /\ c2s[i].id <= id'
    <3>1. \A i \in 1..Len(c2s) : c2s[i] \in Packet
      BY <2>1
    <3>2. \A p \in Packet : p.id \in Int
      BY Zenon DEF Packet
    <3> QED
      BY <2>1, <3>1, <3>2 DEF IdInv
  <2>3. \A i \in 1..Len(Line) : Line[i].id \in Int /\ Line[i].id <= id'
    <3>1. \A i \in 1..Len(Line) : Line[i] \in Packet
      BY <2>1
    <3>2. \A p \in Packet : p.id \in Int
      BY DEF Packet
    <3> QED
      BY <2>1, <3>1, <3>2 DEF IdInv
  <2> QED
    BY <2>2, <2>3, Zenon
(* What the calls may still use, step by step. *)
<1>DueLeft. ASSUME PeerTypeOK, PeerTypeOK', IdInv, Holder, NEW c \in Callers, id' \in Nat, calls' = calls,
                   NEW to, pc' = [pc EXCEPT ![c] = to], to # "lock",
                   \/ pc[c] = "lock" /\ id' <= id + 1
                   \/ pc[c] = "sentinel" /\ id' <= id + 1 /\ to # "sentinel"
                   \/ pc[c] \notin {"lock", "sentinel"} /\ id' = id /\ to # "sentinel"
            PROVE  IsFiniteSet(Waiting)' /\ (id + 2 * Cardinality(Waiting) + Due <= 2 * calls + 1)'
  <2> USE <1>DueLeft
  <2>1. id \in Nat /\ calls \in Nat /\ pc \in [Callers -> {"idle", "lock", "sentinel", "read", "drain"}]
    BY ConnAssumption DEF PeerTypeOK, TypeOK
  <2>2. \A d \in Callers : pc'[d] = IF d = c THEN to ELSE pc[d]
    BY <2>1, Zenon
  <2>3. Waiting' = Waiting \ {c}
    BY <2>2, Zenon DEF Waiting
  <2>4. IsFiniteSet(Waiting') /\ Cardinality(Waiting) \in Nat
        /\ Cardinality(Waiting') = IF c \in Waiting THEN Cardinality(Waiting) - 1 ELSE Cardinality(Waiting)
    BY <2>3, FS_RemoveElement, FS_CardinalityType, Zenon DEF IdInv
  <2>5. c \in Waiting <=> pc[c] = "lock"
    BY Zenon DEF Waiting
  <2>6. Due \in {0, 1} /\ Due' \in {0, 1}
    BY Zenon DEF Due
  <2>a. id' \in Nat /\ calls' = calls /\ id + 2 * Cardinality(Waiting) + Due <= 2 * calls + 1
    BY Zenon DEF IdInv
  <2> HIDE <1>DueLeft
  <2>7. CASE pc[c] = "lock" /\ id' <= id + 1
    BY <2>1, <2>4, <2>5, <2>6, <2>7, <2>a
  <2>8. CASE pc[c] = "sentinel" /\ id' <= id + 1 /\ to # "sentinel"
    <3>1. Due = 1
      BY <2>8, <1>DueLeft, Zenon DEF Due
    <3>2. \A d \in Callers : pc[d] = "sentinel" => d = c
      BY <2>8, <1>DueLeft, Zenon DEF Holder
    <3>3. Due' = 0
      BY <2>2, <2>8, <3>2, Zenon DEF Due
    <3> QED
      BY <2>1, <2>4, <2>5, <2>8, <2>a, <3>1, <3>3
  <2>9. CASE pc[c] \notin {"lock", "sentinel"} /\ id' = id /\ to # "sentinel"
    <3>1. Due' = 1 => Due = 1
      BY <2>2, <2>9, <1>DueLeft, Zenon DEF Due
    <3> QED
      BY <2>1, <2>4, <2>5, <2>6, <2>9, <2>a, <3>1
  <2> QED
    BY <1>DueLeft, <2>7, <2>8, <2>9, Zenon
(* A step of Execute uses an id only for a packet that it was due. *)
<1>IdCaller. ASSUME PeerTypeOK, PeerTypeOK', IdInv, Holder, 2 * MaxCalls < IdMax,
                    NEW c \in Callers, CallerStep(c), UNCHANGED peerVars, phase = "ready"
             PROVE  IdInv'
  <2> USE <1>IdCaller
  <2>1. id \in Nat /\ calls \in Nat /\ Len(c2s) \in Nat /\ Len(c2s') \in Nat /\ Len(Line) \in Nat /\ Len(Line') \in Nat
    <3>1. Typed /\ Typed' /\ Sizes /\ Sizes'
      BY TypedParts, SizesOK, PTL
    <3>2. id \in 0..IdMax
      BY Zenon DEF PeerTypeOK, TypeOK
    <3> QED
      BY <3>1, <3>2 DEF Typed, Sizes
  <2>2. pc[c] \in {"lock", "sentinel"} => NextID(id) = id + 1
    BY IdFree, Zenon
  <2>3. pc \in [Callers -> {"idle", "lock", "sentinel", "read", "drain"}]
    BY TypedParts, Zenon DEF Typed
  <2>4. UNCHANGED todo
    BY Zenon DEF peerVars
  <2>5. \E u \in {0, 1} : \A i \in 1..Len(Line') : i + u \in 1..Len(Line) /\ Line'[i] = Line[i + u]
    <3>1. CASE Fetch
      <4>1. HeadTaken
        BY <2>4, <3>1, FetchLine, Zenon
      <4>2. \A i \in 1..Len(Line') : i + 1 \in 1..Len(Line)
        BY <2>1, <4>1 DEF HeadTaken
      <4> QED
        BY <4>1, <4>2, Zenon DEF HeadTaken
    <3>2. CASE UNCHANGED <<buf, s2c>>
      <4>1. Line' = Line
        BY <2>4, <3>2, SameLine, Zenon
      <4>2. \A i \in 1..Len(Line) : i + 0 = i
        BY <2>1
      <4> QED
        BY <4>1, <4>2, Zenon
    <3> QED
      BY <3>1, <3>2, StepForms, Zenon DEF Ends, Send, Asks, Reads
  <2>6. ASSUME c2s' = c2s, id' \in Nat, id <= id'
        PROVE  (\A i \in 1..Len(c2s) : c2s[i].id <= id)' /\ (\A i \in 1..Len(Line) : Line[i].id <= id)'
    <3>1. PICK u \in {0, 1} : \A i \in 1..Len(Line') : i + u \in 1..Len(Line) /\ Line'[i] = Line[i + u]
      BY <2>5, Zenon
    <3>2. \A i \in 1..Len(c2s') : i + 0 \in 1..Len(c2s) /\ c2s'[i] = c2s[i + 0]
      BY <2>1, <2>6
    <3> QED
      BY <2>6, <3>1, <3>2, <1>IdsKept, Zenon
  <2>7. ASSUME NEW p, c2s' = Written(p), id' \in Nat, id <= id', p.id <= id'
        PROVE  (\A i \in 1..Len(c2s) : c2s[i].id <= id)' /\ (\A i \in 1..Len(Line) : Line[i].id <= id)'
    <3>1. PICK u \in {0, 1} : \A i \in 1..Len(Line') : i + u \in 1..Len(Line) /\ Line'[i] = Line[i + u]
      BY <2>5, Zenon
    <3>2. \A i \in 1..Len(c2s') : (i + 0 \in 1..Len(c2s) /\ c2s'[i] = c2s[i + 0]) \/ c2s'[i].id <= id'
      <4>1. \/ c2s' = c2s
            \/ /\ Len(c2s') = Len(c2s) + 1 /\ c2s'[Len(c2s) + 1] = p
               /\ \A i \in 1..Len(c2s) : c2s'[i] = c2s[i]
        BY <2>7, WrittenAt, Zenon
      <4> QED
        BY <2>1, <2>7, <4>1
    <3> QED
      BY <2>7, <3>1, <3>2, <1>IdsKept, Zenon
  <2>8. CASE Ends(c)
    <3>1. /\ pc' = [pc EXCEPT ![c] = "idle"] /\ UNCHANGED <<phase, calls, c2s>>
          /\ id' = id \/ (pc[c] \in {"lock", "sentinel"} /\ id' = NextID(id))
      BY <2>8, Zenon DEF Ends, Return
    <3>2. id' \in Nat /\ id <= id' /\ id' <= id + 1 /\ (pc[c] \notin {"lock", "sentinel"} => id' = id)
      BY <2>1, <2>2, <3>1
    <3>3. IsFiniteSet(Waiting)' /\ (id + 2 * Cardinality(Waiting) + Due <= 2 * calls + 1)'
      BY <3>1, <3>2, <1>DueLeft, Zenon
    <3> QED
      BY <2>6, <3>1, <3>2, <3>3, Zenon DEF IdInv
  <2>9. CASE Send(c)
    <3> DEFINE p == [id |-> NextID(id), type |-> TypeExecCommand, body |-> <<args[c].n, 0>>]
    <3>1. /\ c2s' = Written(p) /\ id' = NextID(id) /\ pc[c] = "lock" /\ UNCHANGED <<phase, calls>>
          /\ \E to \in {"sentinel", "read"} : pc' = [pc EXCEPT ![c] = to]
      BY <2>9, Zenon DEF Send
    <3>2. id' = id + 1 /\ id' \in Nat /\ id <= id' /\ id' <= id + 1 /\ p.id <= id'
      BY <2>1, <2>2, <3>1
    <3> HIDE DEF p
    <3>3. IsFiniteSet(Waiting)' /\ (id + 2 * Cardinality(Waiting) + Due <= 2 * calls + 1)'
      BY <3>1, <3>2, <1>DueLeft, Zenon
    <3> QED
      BY <2>7, <3>1, <3>2, <3>3, Zenon DEF IdInv
  <2>10. CASE Asks(c)
    <3> DEFINE p == [id |-> NextID(id), type |-> TypeResponseValue, body |-> Empty]
    <3>1. /\ c2s' = Written(p) /\ id' = NextID(id) /\ pc[c] = "sentinel" /\ UNCHANGED <<phase, calls>>
          /\ pc' = [pc EXCEPT ![c] = "read"]
      BY <2>10, Zenon DEF Asks
    <3>2. id' = id + 1 /\ id' \in Nat /\ id <= id' /\ id' <= id + 1 /\ p.id <= id'
      BY <2>1, <2>2, <3>1
    <3> HIDE DEF p
    <3>3. IsFiniteSet(Waiting)' /\ (id + 2 * Cardinality(Waiting) + Due <= 2 * calls + 1)'
      BY <3>1, <3>2, <1>DueLeft, Zenon
    <3> QED
      BY <2>7, <3>1, <3>2, <3>3, Zenon DEF IdInv
  <2>11. CASE Reads(c)
    <3>1. /\ pc[c] \in {"read", "drain"} /\ UNCHANGED <<phase, calls, c2s, id>>
          /\ \E to \in {"read", "drain"} : pc' = [pc EXCEPT ![c] = to]
      BY <2>3, <2>11, Zenon DEF Reads
    <3>2. id' \in Nat /\ id <= id' /\ id' = id
      BY <2>1, <3>1
    <3>3. IsFiniteSet(Waiting)' /\ (id + 2 * Cardinality(Waiting) + Due <= 2 * calls + 1)'
      BY <3>1, <3>2, <1>DueLeft, Zenon
    <3> QED
      BY <2>6, <3>1, <3>2, <3>3, Zenon DEF IdInv
  <2> QED
    BY <2>8, <2>9, <2>10, <2>11, StepForms, Zenon
<1> SUFFICES ASSUME PeerTypeOK,
                   PeerTypeOK',
                   IdInv,
                   Holder,
                   2 * MaxCalls < IdMax,
                   [Next]_vars,
                   \A c \in Callers : pc[c] # "idle" => phase = "ready"
             PROVE  IdInv'
  BY Zenon
<1>1. id \in Nat /\ calls \in Nat /\ Len(c2s) \in Nat /\ Len(c2s') \in Nat /\ Len(Line) \in Nat /\ Len(Line') \in Nat
      /\ c2s \in Seq(Packet)
  <2>1. Typed /\ Typed' /\ Sizes /\ Sizes'
    BY TypedParts, SizesOK, PTL
  <2>2. id \in 0..IdMax
    BY Zenon DEF PeerTypeOK, TypeOK
  <2> QED
    BY <2>1, <2>2 DEF Typed, Sizes
<1>2. CASE UNCHANGED <<id, pc, calls, phase, c2s>> /\ Line' = Line
  BY <1>2, Zenon DEF IdInv, Waiting, Due
<1>3. CASE AuthSend /\ UNCHANGED peerVars
  <2> DEFINE p == [id |-> NextID(id), type |-> TypeAuth, body |-> Empty]
  <2>1. /\ phase = "dial" /\ c2s' = Written(p) /\ id' = NextID(id) /\ phase' = "auth1"
        /\ UNCHANGED <<pc, calls, buf, s2c, todo>>
    BY <1>3, Zenon DEF AuthSend, OpenUnchanged, peerVars
  <2>2. id = 0 /\ id' = 1 /\ p.id = 1
    BY <2>1, ConnAssumption DEF IdInv, NextID
  <2>3. Waiting = {} /\ Due = 0 /\ Waiting' = Waiting /\ Due' = Due
    BY <2>1, Zenon DEF Waiting, Due
  <2>4. Line' = Line
    BY <2>1, SameLine, Zenon
  <2> HIDE DEF p
  <2>5. \A i \in 1..Len(c2s') : (i + 0 \in 1..Len(c2s) /\ c2s'[i] = c2s[i + 0]) \/ c2s'[i].id <= id'
    <3>1. \/ c2s' = c2s
          \/ /\ Len(c2s') = Len(c2s) + 1 /\ c2s'[Len(c2s) + 1] = p
             /\ \A i \in 1..Len(c2s) : c2s'[i] = c2s[i]
      BY <2>1, WrittenAt, Zenon
    <3> QED
      BY <1>1, <2>2, <3>1
  <2>6. \A i \in 1..Len(Line') : i + 0 \in 1..Len(Line) /\ Line'[i] = Line[i + 0]
    BY <1>1, <2>4
  <2>7. (\A i \in 1..Len(c2s) : c2s[i].id <= id)' /\ (\A i \in 1..Len(Line) : Line[i].id <= id)'
    BY <2>2, <2>5, <2>6, <1>IdsKept
  <2>8. Cardinality(Waiting') = 0 /\ IsFiniteSet(Waiting')
    BY <2>3, FS_EmptySet
  <2> QED
    BY <1>1, <2>1, <2>2, <2>3, <2>7, <2>8 DEF IdInv
<1>4. CASE (AuthReceive \/ AuthError) /\ UNCHANGED peerVars
  <2>1. /\ phase' # "dial" /\ UNCHANGED <<pc, calls, c2s, id, todo>> /\ (Fetch \/ UNCHANGED <<buf, s2c>>)
    BY <1>4, Zenon DEF AuthReceive, AuthError, ReadFails, OpenUnchanged, peerVars
  <2>2. \E u \in {0, 1} : \A i \in 1..Len(Line') : i + u \in 1..Len(Line) /\ Line'[i] = Line[i + u]
    <3>1. CASE Fetch
      <4>1. HeadTaken
        BY <2>1, <3>1, FetchLine
      <4>2. \A i \in 1..Len(Line') : i + 1 \in 1..Len(Line)
        BY <1>1, <4>1 DEF HeadTaken
      <4> QED
        BY <4>1, <4>2, Zenon DEF HeadTaken
    <3>2. CASE UNCHANGED <<buf, s2c>>
      <4>1. Line' = Line
        BY <2>1, <3>2, SameLine, Zenon
      <4>2. \A i \in 1..Len(Line) : i + 0 = i
        BY <1>1
      <4> QED
        BY <4>1, <4>2, Zenon
    <3> QED
      BY <2>1, <3>1, <3>2, Zenon
  <2>3. \A i \in 1..Len(Line') : Line'[i].id <= id
    BY <2>2, Zenon DEF IdInv
  <2> QED
    BY <2>1, <2>3, Zenon DEF IdInv, Waiting, Due
<1>5. ASSUME NEW c \in Callers, Begin(c), UNCHANGED peerVars PROVE IdInv'
  <2>1. /\ pc[c] = "idle" /\ calls' = calls + 1 /\ UNCHANGED <<phase, id, c2s, buf, s2c, todo>>
        /\ pc' = pc \/ pc' = [pc EXCEPT ![c] = "lock"]
    BY <1>5, Zenon DEF Begin, netVars, peerVars
  <2>2. Line' = Line
    BY <2>1, SameLine, Zenon
  <2>3. pc \in [Callers -> {"idle", "lock", "sentinel", "read", "drain"}]
    BY TypedParts, Zenon DEF Typed
  <2>4. Due' = Due /\ Due \in {0, 1}
    BY <2>1, <2>3, Zenon DEF Due
  <2>5. Waiting' = Waiting \/ Waiting' = Waiting \cup {c}
    BY <2>1, <2>3, Zenon DEF Waiting
  <2>6. IsFiniteSet(Waiting') /\ Cardinality(Waiting) \in Nat
        /\ Cardinality(Waiting') \in {Cardinality(Waiting), Cardinality(Waiting) + 1}
    BY <2>5, FS_AddElement, FS_CardinalityType DEF IdInv
  <2> QED
    BY <1>1, <2>1, <2>2, <2>4, <2>6 DEF IdInv
<1>6. ASSUME NEW c \in Callers, CallerStep(c), UNCHANGED peerVars PROVE IdInv'
  <2>1. phase = "ready"
    BY <1>6, StepForms, Zenon DEF Ends, Send, Asks, Reads
  <2> QED
    BY <1>6, <2>1, <1>IdCaller, Zenon
<1>7. CASE (CloseStore \/ CloseSocket \/ Tick) /\ UNCHANGED peerVars
  BY <1>2, <1>7, SameLine, Zenon DEF CloseStore, CloseSocket, Tick, netVars, peerVars
<1>8. CASE PeerWrite
  BY <1>2, <1>8, WriteLine, Zenon DEF PeerWrite, connVars
<1>9. CASE PeerDrop
  <2>1. Len(c2s') = 0 /\ UNCHANGED <<id, pc, calls, phase>>
    BY <1>9, Zenon DEF PeerDrop, connVars
  <2>2. \A i \in 1..Len(Line') : i \in 1..Len(Line) /\ Line'[i] = Line[i]
    BY <1>1, <1>9, DropLine
  <2> QED
    BY <2>1, <2>2 DEF IdInv, Waiting, Due
<1>10. CASE PeerAuth \/ PeerExec \/ PeerEcho
  <2>1. c2s # <<>> /\ todo = <<>> /\ c2s' = Tail(c2s) /\ UNCHANGED <<s2c, buf, id, pc, calls, phase>>
    BY <1>10, Zenon DEF PeerAuth, PeerExec, PeerEcho, PeerRead, connVars
  <2>2. /\ Len(c2s) > 0 /\ Len(c2s') = Len(c2s) - 1 /\ Head(c2s) = c2s[1] /\ 1 \in 1..Len(c2s)
        /\ \A i \in 1..Len(c2s') : i + 1 \in 1..Len(c2s) /\ c2s'[i] = c2s[i + 1]
    BY <1>1, <2>1
  <2>3. c2s[1].id <= id
    BY <2>2, Zenon DEF IdInv
  <2>4. \A i \in 1..Len(todo') : todo'[i].id <= id
    <3>1. CASE PeerAuth
      BY <1>1, <2>2, <2>3, <3>1 DEF PeerAuth, AuthReply
    <3>2. CASE PeerExec
      <4>1. PICK k \in 1..MaxChunks : todo' = Reply(c2s[1], k)
        BY <2>2, <3>2, Zenon DEF PeerExec
      <4>2. k \in Nat
        BY ExchangeAssumption
      <4>3. Len(todo') = k
        <5>1. todo' = [i \in 1..k |-> Frame(c2s[1].id, c2s[1].body[1], i)]
          BY <4>1, Zenon DEF Reply, Frame
        <5> QED
          BY <4>2, <5>1
      <4> QED
        BY <2>3, <4>1, <4>3, Zenon DEF Reply
    <3>3. CASE PeerEcho
      <4> DEFINE e == [id |-> c2s[1].id, type |-> TypeResponseValue, body |-> Empty]
      <4>1. todo' = <<e, e>> \/ todo' = <<e>>
        BY <2>2, <3>3, Zenon DEF PeerEcho, Echo
      <4>2. e.id = c2s[1].id
        BY Zenon
      <4> HIDE DEF e
      <4>3. ASSUME NEW i \in 1..Len(todo') PROVE todo'[i] = e
        BY <4>1
      <4> QED
        BY <2>3, <4>2, <4>3, Zenon
    <3> QED
      BY <1>10, <3>1, <3>2, <3>3, Zenon
  <2>5. /\ Len(Line') = Len(Line) + Len(todo')
        /\ \A i \in 1..Len(Line) : Line'[i] = Line[i]
        /\ \A i \in 1..Len(todo') : Line'[Len(Line) + i] = todo'[i]
    BY <2>1, ReplyLine, Zenon
  <2>6. ASSUME NEW i \in 1..Len(Line') PROVE Line'[i].id <= id
    <3>1. Len(todo') \in Nat
      <4>1. LineTyped'
        BY LineType, PTL
      <4> QED
        BY <4>1 DEF LineTyped
    <3>2. CASE i \in 1..Len(Line)
      BY <2>5, <3>2, Zenon DEF IdInv
    <3>3. CASE i > Len(Line)
      <4>1. PICK k \in 1..Len(todo') : i = Len(Line) + k
        <5>1. i - Len(Line) \in 1..Len(todo') /\ Len(Line) + (i - Len(Line)) = i
          BY <1>1, <2>5, <3>1, <3>3
        <5> QED
          BY <5>1, Zenon
      <4> QED
        BY <2>4, <2>5, <4>1, Zenon
    <3> QED
      BY <1>1, <3>2, <3>3
  <2>7. \A i \in 1..Len(c2s') : c2s'[i].id <= id
    BY <2>2, Zenon DEF IdInv
  <2> QED
    BY <2>1, <2>6, <2>7, Zenon DEF IdInv, Waiting, Due
<1>11. CASE UNCHANGED vars
  BY <1>2, <1>11, SameLine, Zenon DEF vars, connVars, netVars, peerVars
<1> QED
  BY <1>3, <1>4, <1>5, <1>6, <1>7, <1>8, <1>9, <1>10, <1>11, Zenon DEF Next, ConnNext, PeerStep

(* nextID never gives out the id of a packet still on the way, however     *)
(* many calls timed out and left theirs behind, if a Conn makes fewer than *)
(* 2^30 calls: each uses two ids at most and Dial one, out of IdMax = 2^31 *)
(* - 1 before c.id wraps.                                                  *)
THEOREM IdsNeverReused ==
    ASSUME 2 * MaxCalls < IdMax
    PROVE  Spec => []IdsFresh
<1>1. Base /\ Base' /\ IdInv /\ [Next]_vars => IdInv'
  BY IdStep, FlightHolds, Zenon DEF Base
<1>2. Base /\ IdInv => IdsFresh
  BY FreshIds, Zenon DEF Base
<1> QED
  BY <1>1, <1>2, IdInit, BaseAlways, PTL DEF Spec

(* In multi-packet mode every response that Execute returns from a stream  *)
(* that no timeout has torn is the whole answer to that very command, in   *)
(* order and with nothing of any other (readMultiPacket).                  *)
THEOREM MultiAnswersWhole ==
    ASSUME 2 * MaxCalls < IdMax
    PROVE  Spec => []MultiComplete
BY AnswersWhenFresh, IdsNeverReused, PTL

(* In single-packet mode it is the first packet of that answer             *)
(* (readSinglePacket).                                                     *)
THEOREM SingleAnswersFirst ==
    ASSUME 2 * MaxCalls < IdMax
    PROVE  Spec => []SingleFirst
BY AnswersWhenFresh, IdsNeverReused, PTL

(* In idle mode it is a prefix of that answer, never another's packet      *)
(* (readIdleDrain).                                                        *)
THEOREM IdleAnswersPrefix ==
    ASSUME 2 * MaxCalls < IdMax
    PROVE  Spec => []IdlePrefix
BY AnswersWhenFresh, IdsNeverReused, PTL

(* A multi-packet Execute that succeeds leaves nothing of its exchange     *)
(* behind, or only what the server sends after the echo                    *)
(* (drainSourceMirror).                                                    *)
THEOREM StreamLeftClean ==
    ASSUME 2 * MaxCalls < IdMax
    PROVE  Spec => SuccessLeavesStreamClean
BY CleanWhenFresh, IdsNeverReused, PTL

-----------------------------------------------------------------------------
(* The mapping. *)

MapTyped ==
    /\ calls \in Nat
    /\ args \in [Callers -> [n : Nat, dl : Nat]]
    /\ res \in [Callers -> [n : Nat, kind : Kinds, body : Seq(Body), torn : BOOLEAN]]
    /\ pc \in [Callers -> {"idle", "lock", "sentinel", "read", "drain"}]
    /\ c2s \in Seq(Packet)
    /\ chunks \in [1..MaxCalls -> 0..MaxChunks]

(* The types that the refinement mapping rests on. *)
LEMMA MapTypes == PeerTypeOK => MapTyped
<1> SUFFICES ASSUME PeerTypeOK PROVE MapTyped
  OBVIOUS
<1>1. calls \in Nat
  BY ConnAssumption DEF PeerTypeOK, TypeOK
<1> QED
  BY <1>1, Zenon DEF PeerTypeOK, TypeOK, MapTyped

(* What the mapping makes of a result. *)
Told(r) == IF r.kind \notin {"none", "ok"} THEN "err"
           ELSE IF r.kind = "ok" /\ (r.torn \/ r.body = <<>>) THEN "unsure" ELSE r.kind

(* The packets on the way to the server as the service sees them: a        *)
(* sequence of commands and zeros.                                         *)
LEMMA QueueType == c2s \in Seq(Packet) => Queue \in Seq(Nat)
<1> SUFFICES ASSUME c2s \in Seq(Packet) PROVE Queue \in Seq(Nat)
  BY Zenon
<1>1. Len(c2s) \in Nat
  OBVIOUS
<1>2. ASSUME NEW i \in 1..Len(c2s) PROVE CommandIn(c2s[i]) \in Nat
  <2>1. c2s[i] \in Packet
    OBVIOUS
  <2> QED
    BY <2>1, Zenon DEF CommandIn, Packet, Body
<1> QED
  BY <1>1, <1>2 DEF Queue

(* Every step of the exchange is a step of the service or none. *)
LEMMA RefineStep ==
    PeerTypeOK /\ PeerTypeOK' /\ FlightInv /\ CallInv /\ ResultInv' /\ [Next]_vars => [Service!Next]_Service!vars
(* The mapping of one caller's arguments, *)
<1>ArgChanged. ASSUME PeerTypeOK, NEW c \in Callers, NEW a, args' = [args EXCEPT ![c] = a]
               PROVE  Arg' = [Arg EXCEPT ![c] = a.n]
  BY <1>ArgChanged, MapTypes, Zenon DEF MapTyped, Arg
(* and of one caller's result. *)
<1>OutChanged. ASSUME PeerTypeOK, NEW c \in Callers, NEW r, res' = [res EXCEPT ![c] = r]
               PROVE  Out' = [Out EXCEPT ![c] = [n |-> r.n, kind |-> Told(r)]]
  <2> USE <1>OutChanged
  <2>1. res' = [d \in Callers |-> IF d = c THEN r ELSE res[d]]
    BY MapTypes, ZenonT(40) DEF MapTyped
  <2>2. Out' = [d \in Callers |-> [n |-> res'[d].n, kind |-> Told(res'[d])]]
    BY Zenon DEF Out, Told
  <2>3. Out = [d \in Callers |-> [n |-> res[d].n, kind |-> Told(res[d])]]
    BY Zenon DEF Out, Told
  <2> QED
    BY <2>1, <2>2, <2>3, Zenon
(* The checks of Execute let a call in or reject it. *)
<1>RefineBegin. ASSUME PeerTypeOK, FlightInv, NEW c \in Callers, Begin(c), UNCHANGED peerVars
                PROVE  Service!Next
  <2> USE <1>RefineBegin
  <2>1. Arg[c] = 0
    BY Zenon DEF Begin, FlightInv, Arg
  <2>2. calls' = calls + 1 /\ UNCHANGED <<mu, Queue, Ran>>
    BY Zenon DEF Begin, peerVars, netVars, Ran, Queue
  <2>3. CASE UNCHANGED res /\ \E d : args' = [args EXCEPT ![c] = [n |-> calls + 1, dl |-> d]]
    <3>1. PICK d : args' = [args EXCEPT ![c] = [n |-> calls + 1, dl |-> d]]
      BY <2>3, Zenon
    <3>2. Arg' = [Arg EXCEPT ![c] = calls + 1]
      BY <3>1, <1>ArgChanged, Zenon
    <3>3. Out' = Out
      BY <2>3, Zenon DEF Out
    <3>4. Service!Call(c)
      BY <2>1, <2>2, <3>2, <3>3, Zenon DEF Service!Call
    <3> QED
      BY <3>4, Zenon DEF Service!Next
  <2>4. CASE UNCHANGED args /\ \E k \in {"ErrClosed", "ErrCommandEmpty", "ErrCommandTooLong"} :
               res' = [res EXCEPT ![c] = [n |-> calls + 1, kind |-> k, body |-> <<>>, torn |-> FALSE]]
    <3>1. PICK k \in {"ErrClosed", "ErrCommandEmpty", "ErrCommandTooLong"} :
            res' = [res EXCEPT ![c] = [n |-> calls + 1, kind |-> k, body |-> <<>>, torn |-> FALSE]]
      BY <2>4, Zenon
    <3>2. Told([n |-> calls + 1, kind |-> k, body |-> <<>>, torn |-> FALSE]) = "err"
      BY Zenon DEF Told
    <3>3. Out' = [Out EXCEPT ![c] = [n |-> calls + 1, kind |-> "err"]]
      BY <3>1, <3>2, <1>OutChanged, Zenon
    <3>4. Arg' = Arg
      BY <2>4, Zenon DEF Arg
    <3>5. Service!Reject(c)
      BY <2>1, <2>2, <3>3, <3>4, Zenon DEF Service!Reject
    <3> QED
      BY <3>5, Zenon DEF Service!Next
  <2> QED
    BY <2>3, <2>4, Zenon DEF Begin
(* Execute returns: the call is finished if it held mu, abandoned if it    *)
(* never got it.                                                           *)
<1>RefineReturn. ASSUME PeerTypeOK, PeerTypeOK', NEW c \in Callers, NEW kind, NEW body, Return(c, kind, body),
                        kind # "none", UNCHANGED <<calls, c2s, chunks>>,
                        mu = c \/ (mu = NoOne /\ kind # "ok" /\ Arg[c] # 0),
                        kind = "ok" /\ ~torn /\ body # <<>> => args[c].n \in Ran
                 PROVE  Service!Next
  <2> USE <1>RefineReturn
  <2>1. PICK r : r = [n |-> args[c].n, kind |-> kind, body |-> body, torn |-> torn]
    BY Zenon
  <2>2. Out' = [Out EXCEPT ![c] = [n |-> Arg[c], kind |-> Told(r)]]
    <3>1. res' = [res EXCEPT ![c] = r] /\ r.n = Arg[c]
      BY <2>1, Zenon DEF Return, Result, Arg
    <3>2. Out' = [Out EXCEPT ![c] = [n |-> r.n, kind |-> Told(r)]]
      BY <3>1, <1>OutChanged, Zenon
    <3> QED
      BY <3>1, <3>2, Zenon
  <2>3. Arg' = [Arg EXCEPT ![c] = 0]
    <3>1. args' = [args EXCEPT ![c] = NoCall] /\ NoCall.n = 0
      BY Zenon DEF Return, NoCall
    <3>2. Arg' = [Arg EXCEPT ![c] = NoCall.n]
      BY <3>1, <1>ArgChanged, Zenon
    <3> QED
      BY <3>1, <3>2, Zenon
  <2>4. mu' = NoOne /\ UNCHANGED <<calls, Queue, Ran>>
    BY Zenon DEF Return, Ran, Queue
  <2>5. Told(r) \in {"ok", "err", "unsure"} /\ (kind # "ok" => Told(r) = "err")
        /\ (Told(r) = "ok" => kind = "ok" /\ ~torn /\ body # <<>>)
    BY <2>1, Zenon DEF Told
  <2>6. Service!Ended(c, Told(r))
    BY <2>2, <2>3, <2>4, Zenon DEF Service!Ended
  <2>7. CASE mu = c
    <3>1. Told(r) = "ok" => Arg[c] \in Ran
      BY <2>5, Zenon DEF Arg
    <3>2. Service!Finish(c)
      BY <2>5, <2>6, <2>7, <3>1, Zenon DEF Service!Finish, Service!Outcomes
    <3> QED
      BY <3>2, Zenon DEF Service!Next
  <2>8. CASE mu = NoOne /\ kind # "ok" /\ Arg[c] # 0
    <3>1. Service!Abandon(c)
      BY <2>5, <2>6, <2>8, Zenon DEF Service!Abandon
    <3> QED
      BY <3>1, Zenon DEF Service!Next
  <2> QED
    BY <2>7, <2>8, Zenon
(* writePacket as the service sees it: the packet is queued or lost. *)
<1>QueueWritten. ASSUME PeerTypeOK, PeerTypeOK', NEW p \in Packet, c2s' = Written(p)
                 PROVE  Queue' \in {Queue, Append(Queue, CommandIn(p))}
  <2> USE <1>QueueWritten
  <2>1. c2s \in Seq(Packet) /\ c2s' \in Seq(Packet)
    <3>1. MapTyped /\ MapTyped'
      BY MapTypes, PTL
    <3> QED
      BY <3>1, Zenon DEF MapTyped
  <2>2. Queue \in Seq(Nat) /\ Queue' \in Seq(Nat)
    <3>1. (c2s \in Seq(Packet) => Queue \in Seq(Nat))'
      BY QueueType, PTL
    <3> QED
      BY <2>1, <3>1, QueueType, Zenon
  <2>3. CASE c2s' = c2s
    BY <2>3, Zenon DEF Queue
  <2>4. CASE c2s' = Append(c2s, p)
    <3>1. CommandIn(p) \in Nat
      BY Zenon DEF CommandIn, Packet, Body
    <3>a. Append(Queue, CommandIn(p)) \in Seq(Nat)
      BY <2>2, <3>1
    <3>2. PICK q \in Seq(Nat) : q = Append(Queue, CommandIn(p))
      BY <3>a, Zenon
    <3>3. /\ Len(q) = Len(c2s) + 1 /\ q[Len(c2s) + 1] = CommandIn(p)
          /\ \A i \in 1..Len(c2s) : q[i] = CommandIn(c2s[i])
      <4>1. Len(Queue) = Len(c2s) /\ \A i \in 1..Len(c2s) : Queue[i] = CommandIn(c2s[i])
        BY <2>1 DEF Queue
      <4> QED
        BY <2>1, <2>2, <3>1, <3>2, <4>1
    <3>4. /\ Len(c2s') = Len(c2s) + 1 /\ c2s'[Len(c2s) + 1] = p
          /\ \A i \in 1..Len(c2s) : c2s'[i] = c2s[i]
      BY <2>1, <2>4
    <3>5. Len(Queue') = Len(c2s') /\ \A i \in 1..Len(c2s') : Queue'[i] = CommandIn(c2s'[i])
      BY <2>1 DEF Queue
    <3>6. Len(Queue') = Len(q) /\ \A i \in 1..Len(q) : Queue'[i] = q[i]
      <4>1. Len(c2s) \in Nat
        BY <2>1
      <4> QED
        BY <3>3, <3>4, <3>5, <4>1
    <3>7. Queue' = q
      BY <2>2, <3>2, <3>6, SameSeq, Zenon
    <3> QED
      BY <3>2, <3>7, Zenon
  <2> QED
    BY <2>3, <2>4, Zenon DEF Written
(* serveConn reads a packet: the service takes the first of its queue. *)
<1>QueueRead. ASSUME PeerTypeOK, PeerTypeOK', c2s # <<>>, c2s' = Tail(c2s)
              PROVE  Queue # <<>> /\ Head(Queue) = CommandIn(c2s[1]) /\ Queue' = Tail(Queue)
  <2> USE <1>QueueRead
  <2>1. c2s \in Seq(Packet) /\ c2s' \in Seq(Packet)
    <3>1. MapTyped /\ MapTyped'
      BY MapTypes, PTL
    <3> QED
      BY <3>1, Zenon DEF MapTyped
  <2>2. Queue \in Seq(Nat) /\ Queue' \in Seq(Nat)
    <3>1. (c2s \in Seq(Packet) => Queue \in Seq(Nat))'
      BY QueueType, PTL
    <3> QED
      BY <2>1, <3>1, QueueType, Zenon
  <2>3. Len(Queue) = Len(c2s) /\ \A i \in 1..Len(c2s) : Queue[i] = CommandIn(c2s[i])
    BY <2>1 DEF Queue
  <2>4. Len(Queue') = Len(c2s') /\ \A i \in 1..Len(c2s') : Queue'[i] = CommandIn(c2s'[i])
    BY <2>1 DEF Queue
  <2>5. /\ Len(c2s) \in Nat /\ Len(c2s) > 0 /\ Len(c2s') = Len(c2s) - 1
        /\ \A i \in 1..Len(c2s') : c2s'[i] = c2s[i + 1]
    BY <2>1
  <2>6. Queue # <<>> /\ Head(Queue) = Queue[1]
    BY <2>2, <2>3, <2>5
  <2>a. Tail(Queue) \in Seq(Nat)
    BY <2>2, <2>6
  <2>7. PICK q \in Seq(Nat) : q = Tail(Queue)
    BY <2>a, Zenon
  <2>8. Len(q) = Len(c2s) - 1 /\ \A i \in 1..Len(q) : q[i] = Queue[i + 1]
    BY <2>2, <2>3, <2>5, <2>6, <2>7
  <2>9. Len(Queue') = Len(q) /\ \A i \in 1..Len(q) : Queue'[i] = q[i]
    BY <2>3, <2>4, <2>5, <2>8
  <2>10. Queue' = q
    BY <2>2, <2>7, <2>9, SameSeq, Zenon
  <2> QED
    BY <2>3, <2>5, <2>6, <2>7, <2>10
(* A step that the service does not see. *)
<1>Stutters. ASSUME UNCHANGED <<calls, args, mu, chunks, res, c2s>>
             PROVE  UNCHANGED Service!vars
  BY <1>Stutters, Zenon DEF Service!vars, Arg, Ran, Out, Queue
(* A packet that runs no command, of Dial or a sentinel, is queued or      *)
(* lost.                                                                   *)
<1>RefineAsk. ASSUME PeerTypeOK, PeerTypeOK', NEW p \in Packet, p.type # TypeExecCommand, c2s' = Written(p),
                     UNCHANGED <<calls, args, mu, chunks, res>>
              PROVE  Service!Next \/ UNCHANGED Service!vars
  <2> USE <1>RefineAsk
  <2>1. UNCHANGED <<calls, Arg, mu, Ran, Out>>
    BY Zenon DEF Arg, Ran, Out
  <2>2. Queue' \in {Queue, Append(Queue, 0)}
    BY <1>QueueWritten, Zenon DEF CommandIn
  <2>3. CASE Queue' = Queue
    BY <2>1, <2>3, Zenon DEF Service!vars
  <2>4. CASE Queue' = Append(Queue, 0)
    <3>1. Service!Ask
      BY <2>1, <2>4, Zenon DEF Service!Ask
    <3> QED
      BY <3>1, Zenon DEF Service!Next
  <2> QED
    BY <2>2, <2>3, <2>4, Zenon
(* A response that is not empty, from a stream that is not torn, is that   *)
(* of a command which the server has run.                                  *)
<1>ReturnRan. ASSUME PeerTypeOK, PeerTypeOK', ResultInv', NEW c \in Callers, NEW kind, NEW body, Return(c, kind, body),
                     UNCHANGED <<mode, chunks>>, kind = "ok", ~torn, body # <<>>
              PROVE  args[c].n \in Ran
  <2> USE <1>ReturnRan
  <2>1. res'[c] = [n |-> args[c].n, kind |-> "ok", body |-> body, torn |-> torn]
    BY MapTypes, Zenon DEF MapTyped, Return, Result
  <2>2. Succeeded(c)' /\ res'[c].n = args[c].n /\ res'[c].body = body
    <3>1. res'[c].kind = "ok" /\ ~res'[c].torn /\ res'[c].body = body /\ res'[c].n = args[c].n
      <4>1. ~torn
        BY Zenon
      <4> HIDE <1>ReturnRan
      <4> QED
        BY <2>1, <4>1
    <3> QED
      BY <3>1, Zenon DEF Succeeded
  <2>3. PICK n : n = args[c].n
    BY Zenon
  <2>4. /\ n \in 1..MaxCalls
        /\ mode = "multi"  => chunks[n] > 0
        /\ mode = "single" => chunks[n] > 0
        /\ mode # "single" => body = Whole(n, Len(body)) /\ Len(body) <= chunks[n]
    BY <2>2, <2>3, Zenon DEF ResultInv, Good
  <2>5. chunks[n] > 0
    <3>1. CASE mode # "single"
      <4>1. body \in Seq(Body) /\ chunks[n] \in Nat
        <5>1. MaxChunks \in Nat
          BY ExchangeAssumption, Zenon
        <5>2. chunks[n] \in 0..MaxChunks
          BY <2>4, MapTypes, Zenon DEF MapTyped
        <5>3. res'[c].body \in Seq(Body)
          <6>1. MapTyped'
            BY MapTypes, PTL
          <6> QED
            BY <6>1, Zenon DEF MapTyped
        <5>4. body \in Seq(Body)
          BY <2>2, <5>3, Zenon
        <5> HIDE <1>ReturnRan
        <5>5. chunks[n] \in Nat
          BY <5>1, <5>2
        <5> QED
          BY <5>4, <5>5, Zenon
      <4>2. Len(body) <= chunks[n] /\ body # <<>>
        BY <2>4, <3>1, Zenon
      <4> HIDE <1>ReturnRan
      <4> QED
        BY <4>1, <4>2
    <3> QED
      BY <2>4, <3>1, Zenon
  <2>6. n \in DOMAIN chunks
    BY <2>4, MapTypes, Zenon DEF MapTyped
  <2> QED
    BY <2>3, <2>5, <2>6, Zenon DEF Ran
(* Each step of Execute is a step of the service or none. *)
<1>RefineCaller. ASSUME PeerTypeOK, PeerTypeOK', FlightInv, CallInv, ResultInv',
                        NEW c \in Callers, CallerStep(c), UNCHANGED peerVars
                 PROVE  Service!Next \/ UNCHANGED Service!vars
  <2> USE <1>RefineCaller
  <2>1. UNCHANGED chunks
    BY Zenon DEF peerVars
  <2>2. CASE Ends(c)
    <3>1. PICK kind, body : Return(c, kind, body)
      BY <2>2, Zenon DEF Ends
    <3>2. pc[c] # "idle" /\ UNCHANGED <<mode, calls, c2s>>
      BY <2>2, Zenon DEF Ends
    <3>3. kind # "none" /\ (pc[c] = "lock" => mu = NoOne /\ kind # "ok")
      BY <3>1, ReturnKind, Zenon
    <3>4. Arg[c] # 0
      <4>1. args[c].n \in 1..calls /\ calls \in Nat
        BY <3>2, MapTypes, Zenon DEF CallInv, MapTyped
      <4>2. args[c].n # 0
        BY <4>1
      <4> QED
        BY <4>2, Zenon DEF Arg
    <3>5. mu = c \/ pc[c] = "lock"
      BY <3>2, Zenon DEF FlightInv, Flying
    <3>6. kind = "ok" /\ ~torn /\ body # <<>> => args[c].n \in Ran
      BY <2>1, <3>1, <3>2, <1>ReturnRan, Zenon
    <3> QED
      BY <2>1, <3>1, <3>2, <3>3, <3>4, <3>5, <3>6, <1>RefineReturn, Zenon
  <2>3. CASE Send(c)
    <3>1. PICK p : p = [id |-> NextID(id), type |-> TypeExecCommand, body |-> <<args[c].n, 0>>]
      BY Zenon
    <3>2. p \in Packet /\ p.type = TypeExecCommand /\ p.body[1] = Arg[c]
      <4>1. args[c].n \in Nat
        BY MapTypes, Zenon DEF MapTyped
      <4> QED
        BY <3>1, <4>1, NextIDPositive DEF Packet, Body, TypeExecCommand, Arg
    <3>3. c2s' = Written(p) /\ mu = NoOne /\ mu' = c /\ pc[c] = "lock" /\ UNCHANGED <<calls, args, res>>
      BY <2>3, <3>1, Zenon DEF Send
    <3>4. Queue' \in {Queue, Append(Queue, Arg[c])}
      BY <3>2, <3>3, <1>QueueWritten, Zenon DEF CommandIn
    <3>5. Arg[c] # 0
      <4>1. args[c].n \in 1..calls /\ calls \in Nat
        BY <3>3, MapTypes, Zenon DEF CallInv, MapTyped
      <4>2. args[c].n # 0
        BY <4>1
      <4> QED
        BY <4>2 DEF Arg
    <3>6. UNCHANGED <<calls, Arg, Ran, Out>>
      BY <2>1, <3>3, Zenon DEF Arg, Ran, Out
    <3>7. Service!Send(c)
      BY <3>3, <3>4, <3>5, <3>6, Zenon DEF Service!Send
    <3> QED
      BY <3>7, Zenon DEF Service!Next
  <2>4. CASE Asks(c)
    <3>1. PICK p : p = [id |-> NextID(id), type |-> TypeResponseValue, body |-> Empty]
      BY Zenon
    <3>2. p \in Packet /\ p.type # TypeExecCommand
      BY <3>1, NextIDPositive DEF Packet, Body, TypeResponseValue, TypeExecCommand, Empty
    <3>3. c2s' = Written(p) /\ UNCHANGED <<calls, args, mu, res>>
      BY <2>4, <3>1 DEF Asks
    <3> QED
      BY <2>1, <3>2, <3>3, <1>RefineAsk, Zenon
  <2>5. CASE Reads(c)
    BY <2>1, <2>5, <1>Stutters, Zenon DEF Reads
  <2> QED
    BY <2>2, <2>3, <2>4, <2>5, StepForms, Zenon
(* So is each step of the server: it runs the command that was sent first, *)
(* or all that were not run are lost.                                      *)
<1>RefinePeer. ASSUME PeerTypeOK, PeerTypeOK', CallInv, PeerStep \/ PeerDrop
               PROVE  Service!Next \/ UNCHANGED Service!vars
  <2> USE <1>RefinePeer
  <2>1. c2s \in Seq(Packet) /\ chunks \in [1..MaxCalls -> 0..MaxChunks]
    BY MapTypes, Zenon DEF MapTyped
  <2>2. UNCHANGED <<calls, args, mu, res>>
    BY ZenonT(40) DEF PeerStep, PeerAuth, PeerExec, PeerEcho, PeerWrite, PeerDrop, PeerRead, connVars
  <2>3. UNCHANGED <<calls, Arg, mu, Out>>
    BY <2>2, Zenon DEF Arg, Out
  <2>4. CASE PeerExec
    <3>1. PICK p : c2s # <<>> /\ p = Head(c2s) /\ c2s' = Tail(c2s) /\ p.type = TypeExecCommand
      BY <2>4, Zenon DEF PeerExec, PeerRead
    <3>2. PICK n : n = p.body[1]
      BY Zenon
    <3>3. PICK k \in 1..MaxChunks : chunks' = [chunks EXCEPT ![n] = k]
      BY <2>1, <2>4, <3>1, <3>2, Zenon DEF PeerExec
    <3>4. Len(c2s) \in Nat /\ Len(c2s) >= 1 /\ c2s[1] = p
      BY <2>1, <3>1
    <3>5. n \in 1..MaxCalls
      <4>1. n \in 1..calls
        <5>1. 1 \in 1..Len(c2s)
          BY <3>4
        <5> QED
          BY <3>1, <3>2, <3>4, <5>1, Zenon DEF CallInv
      <4>2. calls \in 0..MaxCalls
        BY Zenon DEF PeerTypeOK, TypeOK
      <4>3. MaxCalls \in Nat
        BY ConnAssumption, Zenon
      <4> QED
        BY <4>1, <4>2, <4>3
    <3>6. Queue # <<>> /\ Head(Queue) = n /\ Queue' = Tail(Queue)
      BY <3>1, <3>2, <3>4, <1>QueueRead, Zenon DEF CommandIn
    <3>7. Ran' = Ran \cup {n}
      <4>1. k > 0 /\ MaxChunks \in Nat
        BY <3>3, ExchangeAssumption
      <4>2. chunks'[n] = k /\ \A i \in 1..MaxCalls : i # n => chunks'[i] = chunks[i]
        BY <2>1, <3>3, <3>5, Zenon
      <4>3. DOMAIN chunks' = 1..MaxCalls /\ DOMAIN chunks = 1..MaxCalls
        BY <2>1, <3>3, Zenon
      <4> QED
        BY <3>5, <4>1, <4>2, <4>3 DEF Ran
    <3>8. {n} \ {0} = {n}
      BY <3>5
    <3>9. Service!Run
      BY <2>3, <3>6, <3>7, <3>8 DEF Service!Run
    <3> QED
      BY <3>9, Zenon DEF Service!Next
  <2>5. CASE PeerAuth \/ PeerEcho
    <3>1. c2s # <<>> /\ c2s' = Tail(c2s) /\ Head(c2s).type # TypeExecCommand /\ UNCHANGED chunks
      BY <2>5 DEF PeerAuth, PeerEcho, PeerRead, TypeAuth, TypeResponseValue, TypeExecCommand
    <3>2. c2s[1] = Head(c2s)
      BY <2>1, <3>1
    <3>3. Queue # <<>> /\ Head(Queue) = 0 /\ Queue' = Tail(Queue)
      BY <3>1, <3>2, <1>QueueRead, Zenon DEF CommandIn
    <3>4. Ran' = Ran \cup ({0} \ {0})
      BY <3>1, Zenon DEF Ran
    <3>5. Service!Run
      BY <2>3, <3>3, <3>4, Zenon DEF Service!Run
    <3> QED
      BY <3>5, Zenon DEF Service!Next
  <2>6. CASE PeerWrite
    BY <2>2, <2>6, <1>Stutters, Zenon DEF PeerWrite
  <2>7. CASE PeerDrop
    <3>1. c2s' = <<>> /\ UNCHANGED chunks
      BY <2>7, Zenon DEF PeerDrop
    <3>2. Queue' = <<>>
      BY <3>1 DEF Queue
    <3>3. Ran' = Ran
      BY <3>1, Zenon DEF Ran
    <3>4. Service!Lose
      BY <2>3, <3>2, <3>3, Zenon DEF Service!Lose
    <3> QED
      BY <3>4, Zenon DEF Service!Next
  <2> QED
    BY <2>4, <2>5, <2>6, <2>7, Zenon DEF PeerStep
<1> SUFFICES ASSUME PeerTypeOK,
                   PeerTypeOK',
                   FlightInv,
                   CallInv,
                   ResultInv',
                   [Next]_vars
             PROVE  [Service!Next]_Service!vars
  BY Zenon
<1>1. CASE AuthSend /\ UNCHANGED peerVars
  <2>1. PICK p : p = [id |-> NextID(id), type |-> TypeAuth, body |-> Empty]
    BY Zenon
  <2>2. p \in Packet /\ p.type # TypeExecCommand
    BY <2>1, NextIDPositive DEF Packet, Body, TypeAuth, TypeExecCommand, Empty
  <2>3. c2s' = Written(p) /\ UNCHANGED <<calls, args, mu, res, chunks>>
    BY <1>1, <2>1, Zenon DEF AuthSend, OpenUnchanged, peerVars
  <2> QED
    BY <2>2, <2>3, <1>RefineAsk, Zenon
<1>2. CASE (AuthReceive \/ AuthError \/ CloseStore \/ CloseSocket \/ Tick) /\ UNCHANGED peerVars
  <2>1. UNCHANGED <<calls, args, mu, res, chunks, c2s>>
    BY <1>2, Zenon DEF AuthReceive, AuthError, OpenUnchanged, CloseStore, CloseSocket, Tick, peerVars, netVars
  <2> QED
    BY <2>1, <1>Stutters, Zenon
<1>3. CASE UNCHANGED vars
  <2>1. UNCHANGED <<calls, args, mu, res, chunks, c2s>>
    BY <1>3, Zenon DEF vars, connVars, netVars, peerVars
  <2> QED
    BY <2>1, <1>Stutters
<1> QED
  BY <1>1, <1>2, <1>3, <1>RefineBegin, <1>RefineCaller, <1>RefinePeer, Zenon DEF Next, ConnNext

(* Before Dial no command is sent, run or answered. *)
LEMMA RefineInit == Init => Service!Init
<1> SUFFICES ASSUME Init PROVE Service!Init
  OBVIOUS
<1>1. c2s = <<>> /\ calls = 0 /\ mu = NoOne
  BY Zenon DEF Init, ConnInit
<1>2. Queue = <<>>
  BY <1>1 DEF Queue
<1>3. Arg = [c \in Callers |-> 0]
  BY Zenon DEF Init, ConnInit, Arg, NoCall
<1>4. Ran = {}
  BY DEF Init, Ran
<1>5. Out = [c \in Callers |-> [n |-> 0, kind |-> "none"]]
  BY Zenon DEF Init, ConnInit, Out, NoResult
<1> QED
  BY <1>1, <1>2, <1>3, <1>4, <1>5, Zenon DEF Service!Init

(* The exchange implements the service: whatever times out, fails, is      *)
(* dropped or closed, commands are run at most once and in the order of    *)
(* mu, and Execute says "ok" only of a command that was run.               *)
THEOREM ExchangeIsService ==
    ASSUME 2 * MaxCalls < IdMax
    PROVE  Spec => ImplementsService
<1>1. Base /\ Base' /\ ResultInv' /\ [Next]_vars => [Service!Next]_Service!vars
  BY RefineStep, Zenon DEF Base
<1>2. Spec => Service!Init /\ [][Service!Next]_Service!vars
  BY <1>1, RefineInit, BaseAlways, HoldsWhenFresh, IdsNeverReused, PTL DEF Spec
<1> QED
  BY <1>2, Zenon DEF ImplementsService, Service!Spec
=============================================================================
