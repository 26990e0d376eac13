-------------------------- MODULE RconStreamProofs --------------------------
(***************************************************************************)
(* Proofs about what is on the way between Execute and its server. Dial    *)
(* leaves no packet behind; and the invariant says of every frame and      *)
(* packet, in either direction, whether it is left from an earlier call or *)
(* of the call that holds mu, and if so which one. A late answer can then  *)
(* be told apart by its id alone, provided that nextID gives out no id     *)
(* that a packet on the way carries.                                       *)
(***************************************************************************)
EXTENDS RconExchangeProofs

-----------------------------------------------------------------------------
(* What Dial leaves behind. *)

OpenInv ==
    /\ ~up => Len(c2s) = 0 /\ Len(todo) = 0
    /\ phase = "dial" => Len(Line) = 0 /\ Len(c2s) = 0
    /\ phase \in {"dial", "auth1", "auth2"} => ~torn
    /\ phase = "auth1" =>
         \/ Len(Line) = 0 /\ Len(c2s) = 1 /\ c2s[1].type = TypeAuth
         \/ /\ Len(c2s) = 0 /\ Len(Line) <= 2
            /\ Len(Line) >= 1 => Line[1].type = TypeResponseValue
    /\ phase = "auth2" => Len(c2s) = 0 /\ Len(Line) <= 1
    /\ phase = "ready" =>
         /\ \A i \in 1..Len(c2s) : c2s[i].id > 0 /\ c2s[i].type \in {TypeExecCommand, TypeResponseValue}
         /\ \A i \in 1..Len(Line) : Line[i].id > 0

(* Nothing is on the way before Dial. *)
LEMMA OpenInit == Init => OpenInv
BY DEF Init, ConnInit, OpenInv, Line

(* No step leaves a packet of Dial behind once it has succeeded, so that   *)
(* every frame that Execute can meet has a positive id.                    *)
LEMMA OpenStep ==
    (/\ PeerTypeOK
     /\ PeerTypeOK'
     /\ OpenInv
     /\ [Next]_vars
     /\ (\A c \in Callers : pc[c] # "idle" => phase = "ready")) => OpenInv'
(* Once Dial has succeeded. *)
<1>ReadyKept. ASSUME OpenInv, phase = "ready", phase' = "ready",
                     ~up' => Len(c2s') = 0 /\ Len(todo') = 0,
                     \A i \in 1..Len(c2s') : c2s'[i].id > 0 /\ c2s'[i].type \in {TypeExecCommand, TypeResponseValue},
                     \A i \in 1..Len(Line') : Line'[i].id > 0
              PROVE  OpenInv'
  BY <1>ReadyKept, Zenon DEF OpenInv
(* A frame is taken after Dial has succeeded. *)
<1>OpenFetch. ASSUME PeerTypeOK, PeerTypeOK', OpenInv, phase = "ready", HeadTaken,
                     UNCHANGED <<phase, up, c2s, todo>>
              PROVE  OpenInv'
  <2> USE <1>OpenFetch
  <2>1. Len(Line) \in Nat /\ Len(Line') \in Nat
    <3>1. LineTyped /\ LineTyped'
      BY LineType, PTL
    <3> QED
      BY <3>1, SMTT(30) DEF LineTyped
  <2>2. \A i \in 1..Len(Line') : i + 1 \in 1..Len(Line)
    BY <2>1 DEF HeadTaken
  <2>3. \A i \in 1..Len(Line') : Line'[i].id > 0
    BY <2>2, Zenon DEF HeadTaken, OpenInv
  <2> QED
    BY <2>3, <1>ReadyKept, ZenonT(40) DEF OpenInv
(* A packet is written after Dial has succeeded. *)
<1>OpenWritten. ASSUME PeerTypeOK, PeerTypeOK', OpenInv, phase = "ready",
                       NEW p \in Packet, p.id > 0, p.type \in {TypeExecCommand, TypeResponseValue}, c2s' = Written(p),
                       UNCHANGED <<phase, up, buf, s2c, todo>>
                PROVE  OpenInv'
  <2> USE <1>OpenWritten
  <2>1. Line' = Line
    BY SameLine, Zenon
  <2>2. Len(c2s) \in Nat
    BY TypedParts, Zenon DEF Typed
  <2>3. \A i \in 1..Len(c2s') : c2s'[i].id > 0 /\ c2s'[i].type \in {TypeExecCommand, TypeResponseValue}
    <3>1. CASE ~up /\ c2s' = c2s
      BY <3>1, Zenon DEF OpenInv
    <3>2. CASE /\ up /\ Len(c2s') = Len(c2s) + 1 /\ c2s'[Len(c2s) + 1] = p
               /\ \A i \in 1..Len(c2s) : c2s'[i] = c2s[i]
      BY <2>2, <3>2 DEF OpenInv
    <3> QED
      BY <3>1, <3>2, WrittenAt, Zenon
  <2>4. ~up' => Len(c2s') = 0 /\ Len(todo') = 0
    BY Zenon DEF Written, OpenInv
  <2> QED
    BY <2>1, <2>3, <2>4, <1>ReadyKept, Zenon DEF OpenInv
(* A step that moves neither frames nor packets. *)
<1>OpenSame. ASSUME OpenInv, UNCHANGED <<phase, up, torn, buf, s2c, todo, c2s>>
             PROVE  OpenInv'
  BY <1>OpenSame, SameLine, Zenon DEF OpenInv
(* The packets of Dial: authenticate writes one and reads the two that     *)
(* answer it, in order.                                                    *)
<1>OpenDial. ASSUME PeerTypeOK, PeerTypeOK', OpenInv, AuthSend \/ AuthReceive \/ AuthError, UNCHANGED todo
             PROVE  OpenInv'
  <2> USE <1>OpenDial
  <2>1. Len(Line) \in Nat /\ Len(Line') \in Nat /\ Len(c2s) \in Nat
    <3>1. LineTyped /\ LineTyped' /\ Typed
      BY LineType, TypedParts, PTL
    <3> QED
      BY <3>1 DEF LineTyped, Typed
  <2>2. CASE AuthSend
    <3> DEFINE p == [id |-> NextID(id), type |-> TypeAuth, body |-> Empty]
    <3>1. /\ phase = "dial" /\ phase' = "auth1" /\ c2s' = Written(p) /\ UNCHANGED <<up, torn, buf, s2c>>
      BY <2>2, Zenon DEF AuthSend, OpenUnchanged
    <3>2. Line' = Line /\ p.type = TypeAuth
      BY <3>1, SameLine, Zenon
    <3> HIDE DEF p
    <3>3. \/ ~up /\ Len(c2s') = 0
          \/ up /\ Len(c2s') = 1 /\ c2s'[1] = p
      <4>1. Len(c2s) = 0 /\ (~up => c2s' = c2s)
        BY <3>1, Zenon DEF OpenInv, Written
      <4>2. up => Len(c2s') = Len(c2s) + 1 /\ c2s'[Len(c2s) + 1] = p
        <5>1. c2s \in Seq(Packet) /\ (up => c2s' = Append(c2s, p))
          BY <3>1, TypedParts, Zenon DEF Typed, Written
        <5> QED
          BY <5>1
      <4> QED
        BY <4>1, <4>2
    <3> QED
      BY <3>1, <3>2, <3>3 DEF OpenInv
  <2>3. CASE AuthReceive
    <3>1. /\ phase \in {"auth1", "auth2"} /\ Fetch /\ UNCHANGED <<up, torn, c2s>>
      BY <2>3, Zenon DEF AuthReceive, OpenUnchanged
    <3>2. HeadTaken /\ \A p \in Decoded : p = Line[1]
      BY <3>1, FetchLine, Zenon DEF OpenInv
    <3>3. phase' = IF Line[1].type = TypeResponseValue /\ phase = "auth1" THEN "auth2"
                   ELSE IF Line[1].type = TypeAuthResponse /\ Line[1].id # -1 THEN "ready"
                   ELSE "failed"
      BY <2>3, <3>2, Zenon DEF AuthReceive
    <3>4. Len(c2s) = 0 /\ (phase = "auth1" => phase' = "auth2" /\ Len(Line') <= 1) /\ (phase = "auth2" => Len(Line') = 0)
      BY <2>1, <3>1, <3>2, <3>3 DEF OpenInv, HeadTaken
    <3> QED
      BY <3>1, <3>3, <3>4, SMTT(30) DEF OpenInv
  <2>4. CASE AuthError
    BY <2>4, Zenon DEF AuthError, OpenUnchanged, OpenInv
  <2> QED
    BY <2>2, <2>3, <2>4, Zenon
(* What serveConn reads, answers and writes. *)
<1>OpenPeer. ASSUME PeerTypeOK, PeerTypeOK', OpenInv, PeerStep \/ PeerDrop
             PROVE  OpenInv'
  <2> USE <1>OpenPeer
  <2>1. Len(Line) \in Nat /\ Len(Line') \in Nat /\ Len(c2s) \in Nat /\ c2s \in Seq(Packet) /\ Len(todo') \in Nat
        /\ phase \in {"dial", "auth1", "auth2", "ready", "failed"}
    <3>1. LineTyped /\ LineTyped' /\ Typed
      BY LineType, TypedParts, PTL
    <3> QED
      BY <3>1 DEF LineTyped, Typed
  <2>2. UNCHANGED <<phase, torn, buf>>
    BY Zenon DEF PeerStep, PeerAuth, PeerExec, PeerEcho, PeerWrite, PeerDrop, PeerRead, connVars
  <2>3. CASE PeerAuth \/ PeerExec \/ PeerEcho
    <3>1. c2s # <<>> /\ up /\ up' /\ todo = <<>> /\ c2s' = Tail(c2s) /\ UNCHANGED s2c
      <4>1. \E q : PeerRead(q)
        BY <2>3, Zenon DEF PeerAuth, PeerExec, PeerEcho
      <4>2. up' = up
        BY <4>1, Zenon DEF PeerRead
      <4> QED
        BY <4>1, <4>2, Zenon DEF PeerRead
    <3>2. /\ Len(c2s) > 0 /\ Len(c2s') = Len(c2s) - 1 /\ Head(c2s) = c2s[1]
          /\ \A i \in 1..Len(c2s') : i + 1 \in 1..Len(c2s) /\ c2s'[i] = c2s[i + 1]
      BY <2>1, <3>1
    <3>3. /\ Len(Line') = Len(Line) + Len(todo')
          /\ \A i \in 1..Len(Line) : Line'[i] = Line[i]
          /\ \A i \in 1..Len(todo') : Line'[Len(Line) + i] = todo'[i]
      BY <2>2, <3>1, ReplyLine, Zenon
    <3>4. CASE PeerAuth
      <4>1. c2s[1].type = TypeAuth
        BY <3>2, <3>4, Zenon DEF PeerAuth
      <4>2. phase \in {"auth1", "failed"}
        BY <2>1, <3>2, <4>1 DEF OpenInv, TypeAuth, TypeExecCommand, TypeResponseValue
      <4>3. Len(todo') = 2 /\ todo'[1].type = TypeResponseValue
        BY <3>4 DEF PeerAuth, AuthReply
      <4>4. phase = "auth1" => Len(c2s') = 0 /\ Len(Line') = 2 /\ Line'[1] = todo'[1]
        BY <2>1, <3>2, <3>3, <4>3 DEF OpenInv
      <4> QED
        <5>1. CASE phase = "failed"
          BY <2>2, <3>1, <5>1, ZenonT(40) DEF OpenInv
        <5>2. CASE phase = "auth1"
          <6>1. phase' = "auth1" /\ ~torn'
            BY <2>2, <5>2, Zenon DEF OpenInv
          <6>2. Len(c2s') = 0 /\ Len(Line') <= 2 /\ Line'[1].type = TypeResponseValue
            <7>1. Len(c2s') = 0 /\ Len(Line') = 2 /\ Line'[1] = todo'[1]
              BY <4>4, <5>2, Zenon
            <7>2. 2 <= 2
              OBVIOUS
            <7> QED
              BY <4>3, <7>1, <7>2, Zenon
          <6> QED
            BY <3>1, <6>1, <6>2, Zenon DEF OpenInv
        <5> QED
          BY <4>2, <5>1, <5>2, Zenon
    <3>5. CASE PeerExec \/ PeerEcho
      <4>1. c2s[1].type # TypeAuth
        BY <3>2, <3>5, SMTT(30) DEF PeerExec, PeerEcho, TypeAuth, TypeExecCommand, TypeResponseValue
      <4>2. phase \in {"ready", "failed"}
        BY <2>1, <3>2, <4>1 DEF OpenInv
      <4>3. \A i \in 1..Len(todo') : todo'[i].id = c2s[1].id
        <5>1. CASE PeerExec
          <6>1. PICK k \in 1..MaxChunks : todo' = Reply(c2s[1], k)
            BY <3>2, <5>1, Zenon DEF PeerExec
          <6>2. k \in Nat
            BY ExchangeAssumption
          <6>3. Len(todo') = k
            BY <6>1, <6>2 DEF Reply
          <6> QED
            BY <6>1, <6>3, ZenonT(40) DEF Reply
        <5>2. CASE PeerEcho
          BY <3>2, <5>2, SMTT(30) DEF PeerEcho, Echo
        <5> QED
          BY <3>5, <5>1, <5>2, Zenon
      <4>4. ASSUME phase = "ready", NEW i \in 1..Len(Line') PROVE Line'[i].id > 0
        <5>1. CASE i <= Len(Line)
          BY <2>1, <3>3, <4>4, <5>1 DEF OpenInv
        <5>2. CASE i > Len(Line)
          <6>1. PICK j \in 1..Len(todo') : i = Len(Line) + j
            <7>1. i - Len(Line) \in 1..Len(todo') /\ i = Len(Line) + (i - Len(Line))
              BY <2>1, <3>3, <5>2
            <7> QED
              BY <7>1, Zenon
          <6>2. Line'[i].id = c2s[1].id
            BY <3>3, <4>3, <6>1, Zenon
          <6> QED
            BY <2>1, <3>2, <4>4, <6>2 DEF OpenInv
        <5> QED
          BY <2>1, <5>1, <5>2
      <4>5. CASE phase = "ready"
        BY <2>2, <3>1, <3>2, <4>4, <4>5, <1>ReadyKept, ZenonT(40) DEF OpenInv
      <4> QED
        BY <2>2, <3>1, <4>2, <4>5, Zenon DEF OpenInv
    <3> QED
      BY <2>3, <3>4, <3>5, Zenon
  <2>4. CASE PeerWrite
    BY <2>2, <2>4, WriteLine, Zenon DEF OpenInv, PeerWrite
  <2>5. CASE PeerDrop
    <3>1. Len(Line') <= Len(Line) /\ \A i \in 1..Len(Line') : Line'[i] = Line[i]
      BY <2>5, DropLine, Zenon
    <3>2. Len(c2s') = 0 /\ Len(todo') = 0
      BY <2>5, Zenon DEF PeerDrop
    <3> QED
      BY <2>1, <2>2, <3>1, <3>2 DEF OpenInv
  <2> QED
    BY <2>3, <2>4, <2>5, Zenon DEF PeerStep
<1> SUFFICES ASSUME PeerTypeOK,
                   PeerTypeOK',
                   OpenInv,
                   [Next]_vars,
                   \A c \in Callers : pc[c] # "idle" => phase = "ready"
             PROVE  OpenInv'
  BY Zenon
<1>1. ASSUME NEW c \in Callers, CallerStep(c), UNCHANGED peerVars PROVE OpenInv'
  <2>1. UNCHANGED todo
    BY <1>1, Zenon DEF peerVars
  <2>2. CASE Ends(c)
    <3>1. phase = "ready" /\ UNCHANGED <<phase, up, c2s>>
      BY <2>2, Zenon DEF Ends
    <3>2. CASE Fetch
      BY <2>1, <3>1, <3>2, FetchLine, <1>OpenFetch, Zenon
    <3>3. CASE UNCHANGED <<buf, s2c>>
      <4>1. Line' = Line
        BY <2>1, <3>3, SameLine, Zenon
      <4> QED
        BY <2>1, <3>1, <4>1, <1>ReadyKept, Zenon DEF OpenInv
    <3> QED
      BY <2>2, <3>2, <3>3, Zenon DEF Ends
  <2>3. CASE Send(c)
    <3> DEFINE p == [id |-> NextID(id), type |-> TypeExecCommand, body |-> <<args[c].n, 0>>]
    <3>1. c2s' = Written(p) /\ UNCHANGED <<phase, up, buf, s2c>> /\ phase = "ready"
      BY <2>3, Zenon DEF Send
    <3>2. p.id > 0 /\ p.type = TypeExecCommand
      BY NextIDPositive, ZenonT(40)
    <3>3. p \in Packet
      <4>1. args[c].n \in Nat
        BY TypedParts, Zenon DEF Typed
      <4> QED
        BY <4>1, NextIDPositive, SMTT(30) DEF Packet, Body, TypeExecCommand
    <3> QED
      BY <2>1, <3>1, <3>2, <3>3, <1>OpenWritten, Zenon
  <2>4. CASE Asks(c)
    <3> DEFINE p == [id |-> NextID(id), type |-> TypeResponseValue, body |-> Empty]
    <3>1. c2s' = Written(p) /\ UNCHANGED <<phase, up, buf, s2c>> /\ phase = "ready"
      BY <2>4, Zenon DEF Asks
    <3>2. p.id > 0 /\ p.type = TypeResponseValue
      BY NextIDPositive, Zenon
    <3>3. p \in Packet
      BY NextIDPositive DEF Packet, Body, TypeResponseValue, Empty
    <3> QED
      BY <2>1, <3>1, <3>2, <3>3, <1>OpenWritten, Zenon
  <2>5. CASE Reads(c)
    <3>1. phase = "ready" /\ Fetch /\ UNCHANGED <<phase, up, c2s>>
      BY <2>5, Zenon DEF Reads
    <3> QED
      BY <2>1, <3>1, FetchLine, <1>OpenFetch, Zenon
  <2> QED
    BY <1>1, <2>2, <2>3, <2>4, <2>5, StepForms, Zenon
<1>2. CASE (AuthSend \/ AuthReceive \/ AuthError) /\ UNCHANGED peerVars
  BY <1>2, <1>OpenDial, Zenon DEF peerVars
<1>3. CASE (CloseStore \/ CloseSocket \/ Tick \/ \E c \in Callers : Begin(c)) /\ UNCHANGED peerVars
  <2>1. UNCHANGED <<phase, up, torn, buf, s2c, todo, c2s>>
    BY <1>3, Zenon DEF CloseStore, CloseSocket, Tick, Begin, peerVars, netVars
  <2> QED
    BY <2>1, <1>OpenSame, Zenon
<1>4. CASE PeerStep \/ PeerDrop
  BY <1>4, <1>OpenPeer, Zenon
<1>5. CASE UNCHANGED vars
  BY <1>5, <1>OpenSame, Zenon DEF vars, connVars, netVars, peerVars
<1> QED
  BY <1>1, <1>2, <1>3, <1>4, <1>5, Zenon DEF Next, ConnNext

-----------------------------------------------------------------------------

(* What holds of the connection whatever the ids. *)
Base == PeerTypeOK /\ FlightInv /\ CallInv /\ OpenInv

(* It holds always: Dial and Execute never mix up whose turn it is, which  *)
(* command is whose, or the packets of Dial with those of a call.          *)
LEMMA BaseAlways == Spec => []Base
<1>1. Init => FlightInv /\ CallInv /\ OpenInv
  BY InitFlight, CallInit, OpenInit, Zenon
<1>2. PeerTypeOK /\ PeerTypeOK' /\ FlightInv /\ CallInv /\ OpenInv /\ [Next]_vars => FlightInv' /\ CallInv' /\ OpenInv'
  BY FlightStep, CallStep, OpenStep, FlightHolds, Zenon
<1> QED
  BY <1>1, <1>2, ExchangeTypeCorrect, PTL DEF Spec, Base

-----------------------------------------------------------------------------
(* The call that holds mu: its command, how many packets of the answer it  *)
(* has read and how many there are, and whether its sentinel is out.       *)
Cmd   == args[mu].n

Have  == Len(flight.acc)

Total == chunks[Cmd]

Asked == mode = "multi" /\ pc[mu] = "read"

Echoes == IF mirror THEN 2 ELSE 1

Whole(n, k) == [i \in 1..k |-> <<n, i>>]

Frame(i, n, k) == [id |-> i, type |-> TypeResponseValue, body |-> <<n, k>>]

Req == [id |-> flight.req, type |-> TypeExecCommand, body |-> <<Cmd, 0>>]

Sen == [id |-> flight.sen, type |-> TypeResponseValue, body |-> Empty]

(* The first j frames of Line and the first m packets of c2s are left from *)
(* earlier calls.  What follows is of the call that holds mu: the rest of  *)
(* the answer, the echoes of the sentinel, and before the server has read  *)
(* them the command and the sentinel themselves.                           *)
Own(j, m) ==
    /\ \A i \in 1..j : Line[i].id # flight.req /\ Line[i].id # flight.sen
    /\ \A i \in 1..m : c2s[i].id # flight.req /\ c2s[i].id # flight.sen
    /\ \A i \in (j + 1)..Len(Line) :
         IF Have + i - j <= Total THEN Line[i] = Frame(flight.req, Cmd, Have + i - j)
                                  ELSE Line[i].id = flight.sen
    /\ Have > 0 => j = 0
    /\ Total = 0 => j = Len(Line)
    /\ Have + Len(Line) - j <= Total + (IF Asked /\ Len(c2s) = 0 THEN Echoes ELSE 0)
    /\ up /\ Total = 0 =>
         /\ Len(c2s) = m + (IF Asked THEN 2 ELSE 1)
         /\ c2s[m + 1] = Req
         /\ Asked => c2s[m + 2] = Sen
    /\ up /\ Total > 0 =>
         /\ m = 0 /\ Have + Len(Line) - j >= Total
         /\ Len(c2s) = 0 \/ (Asked /\ Len(c2s) = 1 /\ c2s[1] = Sen)

StreamInv ==
    mu \in Callers /\ ~torn =>
        /\ flight.acc = Whole(Cmd, Have) /\ Have <= Total
        /\ flight.req > 0
        /\ pc[mu] = "sentinel" => flight.req = id /\ flight.sen = 0
        /\ mode # "multi" => flight.sen = 0
        /\ mode = "single" => Have = 0
        /\ Asked => flight.req # flight.sen
        /\ pc[mu] # "drain" => \E j \in 0..Len(Line), m \in 0..Len(c2s) : Own(j, m)
        /\ pc[mu] = "drain" => /\ Have = Total /\ Total > 0
                              /\ Len(c2s) = 0 /\ Len(Line) < Echoes

(* The sizes that the lemmas below count with. *)
Sizes ==
    /\ Len(Line) \in Nat /\ Len(c2s) \in Nat /\ Echoes \in 1..2
    /\ flight.acc \in Seq(Body) /\ Have \in Nat /\ flight.req \in Nat /\ flight.sen \in Nat

(* PeerTypeOK gives them. *)
LEMMA SizesOK == PeerTypeOK => Sizes
<1> SUFFICES ASSUME PeerTypeOK PROVE Sizes
  BY Zenon
<1>1. Len(Line) \in Nat
  BY LineType DEF LineTyped
<1>2. /\ flight.acc \in Seq(Body) /\ flight.req \in 0..IdMax /\ flight.sen \in 0..IdMax
  BY Zenon DEF PeerTypeOK, TypeOK
<1>3. IdMax \in Nat /\ Len(c2s) \in Nat
  BY TypedParts, Zenon DEF Typed
<1> QED
  BY <1>1, <1>2, <1>3 DEF Sizes, Have, Echoes

(* The command of the call that holds mu, and the size of its answer. *)
LEMMA TotalOK ==
    ASSUME PeerTypeOK, CallInv, mu \in Callers, pc[mu] # "idle"
    PROVE  Cmd \in 1..calls /\ Cmd \in 1..MaxCalls /\ Cmd \in Nat /\ Total \in Nat /\ Total = chunks[Cmd]
<1>1. Cmd \in 1..calls
  BY Zenon DEF CallInv, Cmd
<1>2. calls \in Nat /\ MaxCalls \in Nat /\ calls <= MaxCalls
  BY ConnAssumption DEF PeerTypeOK, TypeOK
<1>3. chunks \in [1..MaxCalls -> 0..MaxChunks] /\ MaxChunks \in Nat
  BY TypedParts, Zenon DEF Typed
<1>4. Cmd \in 1..MaxCalls
  BY <1>1, <1>2
<1> QED
  BY <1>1, <1>2, <1>3, <1>4 DEF Total

(* A step that leaves alone what the call in flight can see. *)
LEMMA StreamSame ==
    ASSUME StreamInv, mu' = mu, torn' = torn, flight' = flight, mode' = mode, mirror' = mirror,
           id' = id, chunks' = chunks, c2s' = c2s, up' = up, Line' = Line,
           mu \in Callers => pc'[mu] = pc[mu] /\ args'[mu] = args[mu]
    PROVE  StreamInv'
<1> SUFFICES ASSUME mu \in Callers, ~torn PROVE StreamInv'
  BY Zenon DEF StreamInv
<1>1. Cmd' = Cmd /\ Have' = Have /\ Total' = Total /\ (Asked' <=> Asked) /\ Echoes' = Echoes
      /\ Req' = Req /\ Sen' = Sen
  BY Zenon DEF Cmd, Have, Total, Asked, Echoes, Req, Sen
<1>2. ASSUME NEW j, NEW m, Own(j, m) PROVE Own(j, m)'
  BY <1>1, <1>2, Zenon DEF Own
<1> QED
  BY <1>1, <1>2, Zenon DEF StreamInv

(* The command is written: every frame and every packet on the way is left *)
(* from earlier calls, and by IdsFresh none has the id of this one.        *)
LEMMA StreamSend ==
    ASSUME PeerTypeOK, PeerTypeOK', CallInv, OpenInv, IdsFresh, NEW c \in Callers, Send(c), UNCHANGED peerVars,
           phase = "ready"
    PROVE  StreamInv'
<1> DEFINE p == [id |-> NextID(id), type |-> TypeExecCommand, body |-> <<args[c].n, 0>>]
<1>1. /\ pc[c] = "lock" /\ c2s' = Written(p) /\ mu' = c /\ UNCHANGED <<args, mode, torn, chunks, up, mirror>>
      /\ flight' = [NoFlight EXCEPT !.req = NextID(id)] /\ id' = NextID(id)
      /\ pc' = [pc EXCEPT ![c] = IF mode = "multi" THEN "sentinel" ELSE "read"]
      /\ UNCHANGED <<buf, s2c, todo>>
  BY Zenon DEF Send, peerVars
<1>2. /\ flight'.req = NextID(id) /\ flight'.sen = 0 /\ flight'.acc = <<>>
  BY <1>1, Zenon DEF NoFlight
<1>3. Line' = Line
  BY <1>1, SameLine, Zenon
<1>4. /\ Cmd' = args[c].n /\ Have' = 0 /\ Total' = 0 /\ mu' \in Callers
  BY <1>1, <1>2, Zenon DEF Cmd, Have, Total, CallInv
<1>5. pc'[mu'] = IF mode = "multi" THEN "sentinel" ELSE "read"
  BY <1>1, TypedParts, Zenon DEF Typed
<1>6. ~Asked' /\ p = Req'
  BY <1>1, <1>2, <1>4, <1>5 DEF Asked, Req
<1>7. Sizes /\ Sizes'
  BY SizesOK, PTL
<1>8. NextID(id) \in Nat /\ NextID(id) > 0
  BY NextIDPositive, Zenon
<1> HIDE DEF p
<1>9. /\ \A i \in 1..Len(Line) : Line[i].id # NextID(id) /\ Line[i].id # 0
      /\ \A i \in 1..Len(c2s) : c2s[i].id # NextID(id) /\ c2s[i].id # 0
  BY <1>1 DEF IdsFresh, OpenInv
<1>10. \/ ~up /\ c2s' = c2s
       \/ /\ up /\ Len(c2s') = Len(c2s) + 1 /\ c2s'[Len(c2s) + 1] = p
          /\ \A i \in 1..Len(c2s) : c2s'[i] = c2s[i]
  BY <1>1, WrittenAt, Zenon
<1>11. PICK j \in Nat, m \in Nat : j = Len(Line) /\ m = Len(c2s)
  BY <1>7, Zenon DEF Sizes
<1>12. j \in 0..Len(Line') /\ m \in 0..Len(c2s')
  BY <1>3, <1>7, <1>10, <1>11 DEF Sizes
<1>13. Own(j, m)'
  <2>1. \A i \in 1..m : c2s'[i] = c2s[i]
    BY <1>10, <1>11, Zenon
  <2>2. up => Len(c2s') = m + 1 /\ c2s'[m + 1] = Req'
    BY <1>6, <1>10, <1>11, Zenon
  <2>3. \A i \in (j + 1)..Len(Line') : FALSE
    BY <1>3, <1>11
  <2> QED
    BY <1>1, <1>2, <1>3, <1>4, <1>6, <1>9, <1>11, <2>1, <2>2, <2>3 DEF Own
<1>14. flight'.acc = Whole(Cmd', Have')
  BY <1>2, <1>4 DEF Whole
<1> QED
  BY <1>1, <1>2, <1>4, <1>5, <1>6, <1>8, <1>12, <1>13, <1>14 DEF StreamInv

(* The sentinel is written behind the command, with an id of its own. *)
LEMMA StreamAsks ==
    ASSUME PeerTypeOK, PeerTypeOK', CallInv, Holder, StreamInv, IdsFresh, NEW c \in Callers, Asks(c), UNCHANGED peerVars,
           mode = "multi"
    PROVE  StreamInv'
<1> SUFFICES ASSUME ~torn PROVE StreamInv'
  BY Zenon DEF StreamInv, Asks
<1> DEFINE p == [id |-> NextID(id), type |-> TypeResponseValue, body |-> Empty]
<1>1. /\ pc[c] = "sentinel" /\ c2s' = Written(p) /\ mu = c /\ mu' = c
      /\ UNCHANGED <<args, mode, torn, chunks, up, mirror>>
      /\ flight' = [flight EXCEPT !.sen = NextID(id)]
      /\ pc' = [pc EXCEPT ![c] = "read"]
      /\ UNCHANGED <<buf, s2c, todo>>
  BY Zenon DEF Asks, peerVars, Holder
<1>2. /\ flight'.req = flight.req /\ flight'.sen = NextID(id) /\ flight'.acc = flight.acc
  BY <1>1, Zenon DEF PeerTypeOK, TypeOK
<1>3. Line' = Line
  BY <1>1, SameLine, Zenon
<1>4. Cmd' = Cmd /\ Have' = Have /\ Total' = Total /\ Echoes' = Echoes
  BY <1>1, <1>2, Zenon DEF Cmd, Have, Total, Echoes
<1>5. pc'[mu'] = "read" /\ Asked' /\ ~Asked
  BY <1>1, TypedParts, Zenon DEF Typed, Asked
<1>6. Req' = Req /\ p = Sen'
  BY <1>2, <1>4, Zenon DEF Req, Sen
<1>7. Sizes /\ Sizes'
  BY SizesOK, PTL
<1>8. Total \in Nat
  BY <1>1, TotalOK, Zenon
<1> HIDE DEF p
<1>9. /\ \A i \in 1..Len(Line) : Line[i].id # NextID(id)
      /\ \A i \in 1..Len(c2s) : c2s[i].id # NextID(id)
      /\ NextID(id) # id
  BY <1>1, Zenon DEF IdsFresh
<1>10. \/ ~up /\ c2s' = c2s
       \/ /\ up /\ Len(c2s') = Len(c2s) + 1 /\ c2s'[Len(c2s) + 1] = p
          /\ \A i \in 1..Len(c2s) : c2s'[i] = c2s[i]
  BY <1>1, WrittenAt, Zenon
<1>11. PICK j \in 0..Len(Line), m \in 0..Len(c2s) : Own(j, m)
  BY <1>1, Zenon DEF StreamInv
<1>12. j \in 0..Len(Line') /\ m \in 0..Len(c2s') /\ j \in Nat /\ m \in Nat
  BY <1>3, <1>7, <1>8, <1>10 DEF Sizes
<1>13. Own(j, m)'
  <2>1. (\A i \in 1..j : Line[i].id # flight.req /\ Line[i].id # flight.sen)'
    <3>1. \A i \in 1..j : i \in 1..Len(Line)
      BY <1>7, <1>8, <1>12 DEF Sizes
    <3> QED
      BY <1>2, <1>3, <1>9, <1>11, <3>1, Zenon DEF Own
  <2>2. (\A i \in 1..m : c2s[i].id # flight.req /\ c2s[i].id # flight.sen)'
    <3>1. \A i \in 1..m : i \in 1..Len(c2s) /\ c2s'[i] = c2s[i]
      BY <1>7, <1>8, <1>10, <1>12 DEF Sizes
    <3> QED
      BY <1>2, <1>9, <1>11, <3>1, Zenon DEF Own
  <2>3. (\A i \in (j + 1)..Len(Line) :
         IF Have + i - j <= Total THEN Line[i] = Frame(flight.req, Cmd, Have + i - j)
                                  ELSE Line[i].id = flight.sen)'
    BY <1>2, <1>3, <1>4, <1>5, <1>7, <1>8, <1>11, <1>12 DEF Own, Sizes
  <2>4. (Have > 0 => j = 0)' /\ (Total = 0 => j = Len(Line))'
    BY <1>3, <1>4, <1>11, Zenon DEF Own
  <2>5. (Have + Len(Line) - j <= Total + (IF Asked /\ Len(c2s) = 0 THEN Echoes ELSE 0))'
    BY <1>3, <1>4, <1>5, <1>7, <1>8, <1>11, <1>12 DEF Own, Sizes
  <2>6. (up /\ Total = 0 =>
         /\ Len(c2s) = m + (IF Asked THEN 2 ELSE 1)
         /\ c2s[m + 1] = Req
         /\ Asked => c2s[m + 2] = Sen)'
    BY <1>1, <1>4, <1>5, <1>6, <1>7, <1>8, <1>10, <1>11, <1>12 DEF Own, Sizes
  <2>7. (up /\ Total > 0 =>
         /\ m = 0 /\ Have + Len(Line) - j >= Total
         /\ Len(c2s) = 0 \/ (Asked /\ Len(c2s) = 1 /\ c2s[1] = Sen))'
    BY <1>1, <1>3, <1>4, <1>5, <1>6, <1>7, <1>8, <1>10, <1>11, <1>12 DEF Own, Sizes
  <2> QED
    BY <2>1, <2>2, <2>3, <2>4, <2>5, <2>6, <2>7, Zenon DEF Own
<1>14. flight'.req # flight'.sen
  BY <1>1, <1>2, <1>9, Zenon DEF StreamInv
<1> QED
  BY <1>1, <1>2, <1>4, <1>5, <1>12, <1>13, <1>14, Zenon DEF StreamInv

(* What the first frame of Line can be. *)
First(p, j) ==
    /\ j > 0 => p.id # flight.req /\ p.id # flight.sen
    /\ j = 0 => /\ Total > 0
                /\ Have + 1 <= Total => p.id = flight.req /\ p.body = <<Cmd, Have + 1>>
                /\ Have + 1 > Total => p.id = flight.sen /\ Asked /\ Len(c2s) = 0 /\ Len(Line) <= Echoes

(* What readPacket of the call in flight returns from a stream that is not *)
(* torn.                                                                   *)
LEMMA HeadFirst ==
    ASSUME PeerTypeOK, CallInv, StreamInv, mu \in Callers, ~torn, pc[mu] = "read", Len(Line) > 0
    PROVE  \E j \in 0..Len(Line), m \in 0..Len(c2s) : Own(j, m) /\ First(Line[1], j)
<1>1. Sizes
  BY SizesOK, Zenon
<1>2. Total \in Nat /\ Cmd \in Nat
  BY TotalOK, Zenon
<1>3. 1 \in 1..Len(Line)
  BY <1>1 DEF Sizes
<1> DEFINE p == Line[1]
<1> HIDE DEF p
<1>4. PICK j \in 0..Len(Line), m \in 0..Len(c2s) : Own(j, m)
  BY Zenon DEF StreamInv
<1>5. Have <= Total
  BY Zenon DEF StreamInv
<1>6. CASE j > 0
  <2>1. 1 \in 1..j
    BY <1>6
  <2>2. p.id # flight.req /\ p.id # flight.sen
    BY <1>4, <2>1, Zenon DEF Own, p
  <2>3. First(p, j)
    BY <1>6, <2>2 DEF First
  <2> QED
    BY <1>4, <2>3, Zenon DEF p
<1>7. CASE j = 0
  <2>1. Total > 0
    BY <1>1, <1>2, <1>3, <1>4, <1>7 DEF Own, Sizes
  <2>2. 1 \in (j + 1)..Len(Line) /\ Have + 1 - j = Have + 1
    BY <1>1, <1>3, <1>7 DEF Sizes
  <2>3. IF Have + 1 <= Total THEN p = Frame(flight.req, Cmd, Have + 1) ELSE p.id = flight.sen
    BY <1>4, <2>2, Zenon DEF Own, p
  <2>4. Have + Len(Line) <= Total + (IF Asked /\ Len(c2s) = 0 THEN Echoes ELSE 0)
    BY <1>1, <1>4, <1>7 DEF Own, Sizes
  <2>5. Have + 1 > Total => Asked /\ Len(c2s) = 0 /\ Len(Line) <= Echoes
    BY <1>1, <1>2, <1>3, <1>5, <2>4 DEF Sizes
  <2>6. Have + 1 <= Total \/ Have + 1 > Total
    BY <1>1, <1>2 DEF Sizes
  <2>7. Have + 1 <= Total => p.id = flight.req /\ p.body = <<Cmd, Have + 1>>
    BY <2>3 DEF Frame
  <2>8. Have + 1 > Total => p.id = flight.sen
    BY <1>1, <1>2, <2>3 DEF Sizes
  <2>9. First(p, j)
    BY <1>7, <2>1, <2>5, <2>7, <2>8 DEF First
  <2> QED
    BY <1>4, <2>9 DEF p
<1> QED
  BY <1>1, <1>4, <1>6, <1>7 DEF Sizes

(* The read loops keep it: what they take for the answer is the next       *)
(* packet of it, and the sentinel's echo comes when the answer is whole.   *)
LEMMA StreamReads ==
    ASSUME NEW c \in Callers
    PROVE  PeerTypeOK /\ PeerTypeOK' /\ CallInv /\ OpenInv /\ Holder /\ StreamInv /\ Reads(c) /\ UNCHANGED
           peerVars /\ phase = "ready" => StreamInv'
(* The answer so far and one more packet of it. *)
<1>WholeMore. ASSUME NEW n \in Nat, NEW k \in Nat, NEW s \in Seq(Body), s = Whole(n, k), Len(s) = k
              PROVE  Append(s, <<n, k + 1>>) = Whole(n, k + 1) /\ Len(Append(s, <<n, k + 1>>)) = k + 1
  <2> USE <1>WholeMore
  <2>1. s \in Seq(Nat \X Nat)
    BY Zenon DEF Body
  <2>2. Len(Append(s, <<n, k + 1>>)) = k + 1
    BY <2>1
  <2>3. Whole(n, k + 1) \in Seq(Nat \X Nat) /\ Len(Whole(n, k + 1)) = k + 1
    BY DEF Whole
  <2>4. Append(s, <<n, k + 1>>) \in Seq(Nat \X Nat)
    BY <2>1
  <2>5. \A i \in 1..(k + 1) : Append(s, <<n, k + 1>>)[i] = Whole(n, k + 1)[i]
    <3> SUFFICES ASSUME NEW i \in 1..(k + 1) PROVE Append(s, <<n, k + 1>>)[i] = <<n, i>>
      BY Zenon DEF Whole
    <3>1. CASE i \in 1..k
      <4>1. Append(s, <<n, k + 1>>)[i] = s[i]
        BY <2>1, <3>1
      <4>2. s[i] = <<n, i>>
        BY <3>1, Zenon DEF Whole
      <4> QED
        BY <4>1, <4>2, Zenon
    <3>2. CASE i = k + 1
      BY <2>1, <3>2
    <3> QED
      BY <3>1, <3>2
  <2> QED
    BY <2>2, <2>3, <2>4, <2>5, SameSeq, Zenon
(* readPacket has taken a frame left from an earlier call, or the next     *)
(* packet of the answer.                                                   *)
<1>OwnTaken. ASSUME PeerTypeOK, PeerTypeOK', HeadTaken, NEW j \in Nat, NEW m \in Nat, j <= Len(Line), Own(j, m),
                    Total \in Nat, Have' \in {Have, Have + 1},
                    Have' = Have => j > 0, Have' = Have + 1 => j = 0 /\ Have + 1 <= Total,
                    flight'.req = flight.req, flight'.sen = flight.sen,
                    Cmd' = Cmd, Total' = Total, Asked' <=> Asked, Echoes' = Echoes, UNCHANGED <<c2s, up>>
             PROVE  \E i \in 0..Len(Line') : Own(i, m)'
  <2> USE <1>OwnTaken
  <2>1. Sizes /\ Sizes'
    BY SizesOK, PTL
  <2>2. Req' = Req /\ Sen' = Sen
    BY Zenon DEF Req, Sen
  <2>3. \A i \in 1..Len(Line') : i + 1 \in 1..Len(Line) /\ Line'[i] = Line[i + 1]
    BY <2>1 DEF HeadTaken, Sizes
  <2>4. Len(Line) > 0 /\ Len(Line') = Len(Line) - 1
    BY Zenon DEF HeadTaken
  <2>5. PICK h \in Nat : h = IF j > 0 THEN j - 1 ELSE 0
    OBVIOUS
  <2>6. h \in 0..Len(Line')
    BY <2>1, <2>4, <2>5 DEF Sizes
  <2>7. Own(h, m)'
    <3>1. (\A i \in 1..h : Line[i].id # flight.req /\ Line[i].id # flight.sen)'
      <4>1. \A i \in 1..h : i + 1 \in 1..j /\ i \in 1..Len(Line')
        BY <2>1, <2>5, <2>6 DEF Sizes
      <4> QED
        BY <2>3, <4>1, Zenon DEF Own
    <3>2. (\A i \in 1..m : c2s[i].id # flight.req /\ c2s[i].id # flight.sen)'
      BY Zenon DEF Own
    <3>3. (\A i \in (h + 1)..Len(Line) :
           IF Have + i - h <= Total THEN Line[i] = Frame(flight.req, Cmd, Have + i - h)
                                    ELSE Line[i].id = flight.sen)'
      <4> SUFFICES ASSUME NEW i \in (h + 1)..Len(Line')
                   PROVE  IF Have' + i - h <= Total THEN Line'[i] = Frame(flight.req, Cmd, Have' + i - h)
                                                    ELSE Line'[i].id = flight.sen
        BY Zenon
      <4>1. i \in 1..Len(Line') /\ i + 1 \in (j + 1)..Len(Line)
        BY <2>1, <2>4, <2>5 DEF Sizes
      <4>2. Have' + i - h = Have + (i + 1) - j
        <5>1. i \in Nat /\ Have \in Nat
          BY <2>1, <4>1 DEF Sizes
        <5>2. CASE j > 0
          <6>1. Have' = Have /\ h = j - 1
            BY <2>5, <5>1, <5>2
          <6> QED
            BY <5>1, <6>1
        <5>3. CASE j = 0
          <6>1. Have' = Have + 1 /\ h = 0
            BY <2>5, <5>1, <5>3
          <6> QED
            BY <5>1, <5>3, <6>1
        <5> QED
          BY <5>2, <5>3, Zenon
      <4>3. IF Have + (i + 1) - j <= Total THEN Line[i + 1] = Frame(flight.req, Cmd, Have + (i + 1) - j)
                                           ELSE Line[i + 1].id = flight.sen
        BY <4>1, Zenon DEF Own
      <4> QED
        BY <2>3, <4>1, <4>2, <4>3, Zenon
    <3>4. (Have > 0 => h = 0)' /\ (Total = 0 => h = Len(Line))'
      BY <2>1, <2>4, <2>5 DEF Own, Sizes
    <3>5. Have' + Len(Line') - h = Have + Len(Line) - j
      <4>1. Have \in Nat /\ Len(Line) \in Nat
        BY <2>1, Zenon DEF Sizes
      <4>2. CASE j > 0
        <5>1. Have' = Have /\ h = j - 1
          BY <2>5, <4>1, <4>2
        <5> QED
          BY <2>4, <4>1, <5>1
      <4>3. CASE j = 0
        <5>1. Have' = Have + 1 /\ h = 0
          BY <2>5, <4>1, <4>3
        <5> QED
          BY <2>4, <4>1, <4>3, <5>1
      <4> QED
        BY <4>2, <4>3, Zenon
    <3>6. (Have + Len(Line) - h <= Total + (IF Asked /\ Len(c2s) = 0 THEN Echoes ELSE 0))'
      BY <3>5, Zenon DEF Own
    <3>7. (up /\ Total = 0 =>
           /\ Len(c2s) = m + (IF Asked THEN 2 ELSE 1)
           /\ c2s[m + 1] = Req
           /\ Asked => c2s[m + 2] = Sen)'
      BY <2>2, Zenon DEF Own
    <3>8. (up /\ Total > 0 =>
           /\ m = 0 /\ Have + Len(Line) - h >= Total
           /\ Len(c2s) = 0 \/ (Asked /\ Len(c2s) = 1 /\ c2s[1] = Sen))'
      BY <2>2, <3>5, Zenon DEF Own
    <3> QED
      BY <3>1, <3>2, <3>3, <3>4, <3>6, <3>7, <3>8, Zenon DEF Own
  <2> QED
    BY <2>6, <2>7, Zenon
<1> SUFFICES ASSUME PeerTypeOK,
                   PeerTypeOK',
                   CallInv,
                   OpenInv,
                   Holder,
                   StreamInv,
                   Reads(c),
                   UNCHANGED peerVars,
                   phase = "ready"
             PROVE  StreamInv'
  BY Zenon
<1> SUFFICES ASSUME ~torn PROVE StreamInv'
  BY Zenon DEF StreamInv, Reads
<1>1. /\ pc[c] \in {"read", "drain"} /\ mu = c /\ mu' = c /\ Fetch
      /\ UNCHANGED <<args, mode, torn, chunks, up, mirror, c2s, id, todo>>
  BY Zenon DEF Reads, peerVars, Holder
<1>2. HeadTaken /\ \A p \in Decoded : p = Line[1]
  BY <1>1, FetchLine, Zenon
<1>3. Sizes /\ Sizes'
  BY SizesOK, PTL
<1>4. Total \in Nat /\ Cmd \in Nat /\ Cmd' = Cmd /\ Total' = Total /\ Echoes' = Echoes
  BY <1>1, TotalOK, Zenon DEF Cmd, Total, Echoes
<1>5. Len(Line) > 0 /\ Len(Line') = Len(Line) - 1 /\ Line[1].id > 0 /\ 1 \in 1..Len(Line)
  <2>1. Len(Line) > 0 /\ Len(Line') = Len(Line) - 1
    BY <1>2, Zenon DEF HeadTaken
  <2>2. Len(Line) \in Nat
    BY <1>3, Zenon DEF Sizes
  <2>3. 1 \in 1..Len(Line)
    BY <2>1, <2>2
  <2> QED
    BY <2>1, <2>3, Zenon DEF OpenInv
<1> DEFINE p == Line[1]
<1>6. \/ /\ mode = "multi" /\ pc[c] = "read" /\ p.id = flight.sen
         /\ pc' = [pc EXCEPT ![c] = "drain"] /\ flight' = flight
      \/ /\ mode = "multi" /\ pc[c] = "read" /\ p.id # flight.sen /\ Mine(p)
         /\ pc' = pc /\ flight' = [flight EXCEPT !.acc = Append(@, p.body)]
      \/ /\ mode = "idle" /\ pc[c] = "read" /\ pc' = pc
         /\ flight' = [flight EXCEPT !.first = FALSE,
                                     !.acc = IF Mine(p) THEN Append(@, p.body) ELSE @]
      \/ pc[c] = "drain" /\ UNCHANGED <<pc, flight>>
  BY <1>2, ZenonT(40) DEF Reads
<1>7. Mine(p) <=> p.id = flight.req
  BY <1>5 DEF Mine
<1> HIDE DEF p
<1>8. CASE pc[c] = "drain" /\ UNCHANGED <<pc, flight>>
  <2>1. Have' = Have
    BY <1>8, Zenon DEF Have
  <2> QED
    BY <1>1, <1>3, <1>4, <1>5, <1>8, <2>1 DEF StreamInv, Sizes, Asked
<1>9. ASSUME pc[c] = "read"
      PROVE  \E j \in 0..Len(Line), m \in 0..Len(c2s) : Own(j, m) /\ First(p, j)
  BY <1>1, <1>5, <1>9, HeadFirst, ZenonT(40) DEF p
<1>10. CASE /\ mode = "multi" /\ pc[c] = "read" /\ p.id = flight.sen
            /\ pc' = [pc EXCEPT ![c] = "drain"] /\ flight' = flight
  <2>1. pc'[mu'] = "drain" /\ Have' = Have /\ ~Asked'
    BY <1>1, <1>10, TypedParts, Zenon DEF Typed, Have, Asked
  <2>2. Asked /\ flight.req # flight.sen
    BY <1>1, <1>10, Zenon DEF Asked, StreamInv
  <2>3. Total > 0 /\ Have + 1 > Total /\ Len(c2s) = 0 /\ Len(Line) <= Echoes
    <3>1. PICK j \in 0..Len(Line), m \in 0..Len(c2s) : Own(j, m) /\ First(p, j)
      BY <1>9, <1>10, Zenon
    <3>2. Have \in Nat
      BY <1>3, Zenon DEF Sizes
    <3>3. ~(j > 0)
      BY <1>10, <3>1, Zenon DEF First
    <3>4. j = 0
      BY <3>3
    <3>5. ~(Have + 1 <= Total)
      BY <1>10, <2>2, <3>1, <3>4, Zenon DEF First
    <3>6. Have + 1 > Total
      BY <1>4, <3>2, <3>5
    <3> QED
      BY <3>1, <3>4, <3>6, Zenon DEF First
  <2>4. Have = Total
    <3>1. Have \in Nat
      BY <1>3, Zenon DEF Sizes
    <3>2. Have <= Total
      BY <1>1, Zenon DEF StreamInv
    <3> QED
      BY <1>4, <2>3, <3>1, <3>2
  <2>5. Len(Line') < Echoes'
    <3>1. Len(Line) \in Nat /\ Echoes \in Nat
      BY <1>3 DEF Sizes
    <3>2. Len(Line) <= Echoes /\ Len(Line') = Len(Line) - 1 /\ Echoes' = Echoes
      BY <1>4, <1>5, <2>3, Zenon
    <3> QED
      BY <3>1, <3>2
  <2>6. /\ flight.acc = Whole(Cmd, Have) /\ Have <= Total /\ flight.req > 0
        /\ mode = "single" => Have = 0
    BY <1>1, Zenon DEF StreamInv
  <2>7. pc'[mu'] # "sentinel" /\ mode' = "multi" /\ mode' # "single"
    BY <1>1, <1>10, <2>1, Zenon
  <2> QED
    BY <1>1, <1>4, <1>10, <2>1, <2>3, <2>4, <2>5, <2>6, <2>7, Zenon DEF StreamInv
<1>11. ASSUME mode # "single", pc[c] = "read", pc' = pc, flight'.req = flight.req, flight'.sen = flight.sen,
              mode = "multi" => p.id # flight.sen /\ p.id = flight.req,
              flight'.acc = IF p.id = flight.req THEN Append(flight.acc, p.body) ELSE flight.acc
       PROVE  StreamInv'
  <2>1. PICK j \in 0..Len(Line), m \in 0..Len(c2s) :
                Own(j, m) /\ First(p, j)
    BY <1>9, <1>11, Zenon
  <2>2. j = 0 => Have + 1 <= Total /\ p.id = flight.req /\ p.body = <<Cmd, Have + 1>>
    BY <1>3, <1>4, <1>11, <2>1 DEF First, Sizes, Asked
  <2>3. /\ j > 0 => flight'.acc = flight.acc
        /\ j = 0 => flight'.acc = Append(flight.acc, <<Cmd, Have + 1>>)
    BY <1>11, <2>1, <2>2, Zenon DEF First
  <2>4. flight.acc = Whole(Cmd, Have) /\ Have <= Total
    BY <1>1, Zenon DEF StreamInv
  <2>5. /\ j > 0 => Have' = Have
        /\ j = 0 => Have' = Have + 1 /\ flight'.acc = Whole(Cmd, Have + 1)
    <3>1. j > 0 => Have' = Have
      BY <2>3, Zenon DEF Have
    <3>2. Have = Len(flight.acc) /\ Have' = Len(flight'.acc)
      BY Zenon DEF Have
    <3>3. /\ Append(flight.acc, <<Cmd, Have + 1>>) = Whole(Cmd, Have + 1)
          /\ Len(Append(flight.acc, <<Cmd, Have + 1>>)) = Have + 1
      <4>1. /\ Cmd \in Nat /\ Have \in Nat /\ flight.acc \in Seq(Body)
            /\ flight.acc = Whole(Cmd, Have) /\ Len(flight.acc) = Have
        BY <1>3, <1>4, <2>4, <3>2, Zenon DEF Sizes
      <4> QED
        BY <4>1, <1>WholeMore, Zenon
    <3> QED
      BY <2>3, <3>1, <3>2, <3>3, Zenon
  <2>6. j \in Nat /\ m \in Nat /\ (j = 0 \/ j > 0) /\ j <= Len(Line) /\ m \in 0..Len(c2s')
    BY <1>1, <1>3 DEF Sizes
  <2>7. Asked' <=> Asked
    BY <1>1, <1>11, ZenonT(40) DEF Asked
  <2>8. \E i \in 0..Len(Line') : Own(i, m)'
    <3>1. Have \in Nat /\ Have # Have + 1
      BY <1>3 DEF Sizes
    <3>2. Have' = Have => j > 0
      BY <2>5, <2>6, <3>1, Zenon
    <3>3. Have' = Have + 1 => j = 0 /\ Have + 1 <= Total
      BY <2>2, <2>5, <2>6, <3>1, Zenon
    <3>4. Have' \in {Have, Have + 1}
      BY <2>5, <2>6, Zenon
    <3> QED
      BY <1>1, <1>2, <1>4, <1>11, <2>1, <2>6, <2>7, <3>2, <3>3, <3>4, <1>OwnTaken, Zenon
  <2>9. flight'.acc = Whole(Cmd', Have') /\ Have' <= Total'
    BY <1>4, <2>2, <2>3, <2>4, <2>5, <2>6, Zenon
  <2> QED
    BY <1>1, <1>4, <1>11, <2>6, <2>7, <2>8, <2>9, Zenon DEF StreamInv
<1>12. flight \in [req : 0..IdMax, sen : 0..IdMax, acc : Seq(Body), first : BOOLEAN]
  BY Zenon DEF PeerTypeOK, TypeOK
<1>13. CASE /\ mode = "multi" /\ pc[c] = "read" /\ p.id # flight.sen /\ Mine(p)
            /\ pc' = pc /\ flight' = [flight EXCEPT !.acc = Append(@, p.body)]
  <2>1. flight'.req = flight.req /\ flight'.sen = flight.sen /\ flight'.acc = Append(flight.acc, p.body)
    BY <1>12, <1>13, Zenon
  <2> QED
    BY <1>7, <1>11, <1>13, <2>1, Zenon
<1>14. CASE /\ mode = "idle" /\ pc[c] = "read" /\ pc' = pc
            /\ flight' = [flight EXCEPT !.first = FALSE,
                                        !.acc = IF Mine(p) THEN Append(@, p.body) ELSE @]
  <2>1. /\ flight'.req = flight.req /\ flight'.sen = flight.sen
        /\ flight'.acc = IF Mine(p) THEN Append(flight.acc, p.body) ELSE flight.acc
    BY <1>12, <1>14, Zenon
  <2> QED
    BY <1>7, <1>11, <1>14, <2>1, Zenon
<1> QED
  BY <1>6, <1>8, <1>10, <1>13, <1>14, Zenon

(* Each step of the server keeps it. *)
LEMMA StreamPeer ==
    (/\ PeerTypeOK
     /\ PeerTypeOK'
     /\ CallInv
     /\ OpenInv
     /\ Holder
     /\ StreamInv
     /\ PeerStep \/ PeerDrop
     /\ (\A c \in Callers : pc[c] # "idle" => phase = "ready")) => StreamInv'
<1>More. \A total, echoes \in Nat : /\ total <= total + echoes /\ total <= total + 0
                                   /\ total + echoes >= total /\ total + echoes <= total + echoes
  OBVIOUS
<1>Same. \A n \in Int, total \in Nat : n >= total /\ n <= total + 0 => n = total
  BY SMTT(20)
(* serveConn answers a packet left from an earlier call: its frames come   *)
(* before those of this call.                                              *)
<1>OwnOthers. ASSUME PeerTypeOK, PeerTypeOK', NEW j \in Nat, NEW m \in Nat, j <= Len(Line), m <= Len(c2s), Own(j, m),
                     up, up', Total = 0, Total' = 0, m > 0, Have = 0,
                     Len(c2s') = Len(c2s) - 1, \A i \in 1..Len(c2s') : c2s'[i] = c2s[i + 1],
                     Len(Line') >= Len(Line), \A i \in 1..Len(Line) : Line'[i] = Line[i],
                     \A i \in (Len(Line) + 1)..Len(Line') : Line'[i].id = c2s[1].id,
                     flight' = flight, Cmd' = Cmd, Have' = Have, Asked' <=> Asked, Echoes' = Echoes
              PROVE  \E h \in 0..Len(Line'), k \in 0..Len(c2s') : Own(h, k)'
  <2> USE <1>OwnOthers
  <2>1. Sizes /\ Sizes'
    BY SizesOK, PTL
  <2>2. Req' = Req /\ Sen' = Sen
    BY Zenon DEF Req, Sen
  <2>3. PICK h \in Nat, k \in Nat : h = Len(Line') /\ k = m - 1
    BY <2>1 DEF Sizes
  <2>4. h \in 0..Len(Line') /\ k \in 0..Len(c2s')
    BY <2>1, <2>3 DEF Sizes
  <2>5. j = Len(Line) /\ Len(c2s) = m + (IF Asked THEN 2 ELSE 1) /\ c2s[m + 1] = Req /\ (Asked => c2s[m + 2] = Sen)
    BY Zenon DEF Own
  <2>6. c2s[1].id # flight.req /\ c2s[1].id # flight.sen
    <3>1. 1 \in 1..m
      OBVIOUS
    <3> QED
      BY <3>1, Zenon DEF Own
  <2>7. (\A i \in 1..h : Line[i].id # flight.req /\ Line[i].id # flight.sen)'
    <3> SUFFICES ASSUME NEW i \in 1..h PROVE Line'[i].id # flight.req /\ Line'[i].id # flight.sen
      BY Zenon
    <3>1. i \in 1..j \/ i \in (Len(Line) + 1)..Len(Line')
      BY <2>1, <2>3, <2>5 DEF Sizes
    <3> QED
      BY <2>5, <2>6, <3>1, Zenon DEF Own
  <2>8. (\A i \in 1..k : c2s[i].id # flight.req /\ c2s[i].id # flight.sen)'
    <3>1. \A i \in 1..k : i + 1 \in 1..m /\ i \in 1..Len(c2s')
      BY <2>1, <2>3 DEF Sizes
    <3> QED
      BY <3>1, ZenonT(40) DEF Own
  <2>9. Len(c2s') = k + (IF Asked THEN 2 ELSE 1) /\ c2s'[k + 1] = Req /\ (Asked => c2s'[k + 2] = Sen)
    <3>1. Len(c2s') = k + (IF Asked THEN 2 ELSE 1)
      BY <2>1, <2>3, <2>5 DEF Sizes
    <3>2. k + 1 \in 1..Len(c2s') /\ (k + 1) + 1 = m + 1
      BY <2>1, <2>3, <3>1 DEF Sizes
    <3>3. Asked => k + 2 \in 1..Len(c2s') /\ (k + 2) + 1 = m + 2
      BY <2>1, <2>3, <3>1 DEF Sizes
    <3> QED
      BY <2>5, <3>1, <3>2, <3>3
  <2>10. \A i \in (h + 1)..Len(Line') : FALSE
    BY <2>3
  <2>11. Own(h, k)'
    <3>1. (\A i \in (h + 1)..Len(Line) :
             IF Have + i - h <= Total THEN Line[i] = Frame(flight.req, Cmd, Have + i - h)
                                      ELSE Line[i].id = flight.sen)'
      BY <2>10, Zenon
    <3>2. h = Len(Line') /\ ~(Have' > 0) /\ ~(Total' > 0) /\ Have' = 0 /\ Total' = 0
      BY <2>3
    <3>3. Len(Line') \in Nat /\ Echoes' \in Nat
      BY <2>1 DEF Sizes
    <3>4. (Have + Len(Line) - h <= Total + (IF Asked /\ Len(c2s) = 0 THEN Echoes ELSE 0))'
      <4>1. 0 + Len(Line') - h = 0
        BY <3>2, <3>3
      <4>2. 0 <= 0 + Echoes' /\ 0 <= 0 + 0
        BY <3>3
      <4> QED
        BY <3>2, <4>1, <4>2, Zenon
    <3>5. (up /\ Total = 0 =>
             /\ Len(c2s) = k + (IF Asked THEN 2 ELSE 1)
             /\ c2s[k + 1] = Req
             /\ Asked => c2s[k + 2] = Sen)'
      BY <2>2, <2>9, Zenon
    <3> QED
      BY <2>7, <2>8, <3>1, <3>2, <3>4, <3>5, Zenon DEF Own
  <2> QED
    BY <2>4, <2>11, Zenon
(* It runs the command of the call that holds mu and answers with all of   *)
(* its packets, in order,                                                  *)
<1>OwnRun. ASSUME PeerTypeOK, PeerTypeOK', NEW j \in Nat, j <= Len(Line), Own(j, 0),
                  up, up', Total = 0, Total' \in Nat, Total' > 0, Have = 0,
                  Len(c2s') = Len(c2s) - 1, \A i \in 1..Len(c2s') : c2s'[i] = c2s[i + 1],
                  Len(Line') = Len(Line) + Total', \A i \in 1..Len(Line) : Line'[i] = Line[i],
                  \A i \in 1..Total' : Line'[Len(Line) + i] = Frame(flight.req, Cmd, i),
                  flight' = flight, Cmd' = Cmd, Have' = Have, Asked' <=> Asked, Echoes' = Echoes
           PROVE  j \in 0..Len(Line') /\ 0 \in 0..Len(c2s') /\ Own(j, 0)'
  <2> USE <1>OwnRun
  <2>1. Sizes /\ Sizes'
    BY SizesOK, PTL
  <2>2. Req' = Req /\ Sen' = Sen
    BY Zenon DEF Req, Sen
  <2>3. j = Len(Line) /\ Len(c2s) = 0 + (IF Asked THEN 2 ELSE 1) /\ (Asked => c2s[0 + 2] = Sen)
    BY Zenon DEF Own
  <2>4. Len(c2s') = (IF Asked THEN 1 ELSE 0) /\ (Asked => c2s'[1] = Sen)
    <3>1. Len(c2s') = (IF Asked THEN 1 ELSE 0)
      BY <2>3
    <3>2. 1 \in 1..1 /\ 1 + 1 = 0 + 2
      OBVIOUS
    <3> QED
      BY <2>3, <3>1, <3>2, Zenon
  <2>5. (\A i \in 1..j : Line[i].id # flight.req /\ Line[i].id # flight.sen)'
    BY <2>3, Zenon DEF Own
  <2>6. (\A i \in (j + 1)..Len(Line) :
           IF Have + i - j <= Total THEN Line[i] = Frame(flight.req, Cmd, Have + i - j)
                                    ELSE Line[i].id = flight.sen)'
    <3> SUFFICES ASSUME NEW i \in (j + 1)..Len(Line')
                 PROVE  Have' + i - j <= Total' /\ Line'[i] = Frame(flight.req, Cmd, Have' + i - j)
      BY Zenon
    <3>1. Len(Line) \in Nat
      BY <2>1, Zenon DEF Sizes
    <3>2. i - j \in 1..Total' /\ Len(Line) + (i - j) = i /\ 0 + i - j = i - j /\ i - j <= Total'
      BY <2>3, <3>1
    <3> QED
      BY <3>2, Zenon
  <2>7. Len(Line) \in Nat /\ Len(Line') \in Nat /\ Len(c2s') \in Nat /\ Echoes' \in Nat
    BY <2>1 DEF Sizes
  <2>8. 0 + Len(Line') - j = Total' /\ Total' # 0 /\ j \in 0..Len(Line') /\ 0 \in 0..Len(c2s')
    BY <2>3, <2>7
  <2>9. Own(j, 0)'
    <3>1. (\A i \in 1..0 : c2s[i].id # flight.req /\ c2s[i].id # flight.sen)'
      OBVIOUS
    <3>2. ~(Have' > 0) /\ Have' = 0
      OBVIOUS
    <3>3. (Have + Len(Line) - j <= Total + (IF Asked /\ Len(c2s) = 0 THEN Echoes ELSE 0))'
      <4>1. Total' <= Total' + Echoes' /\ Total' <= Total' + 0
        BY <2>7, <1>More, Zenon
      <4> QED
        BY <2>8, <3>2, <4>1, Zenon
    <3>4. Have' + Len(Line') - j >= Total'
      BY <2>8
    <3>5. (Len(c2s) = 0 \/ (Asked /\ Len(c2s) = 1 /\ c2s[1] = Sen))'
      BY <2>2, <2>4, Zenon
    <3> QED
      BY <2>5, <2>6, <2>8, <3>1, <3>2, <3>3, <3>4, <3>5, Zenon DEF Own
  <2> QED
    BY <2>8, <2>9, Zenon
(* or echoes its sentinel, after the answer. *)
<1>OwnEchoed. ASSUME PeerTypeOK, PeerTypeOK', NEW j \in Nat, j <= Len(Line), Own(j, 0),
                     up, up', Total \in Nat, Total > 0, Total' = Total, Asked, Asked',
                     Len(c2s) = 1, Len(c2s') = 0,
                     Len(Line') = Len(Line) + Echoes, \A i \in 1..Len(Line) : Line'[i] = Line[i],
                     \A i \in (Len(Line) + 1)..Len(Line') : Line'[i].id = flight.sen,
                     flight' = flight, Cmd' = Cmd, Have' = Have, Echoes' = Echoes
              PROVE  j \in 0..Len(Line') /\ 0 \in 0..Len(c2s') /\ Own(j, 0)'
  <2> USE <1>OwnEchoed
  <2>1. Sizes /\ Sizes'
    BY SizesOK, PTL
  <2>2. Len(Line) \in Nat /\ Len(Line') \in Nat /\ Have \in Nat /\ Echoes \in Nat
    BY <2>1 DEF Sizes
  <2>3. Have + Len(Line) - j = Total
    <3>1. Have + Len(Line) - j >= Total
      BY Zenon DEF Own
    <3>2. Have + Len(Line) - j <= Total + (IF Asked /\ Len(c2s) = 0 THEN Echoes ELSE 0)
      BY Zenon DEF Own
    <3>3. ~(Asked /\ Len(c2s) = 0)
      OBVIOUS
    <3>4. Have + Len(Line) - j <= Total + 0
      BY <3>2, <3>3, Zenon
    <3>5. Have + Len(Line) - j \in Int
      BY <2>2
    <3> QED
      BY <3>1, <3>4, <3>5, <1>Same, Zenon
  <2>5. (\A i \in 1..j : Line[i].id # flight.req /\ Line[i].id # flight.sen)'
    <3>1. \A i \in 1..j : i \in 1..Len(Line)
      BY <2>2
    <3> QED
      BY <3>1, Zenon DEF Own
  <2>6. (\A i \in (j + 1)..Len(Line) :
           IF Have + i - j <= Total THEN Line[i] = Frame(flight.req, Cmd, Have + i - j)
                                    ELSE Line[i].id = flight.sen)'
    <3> SUFFICES ASSUME NEW i \in (j + 1)..Len(Line')
                 PROVE IF Have + i - j <= Total THEN Line'[i] = Frame(flight.req, Cmd, Have + i - j)
                                                ELSE Line'[i].id = flight.sen
      BY Zenon
    <3>1. CASE i \in (j + 1)..Len(Line)
      <4>1. i \in 1..Len(Line)
        BY <2>2, <3>1
      <4> QED
        BY <3>1, <4>1, Zenon DEF Own
    <3>2. CASE i \in (Len(Line) + 1)..Len(Line')
      <4>1. ~(Have + i - j <= Total)
        BY <2>2, <2>3, <3>2
      <4> QED
        BY <3>2, <4>1, Zenon
    <3> QED
      BY <2>2, <3>1, <3>2
  <2>7. (Have > 0 => j = 0) /\ Total # 0
    BY DEF Own
  <2>8. (\A i \in 1..0 : c2s[i].id # flight.req /\ c2s[i].id # flight.sen)'
    OBVIOUS
  <2>9. Have + Len(Line') - j = Total + Echoes
    <3> HIDE <1>OwnEchoed
    <3>1. PICK n \in Int : n = Len(Line) - j
      BY <2>2
    <3>2. Len(Line') = Len(Line) + Echoes
      BY <1>OwnEchoed, Zenon
    <3>3. Len(Line') - j = n + Echoes
      BY <2>2, <3>1, <3>2
    <3>4. Have + n = Total
      BY <2>3, <3>1, Zenon
    <3>5. Have + (n + Echoes) = (Have + n) + Echoes
      BY <2>2
    <3> QED
      BY <3>3, <3>4, <3>5, Zenon
  <2>10. Own(j, 0)'
    <3>1. (Have + Len(Line) - j <= Total + (IF Asked /\ Len(c2s) = 0 THEN Echoes ELSE 0))'
      <4>1. Total + Echoes <= Total + Echoes
        BY <2>2, <1>More, Zenon
      <4> QED
        BY <2>9, <4>1, Zenon
    <3>2. Have' + Len(Line') - j >= Total'
      <4>1. Total + Echoes >= Total
        BY <2>2, <1>More, Zenon
      <4> QED
        BY <2>9, <4>1, Zenon
    <3> QED
      BY <2>5, <2>6, <2>7, <2>8, <3>1, <3>2, Zenon DEF Own
  <2>11. j \in 0..Len(Line') /\ 0 \in 0..Len(c2s')
    BY <2>2
  <2> QED
    BY <2>10, <2>11, Zenon
(* The server is gone: a prefix of what was on the way remains. *)
<1>OwnDropped. ASSUME PeerTypeOK, PeerTypeOK', NEW j \in Nat, NEW m \in Nat, j <= Len(Line), Own(j, m),
                      ~up', Total \in Nat, Total' = Total, Have <= Total, Len(c2s') = 0,
                      Len(Line') <= Len(Line), \A i \in 1..Len(Line') : Line'[i] = Line[i],
                      flight' = flight, Cmd' = Cmd, Have' = Have, Asked' <=> Asked, Echoes' = Echoes
               PROVE  \E h \in 0..Len(Line') : 0 \in 0..Len(c2s') /\ Own(h, 0)'
  <2> USE <1>OwnDropped
  <2>1. Sizes /\ Sizes'
    BY SizesOK, PTL
  <2>2. PICK h \in Nat : h = IF j <= Len(Line') THEN j ELSE Len(Line')
    BY <2>1, Zenon DEF Sizes
  <2>3. h \in 0..Len(Line') /\ h <= j /\ (h < j => h = Len(Line'))
    BY <2>1, <2>2 DEF Sizes
  <2>4. (\A i \in 1..h : Line[i].id # flight.req /\ Line[i].id # flight.sen)'
    <3>1. \A i \in 1..h : i \in 1..Len(Line') /\ i \in 1..j
      BY <2>1, <2>3 DEF Sizes
    <3> QED
      BY <3>1 DEF Own
  <2>5. (\A i \in (h + 1)..Len(Line) :
           IF Have + i - h <= Total THEN Line[i] = Frame(flight.req, Cmd, Have + i - h)
                                    ELSE Line[i].id = flight.sen)'
    <3> SUFFICES ASSUME NEW i \in (h + 1)..Len(Line')
                 PROVE IF Have + i - h <= Total THEN Line'[i] = Frame(flight.req, Cmd, Have + i - h)
                                                ELSE Line'[i].id = flight.sen
      BY Zenon
    <3>1. h = j /\ i \in 1..Len(Line') /\ i \in (j + 1)..Len(Line)
      BY <2>1, <2>3 DEF Sizes
    <3> QED
      BY <3>1, Zenon DEF Own
  <2>6. (Have > 0 => h = 0) /\ (Total = 0 => h = Len(Line'))
    BY <2>1, <2>3 DEF Own, Sizes
  <2>7. Have + Len(Line') - h <= Total + (IF Asked THEN Echoes ELSE 0)
    <3>1. Have + Len(Line) - j <= Total + (IF Asked THEN Echoes ELSE 0)
      BY <2>1 DEF Own, Sizes
    <3>2. Len(Line') - h <= Len(Line) - j \/ Len(Line') - h = 0
      BY <2>1, <2>3 DEF Sizes
    <3> QED
      BY <2>1, <3>1, <3>2 DEF Sizes
  <2>8. (\A i \in 1..0 : c2s[i].id # flight.req /\ c2s[i].id # flight.sen)'
    OBVIOUS
  <2>9. Own(h, 0)'
    BY <2>1, <2>4, <2>5, <2>6, <2>7, <2>8, Zenon DEF Own, Sizes
  <2> QED
    BY <2>3, <2>9
<1> SUFFICES ASSUME PeerTypeOK,
                   PeerTypeOK',
                   CallInv,
                   OpenInv,
                   Holder,
                   StreamInv,
                   PeerStep \/ PeerDrop,
                   \A c \in Callers : pc[c] # "idle" => phase = "ready"
             PROVE  StreamInv'
  BY Zenon
<1>1. UNCHANGED <<mode, phase, mu, pc, args, flight, torn, id, mirror, buf>>
  BY Zenon DEF PeerStep, PeerAuth, PeerExec, PeerEcho, PeerWrite, PeerDrop, PeerRead, connVars
<1> SUFFICES ASSUME ~torn, mu \in Callers PROVE StreamInv'
  BY <1>1, Zenon DEF StreamInv
<1>2. pc[mu] \in {"sentinel", "read", "drain"} /\ phase = "ready"
  BY Zenon DEF Holder
<1>3. Sizes /\ Sizes'
  BY SizesOK, PTL
<1>4. Total \in Nat /\ Cmd \in 1..MaxCalls /\ Cmd \in Nat /\ Total = chunks[Cmd]
  BY <1>2, TotalOK, Zenon
<1>5. Cmd' = Cmd /\ Have' = Have /\ (Asked' <=> Asked) /\ Echoes' = Echoes /\ Total' = chunks'[Cmd]
  BY <1>1, Zenon DEF Cmd, Have, Asked, Echoes, Total
<1>6. /\ flight.acc = Whole(Cmd, Have) /\ Have <= Total
      /\ pc[mu] # "drain" => \E j \in 0..Len(Line), m \in 0..Len(c2s) : Own(j, m)
      /\ pc[mu] = "drain" => Have = Total /\ Total > 0 /\ Len(c2s) = 0 /\ Len(Line) < Echoes
  BY Zenon DEF StreamInv
<1>7. ASSUME pc[mu] # "drain", Total' \in Nat, Total' >= Total,
             \E j \in 0..Len(Line'), m \in 0..Len(c2s') : Own(j, m)'
      PROVE  StreamInv'
  <2>1. flight'.acc = Whole(Cmd', Have') /\ Have' <= Total'
    BY <1>1, <1>3, <1>4, <1>5, <1>6, <1>7 DEF Sizes
  <2> QED
    BY <1>1, <1>5, <1>7, <2>1, Zenon DEF StreamInv
<1>8. CASE PeerWrite
  <2>1. UNCHANGED <<chunks, c2s, up>> /\ Line' = Line
    BY <1>8, WriteLine, Zenon DEF PeerWrite
  <2> QED
    BY <1>1, <2>1, StreamSame, Zenon
<1>9. CASE PeerDrop
  <2>1. Len(Line') <= Len(Line) /\ \A i \in 1..Len(Line') : Line'[i] = Line[i]
    BY <1>9, DropLine, Zenon
  <2>2. ~up' /\ Len(c2s') = 0 /\ Total' = Total
    BY <1>5, <1>9, Zenon DEF PeerDrop, Total
  <2>3. CASE pc[mu] = "drain"
    <3>1. Len(Line') < Echoes
      <4>1. Len(Line) < Echoes
        BY <1>6, <2>3, Zenon
      <4>2. Len(Line) \in Nat /\ Len(Line') \in Nat /\ Echoes \in Nat
        BY <1>3 DEF Sizes
      <4> QED
        BY <2>1, <4>1, <4>2
    <3> QED
      BY <1>1, <1>5, <1>6, <2>2, <2>3, <3>1, Zenon DEF StreamInv
  <2>4. CASE pc[mu] # "drain"
    <3>1. PICK j \in 0..Len(Line), m \in 0..Len(c2s) : Own(j, m)
      BY <1>6, <2>4, Zenon
    <3>2. j \in Nat /\ m \in Nat /\ j <= Len(Line)
      BY <1>3 DEF Sizes
    <3>3. \E h \in 0..Len(Line') : 0 \in 0..Len(c2s') /\ Own(h, 0)'
      BY <1>1, <1>4, <1>5, <1>6, <2>1, <2>2, <3>1, <3>2, <1>OwnDropped, Zenon
    <3>4. Total' >= Total
      BY <1>4, <2>2
    <3> QED
      BY <1>4, <1>7, <2>2, <2>4, <3>3, <3>4, Zenon
  <2> QED
    BY <2>3, <2>4, Zenon
<1>10. CASE PeerAuth \/ PeerExec \/ PeerEcho
  <2>1. c2s # <<>> /\ up /\ up' /\ todo = <<>> /\ c2s' = Tail(c2s) /\ UNCHANGED s2c
    <3>1. \E q : PeerRead(q)
      BY <1>10, Zenon DEF PeerAuth, PeerExec, PeerEcho
    <3> QED
      BY <3>1 DEF PeerRead
  <2>2. c2s \in Seq(Packet)
    BY TypedParts, Zenon DEF Typed
  <2>3. /\ Len(c2s) > 0 /\ Len(c2s') = Len(c2s) - 1 /\ Head(c2s) = c2s[1] /\ 1 \in 1..Len(c2s)
        /\ \A i \in 1..Len(c2s') : i + 1 \in 1..Len(c2s) /\ c2s'[i] = c2s[i + 1]
    BY <2>1, <2>2
  <2>4. /\ Len(Line') = Len(Line) + Len(todo')
        /\ \A i \in 1..Len(Line) : Line'[i] = Line[i]
        /\ \A i \in 1..Len(todo') : Line'[Len(Line) + i] = todo'[i]
    BY <1>1, <2>1, ReplyLine, Zenon
  <2>5. pc[mu] # "drain"
    BY <1>6, <2>3
  <2>6. PICK j \in 0..Len(Line), m \in 0..Len(c2s) : Own(j, m)
    BY <1>6, <2>5, Zenon
  <2>7. j \in Nat /\ m \in Nat /\ j <= Len(Line) /\ m <= Len(c2s) /\ Len(todo') \in Nat /\ Len(Line') >= Len(Line)
    BY <1>3, <2>4 DEF Sizes
  <2>8. ASSUME \A i \in 1..Len(todo') : todo'[i].id = c2s[1].id, Total = 0, Total' = 0, m > 0
        PROVE  StreamInv'
    <3>1. \A i \in (Len(Line) + 1)..Len(Line') : Line'[i].id = c2s[1].id
      <4> SUFFICES ASSUME NEW i \in (Len(Line) + 1)..Len(Line') PROVE Line'[i].id = c2s[1].id
        BY Zenon
      <4>1. PICK k \in 1..Len(todo') : i = Len(Line) + k
        <5>1. i - Len(Line) \in 1..Len(todo') /\ Len(Line) + (i - Len(Line)) = i
          BY <1>3, <2>4, <2>7 DEF Sizes
        <5> QED
          BY <5>1, Zenon
      <4> QED
        BY <2>4, <2>8, <4>1
    <3>2. Have = 0
      BY <1>3, <1>6, <2>8 DEF Sizes
    <3>3. \E h \in 0..Len(Line'), k \in 0..Len(c2s') : Own(h, k)'
      BY <1>1, <1>5, <2>1, <2>3, <2>4, <2>6, <2>7, <2>8, <3>1, <3>2, <1>OwnOthers, ZenonT(40)
    <3> QED
      BY <1>7, <2>5, <2>8, <3>3
  <2>9. CASE PeerAuth
    BY <1>2, <2>3, <2>9 DEF PeerAuth, OpenInv, TypeAuth, TypeExecCommand, TypeResponseValue
  <2>10. CASE PeerExec
    <3>1. PICK k \in 1..MaxChunks : todo' = Reply(c2s[1], k) /\ chunks' = [chunks EXCEPT ![c2s[1].body[1]] = k]
      BY <2>3, <2>10, ZenonT(40) DEF PeerExec
    <3>2. k \in Nat /\ k > 0
      BY ExchangeAssumption
    <3>3. Len(todo') = k /\ \A i \in 1..k : todo'[i] = Frame(c2s[1].id, c2s[1].body[1], i)
      <4>1. todo' = [i \in 1..k |-> Frame(c2s[1].id, c2s[1].body[1], i)]
        BY <3>1, Zenon DEF Reply, Frame
      <4> HIDE DEF Frame
      <4> QED
        BY <3>2, <4>1
    <3>4. c2s[1].type = TypeExecCommand
      BY <2>3, <2>10, Zenon DEF PeerExec
    <3>5. Total = 0
      <4> SUFFICES ASSUME Total > 0 PROVE FALSE
        BY <1>4
      <4>1. Len(c2s) = 0 \/ c2s[1] = Sen
        BY <2>1, <2>6, Zenon DEF Own
      <4>2. c2s[1].type = TypeResponseValue
        BY <2>3, <4>1 DEF Sen
      <4> QED
        BY <3>4, <4>2 DEF TypeExecCommand, TypeResponseValue
    <3>6. /\ Len(c2s) = m + (IF Asked THEN 2 ELSE 1) /\ c2s[m + 1] = Req /\ j = Len(Line)
      BY <2>1, <2>6, <3>5, Zenon DEF Own
    <3>7. chunks \in [1..MaxCalls -> 0..MaxChunks]
      BY TypedParts, Zenon DEF Typed
    <3>8. CASE m = 0
      <4>1. c2s[1].id = flight.req /\ c2s[1].body[1] = Cmd
        BY <3>6, <3>8 DEF Req
      <4>2. Total' = k
        BY <1>4, <1>5, <3>1, <3>7, <4>1, Zenon
      <4>3. Have = 0
        BY <1>3, <1>6, <3>5 DEF Sizes
      <4>4. /\ Len(Line') = Len(Line) + Total'
            /\ \A i \in 1..Total' : Line'[Len(Line) + i] = Frame(flight.req, Cmd, i)
        BY <2>4, <3>3, <4>1, <4>2, Zenon
      <4>5. Total' \in Nat /\ Total' > 0 /\ Total' >= Total
        BY <3>2, <3>5, <4>2
      <4>6. j \in 0..Len(Line') /\ 0 \in 0..Len(c2s') /\ Own(j, 0)'
        BY <1>1, <1>5, <2>1, <2>3, <2>4, <2>6, <2>7, <3>5, <3>8, <4>3, <4>4, <4>5, <1>OwnRun, Zenon
      <4> QED
        BY <1>7, <2>5, <4>5, <4>6, Zenon
    <3>9. CASE m > 0
      <4>1. c2s[1].body[1] # Cmd
        <5>1. m + 1 \in 1..Len(c2s) /\ m + 1 # 1
          BY <2>7, <3>6, <3>9
        <5>2. c2s[m + 1].type = TypeExecCommand /\ c2s[m + 1].body[1] = Cmd
          BY <3>6 DEF Req
        <5> QED
          BY <2>3, <3>4, <5>1, <5>2, Zenon DEF CallInv
      <4>2. Total' = 0
        BY <1>4, <1>5, <3>1, <3>5, <3>7, <4>1, Zenon
      <4>3. \A i \in 1..Len(todo') : todo'[i].id = c2s[1].id
        BY <3>3 DEF Frame
      <4> QED
        BY <2>8, <3>5, <3>9, <4>2, <4>3, Zenon
    <3> QED
      BY <2>7, <3>8, <3>9
  <2>11. CASE PeerEcho
    <3>1. c2s[1].type = TypeResponseValue /\ todo' = Echo(c2s[1]) /\ chunks' = chunks
      BY <2>3, <2>11, Zenon DEF PeerEcho
    <3>2. Len(todo') = Echoes /\ \A i \in 1..Len(todo') : todo'[i].id = c2s[1].id
      BY <3>1 DEF Echo, Echoes
    <3>3. Total' = Total
      BY <1>4, <1>5, <3>1, Zenon
    <3>4. CASE Total = 0
      <4>1. c2s[m + 1].type # TypeResponseValue
        <5>1. c2s[m + 1] = Req
          BY <2>1, <2>6, <3>4, Zenon DEF Own
        <5> QED
          BY <5>1 DEF Req, TypeExecCommand, TypeResponseValue
      <4>2. m > 0
        BY <2>7, <3>1, <4>1
      <4> QED
        BY <2>8, <3>2, <3>3, <3>4, <4>2, Zenon
    <3>5. CASE Total > 0
      <4>1. m = 0 /\ Asked /\ Len(c2s) = 1 /\ c2s[1] = Sen
        BY <2>1, <2>3, <2>6, <3>5 DEF Own
      <4>2. c2s[1].id = flight.sen /\ Len(c2s') = 0
        BY <2>3, <4>1 DEF Sen
      <4>3. \A i \in (Len(Line) + 1)..Len(Line') : Line'[i].id = flight.sen
        <5> SUFFICES ASSUME NEW i \in (Len(Line) + 1)..Len(Line') PROVE Line'[i].id = flight.sen
          BY Zenon
        <5>1. PICK k \in 1..Len(todo') : i = Len(Line) + k
          <6>1. i - Len(Line) \in 1..Len(todo') /\ Len(Line) + (i - Len(Line)) = i
            BY <1>3, <2>4, <2>7 DEF Sizes
          <6> QED
            BY <6>1
        <5> QED
          BY <2>4, <3>2, <4>2, <5>1, Zenon
      <4>4. j \in 0..Len(Line') /\ 0 \in 0..Len(c2s') /\ Own(j, 0)'
        BY <1>1, <1>4, <1>5, <2>1, <2>4, <2>6, <2>7, <3>2, <3>3, <3>5, <4>1, <4>2, <4>3, <1>OwnEchoed, Zenon
      <4>5. Total' \in Nat /\ Total' >= Total
        BY <1>4, <3>3
      <4> QED
        BY <1>7, <2>5, <4>4, <4>5, Zenon
    <3> QED
      BY <1>4, <3>4, <3>5
  <2> QED
    BY <1>10, <2>9, <2>10, <2>11, Zenon
<1> QED
  BY <1>8, <1>9, <1>10, Zenon DEF PeerStep

(* Each step of the exchange keeps it. *)
LEMMA StreamStep ==
    ASSUME PeerTypeOK, PeerTypeOK', CallInv, OpenInv, Holder, StreamInv, IdsFresh, [Next]_vars,
           \A c \in Callers : pc[c] # "idle" => phase = "ready",
           \A c \in Callers : pc[c] \in {"sentinel", "drain"} => mode = "multi"
    PROVE  StreamInv'
<1>1. CASE \E c \in Callers : Begin(c) /\ UNCHANGED peerVars
  <2>1. PICK c \in Callers : Begin(c) /\ UNCHANGED peerVars
    BY <1>1, Zenon
  <2>2. /\ pc[c] = "idle" /\ UNCHANGED <<mu, torn, flight, mode, mirror, id, chunks, c2s, up, buf, s2c, todo>>
    BY <2>1, Zenon DEF Begin, netVars, peerVars
  <2>3. \A d \in Callers : d # c => pc'[d] = pc[d] /\ args'[d] = args[d]
    BY <2>1, TypedParts, Zenon DEF Begin, Typed
  <2>4. mu \in Callers => mu # c
    BY <2>2, Zenon DEF Holder
  <2> QED
    BY <2>2, <2>3, <2>4, SameLine, StreamSame, Zenon
<1>2. CASE (AuthSend \/ AuthReceive \/ AuthError) /\ UNCHANGED peerVars
  <2>1. phase # "ready" /\ mu' = mu
    BY <1>2, Zenon DEF AuthSend, AuthReceive, AuthError, OpenUnchanged
  <2>2. mu \notin Callers
    BY <2>1, Zenon DEF Holder
  <2> QED
    BY <2>1, <2>2, Zenon DEF StreamInv
<1>3. CASE (CloseStore \/ CloseSocket \/ Tick) /\ UNCHANGED peerVars
  <2>1. UNCHANGED <<mu, pc, args, torn, flight, mode, mirror, id, chunks, c2s, up, buf, s2c, todo>>
    BY <1>3, Zenon DEF CloseStore, CloseSocket, Tick, netVars, peerVars
  <2> QED
    BY <2>1, SameLine, StreamSame, ZenonT(40)
<1>4. ASSUME NEW c \in Callers, CallerStep(c), UNCHANGED peerVars PROVE StreamInv'
  <2>1. CASE Ends(c)
    <3>1. mu' = NoOne
      BY <2>1, Zenon DEF Ends, Return
    <3> QED
      BY <3>1, ConnAssumption, Zenon DEF StreamInv
  <2>2. CASE Send(c)
    BY <1>4, <2>2, StreamSend, Zenon DEF Send
  <2>3. CASE Asks(c)
    BY <1>4, <2>3, StreamAsks, Zenon DEF Asks
  <2>4. CASE Reads(c)
    BY <1>4, <2>4, StreamReads, Zenon DEF Reads
  <2> QED
    BY <1>4, <2>1, <2>2, <2>3, <2>4, StepForms, Zenon
<1>5. CASE PeerStep \/ PeerDrop
  BY <1>5, StreamPeer, Zenon
<1>6. CASE UNCHANGED vars
  BY <1>6, SameLine, StreamSame, Zenon DEF vars, connVars, netVars, peerVars
<1> QED
  BY <1>1, <1>2, <1>3, <1>4, <1>5, <1>6, Zenon DEF Next, ConnNext
=============================================================================
