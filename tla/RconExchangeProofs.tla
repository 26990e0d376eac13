------------------------- MODULE RconExchangeProofs -------------------------
(***************************************************************************)
(* Proofs about an rcon.Conn and its peer, for any number of callers and   *)
(* calls, any deadlines and any range of ids: the types, that Execute is   *)
(* exclusive and that the deadline on the socket is that of the call in    *)
(* flight; what each step does to the frames on the way; and that no       *)
(* command is on its way twice or for two callers.                         *)
(***************************************************************************)
EXTENDS RconExchange, TLAPS

Flying == {"sentinel", "read", "drain"}

(* A caller on its way through Execute holds mu, a caller at all means     *)
(* that Dial has succeeded, and the deadline is what applyContextDeadline  *)
(* computed for this caller, unless the idle window has replaced it.       *)
FlightInv ==
    /\ deadline \in Nat /\ now \in Nat \ {0} /\ calls \in Nat /\ "first" \in DOMAIN flight
    /\ pc \in [Callers -> {"idle", "lock"} \cup Flying]
    /\ args \in [Callers -> [n : Nat, dl : Nat]]
    /\ \A c \in Callers :
         /\ mu = c <=> pc[c] \in Flying
         /\ pc[c] # "idle" => phase = "ready"
         /\ pc[c] = "idle" => args[c].n = 0
         /\ pc[c] \in {"sentinel", "drain"} => mode = "multi"
    /\ DeadlineOfThisCall

(* It holds before Dial. *)
LEMMA InitFlight == Init => FlightInv
BY ConnAssumption DEF Init, ConnInit, FlightInv, Flying, DeadlineOfThisCall, NoCall, NoFlight

(* Each step of the exchange keeps it. *)
LEMMA FlightStep ==
    FlightInv /\ [Next]_vars => FlightInv'
(* Nobody is in a round-trip while mu is free or Dial is not over. *)
<1>NobodyFlies. ASSUME FlightInv, mu = NoOne \/ phase # "ready"
                PROVE  \A c \in Callers : pc[c] \notin Flying
  BY <1>NobodyFlies, ConnAssumption, Zenon DEF FlightInv, Flying
(* Execute has returned to c, which was in a round-trip or at its start. *)
<1>ReturnFlight. ASSUME FlightInv, NEW c \in Callers, pc[c] \in Flying \/ (pc[c] = "lock" /\ mu = NoOne),
                        NEW kind, NEW body, Return(c, kind, body), UNCHANGED <<mode, deadline, phase, now, calls>>
                 PROVE  FlightInv'
  <2> USE <1>ReturnFlight
  <2>1. \A d \in Callers : d # c => pc[d] \notin Flying
    BY <1>NobodyFlies, Zenon DEF FlightInv
  <2>2. pc' = [pc EXCEPT ![c] = "idle"] /\ args' = [args EXCEPT ![c] = NoCall]
        /\ "first" \in DOMAIN flight'
    BY Zenon DEF Return, NoFlight
  <2>3. NoCall \in [n : Nat, dl : Nat] /\ NoCall.n = 0
    BY Zenon DEF NoCall
  <2>4. \A d \in Callers : pc'[d] \notin Flying
    BY <2>1, <2>2, Zenon DEF FlightInv, Flying
  <2>5. DeadlineOfThisCall'
    BY <2>4, Zenon DEF DeadlineOfThisCall, Flying
  <2>6. mu' \notin Callers
    BY ConnAssumption, Zenon DEF Return
  <2>7. \A d \in Callers : pc'[d] = "idle" => args'[d].n = 0
    BY <2>2, <2>3, Zenon DEF FlightInv
  <2> QED
    BY <2>2, <2>3, <2>4, <2>5, <2>6, <2>7, Zenon DEF FlightInv, Flying
(* A step inside the round-trip of c that leaves its deadline alone. *)
<1>StayFlight. ASSUME FlightInv, NEW c \in Callers, pc[c] \in Flying,
                      NEW to \in Flying, pc' = [pc EXCEPT ![c] = to], to \in {"sentinel", "drain"} => mode = "multi",
                      "first" \in DOMAIN flight', mode = "idle" => (flight'.first => flight.first /\ rdl' = rdl),
                      mode # "idle" => rdl' = rdl,
                      UNCHANGED <<mode, deadline, phase, now, calls, args, mu>>
               PROVE  FlightInv'
  <2> USE <1>StayFlight
  <2>1. \A d \in Callers : pc'[d] = IF d = c THEN to ELSE pc[d]
    BY Zenon DEF FlightInv
  <2>2. DeadlineOfThisCall'
    BY <2>1, Zenon DEF DeadlineOfThisCall, FlightInv, Flying
  <2> QED
    BY <2>1, <2>2, Zenon DEF FlightInv, Flying
(* Each step of the Conn keeps it. *)
<1>CallerFlight. ASSUME FlightInv, NEW c \in Callers, CallerStep(c)
                 PROVE  FlightInv'
  <2> USE <1>CallerFlight
  <2>1. CASE SendClosed(c) \/ SendError(c)
    <3>1. PICK k : Return(c, k, <<>>)
      BY <2>1, Zenon DEF SendClosed, SendError
    <3> QED
      BY <2>1, <3>1, <1>ReturnFlight, Zenon DEF SendClosed, SendError
  <2>2. CASE Send(c)
    <3>1. \A d \in Callers : pc[d] \notin Flying
      BY <2>2, <1>NobodyFlies, Zenon DEF Send
    <3>2. /\ pc' = [pc EXCEPT ![c] = IF mode = "multi" THEN "sentinel" ELSE "read"]
          /\ pc[c] = "lock" /\ mu' = c /\ "first" \in DOMAIN flight'
          /\ UNCHANGED <<mode, deadline, phase, now, calls, args>>
      BY <2>2, Zenon DEF Send, NoFlight
    <3>3. rdl' = CallDeadline(args[c].dl)
      BY <2>2, Zenon DEF Send
    <3>4. args[c].dl \in Nat /\ deadline \in Nat /\ now \in Nat \ {0}
      BY Zenon DEF FlightInv
    <3>5. /\ args[c].dl # 0 => rdl' # 0 /\ rdl' <= args[c].dl
          /\ args[c].dl = 0 /\ deadline = 0 => rdl' = 0
      BY <3>3, <3>4 DEF CallDeadline
    <3>6. \A d \in Callers : pc'[d] \in Flying => d = c
      BY <3>1, <3>2, Zenon DEF FlightInv, Flying
    <3>7. DeadlineOfThisCall'
      BY <3>2, <3>5, <3>6, Zenon DEF DeadlineOfThisCall, Flying
    <3> QED
      BY <3>2, <3>6, <3>7, Zenon DEF FlightInv, Flying
  <2>3. CASE SendSentinel(c)
    <3>1. CASE \E k : Return(c, k, <<>>)
      BY <2>3, <3>1, <1>ReturnFlight, Zenon DEF SendSentinel, Flying
    <3>2. CASE pc' = [pc EXCEPT ![c] = "read"] /\ flight' = [flight EXCEPT !.sen = NextID(id)] /\ UNCHANGED <<mu, args>>
      <4>1. "first" \in DOMAIN flight' /\ mode # "idle"
        BY <2>3, <3>2, Zenon DEF SendSentinel, FlightInv
      <4> QED
        BY <2>3, <3>2, <4>1, <1>StayFlight, Zenon DEF SendSentinel, Flying
    <3> QED
      BY <2>3, <3>1, <3>2, Zenon DEF SendSentinel
  <2>4. CASE ReadSinglePacket(c) \/ ReadIdleClosed(c)
    <3>1. PICK k, body : Return(c, k, body)
      BY <2>4, Zenon DEF ReadSinglePacket, ReadIdleClosed
    <3> QED
      BY <2>4, <3>1, <1>ReturnFlight, Zenon DEF ReadSinglePacket, ReadIdleClosed, ReadUnchanged, Flying
  <2>5. CASE ReadError(c)
    <3>1. PICK k, body : Return(c, k, body)
      BY <2>5, Zenon DEF ReadError
    <3> QED
      BY <2>5, <3>1, <1>ReturnFlight, Zenon DEF ReadError, Flying
  <2>6. CASE ReadMultiPacket(c)
    <3>1. /\ mode = "multi" /\ pc[c] = "read" /\ rdl' = rdl
          /\ UNCHANGED <<mode, deadline, phase, now, calls>>
      BY <2>6, Zenon DEF ReadMultiPacket, ReadUnchanged
    <3>2. CASE \E k, body : Return(c, k, body)
      BY <3>1, <3>2, <1>ReturnFlight, Zenon DEF Flying
    <3>3. CASE pc' = [pc EXCEPT ![c] = "drain"] /\ UNCHANGED <<args, mu, flight>>
      BY <3>1, <3>3, <1>StayFlight, Zenon DEF FlightInv, Flying
    <3>4. CASE Stay /\ \E p \in Decoded : flight' = [flight EXCEPT !.acc = Append(@, p.body)]
      <4>1. pc' = [pc EXCEPT ![c] = "read"] /\ "first" \in DOMAIN flight' /\ UNCHANGED <<args, mu>>
        BY <3>1, <3>4, Zenon DEF Stay, FlightInv
      <4> QED
        BY <3>1, <4>1, <1>StayFlight, Zenon DEF Flying
    <3> QED
      BY <2>6, <3>2, <3>3, <3>4, Zenon DEF ReadMultiPacket
  <2>7. CASE ReadIdleDrain(c)
    <3>1. /\ mode = "idle" /\ pc' = [pc EXCEPT ![c] = "read"] /\ pc[c] = "read"
          /\ UNCHANGED <<mode, deadline, phase, now, calls, args, mu>>
      BY <2>7, Zenon DEF ReadIdleDrain, ReadUnchanged, Stay, FlightInv
    <3>2. "first" \in DOMAIN flight' /\ ~flight'.first
      BY <2>7, Zenon DEF ReadIdleDrain, FlightInv
    <3> QED
      BY <3>1, <3>2, <1>StayFlight, Zenon DEF Flying
  <2>8. CASE Drain(c)
    <3>1. pc[c] = "drain" /\ mode = "multi" /\ rdl' = rdl /\ UNCHANGED <<mode, deadline, phase, now, calls>>
      BY <2>8, Zenon DEF Drain, ReadUnchanged, FlightInv
    <3>2. CASE \E k, body : Return(c, k, body)
      BY <3>1, <3>2, <1>ReturnFlight, Zenon DEF Flying
    <3>3. CASE Stay /\ UNCHANGED flight
      <4>1. pc' = [pc EXCEPT ![c] = "drain"] /\ UNCHANGED <<args, mu>> /\ "first" \in DOMAIN flight'
        BY <3>1, <3>3, Zenon DEF Stay, FlightInv
      <4> QED
        BY <3>1, <4>1, <1>StayFlight, Zenon DEF Flying
    <3> QED
      BY <2>8, <3>2, <3>3, Zenon DEF Drain
  <2> QED
    BY <2>1, <2>2, <2>3, <2>4, <2>5, <2>6, <2>7, <2>8, Zenon DEF CallerStep
<1> SUFFICES ASSUME FlightInv,
                   [Next]_vars
             PROVE  FlightInv'
  BY Zenon
<1>1. CASE /\ UNCHANGED <<mode, deadline, phase, mu, now, rdl, pc, args, flight>>
           /\ calls' \in {calls, calls + 1}
  BY <1>1 DEF FlightInv, DeadlineOfThisCall, Flying
<1>2. CASE AuthSend \/ AuthReceive \/ AuthError
  <2>1. /\ phase # "ready" /\ UNCHANGED <<mode, deadline, mu, now, calls, pc, args, flight>>
    BY <1>2, Zenon DEF AuthSend, AuthReceive, AuthError, OpenUnchanged
  <2>2. \A c \in Callers : pc[c] = "idle"
    BY <2>1, Zenon DEF FlightInv
  <2> QED
    BY <2>1, <2>2, Zenon DEF FlightInv, DeadlineOfThisCall, Flying
<1>3. ASSUME NEW c \in Callers, Begin(c) PROVE FlightInv'
  <2>1. /\ phase = "ready" /\ pc[c] = "idle" /\ calls' = calls + 1
        /\ UNCHANGED <<mode, deadline, phase, mu, now, rdl, flight>>
    BY <1>3, Zenon DEF Begin
  <2>2. CASE UNCHANGED <<pc, args>>
    BY <1>1, <2>1, <2>2, Zenon
  <2>3. CASE /\ pc' = [pc EXCEPT ![c] = "lock"]
             /\ \E d \in {0} \cup {now + t : t \in CtxTimeouts} :
                  args' = [args EXCEPT ![c] = [n |-> calls + 1, dl |-> d]]
    <3>1. args' \in [Callers -> [n : Nat, dl : Nat]] /\ \A d \in Callers : d # c => args'[d] = args[d]
      <4>1. PICK t \in {0} \cup {now + u : u \in CtxTimeouts} : args' = [args EXCEPT ![c] = [n |-> calls + 1, dl |-> t]]
        BY <2>3, Zenon
      <4>2. now \in Nat /\ CtxTimeouts \subseteq Nat /\ calls \in Nat
        BY ConnAssumption, Zenon DEF FlightInv
      <4>3. t \in Nat
        <5>1. 0 \in Nat /\ \A u \in CtxTimeouts : now + u \in Nat
          BY <4>2
        <5>2. t = 0 \/ \E u \in CtxTimeouts : t = now + u
          BY Zenon
        <5> QED
          BY <5>1, <5>2, Zenon
      <4>4. args \in [Callers -> [n : Nat, dl : Nat]] /\ [n |-> calls + 1, dl |-> t] \in [n : Nat, dl : Nat]
        BY <4>2, <4>3 DEF FlightInv
      <4> QED
        BY <4>1, <4>4, Zenon
    <3>2. \A d \in Callers : pc'[d] = IF d = c THEN "lock" ELSE pc[d]
      BY <2>3, Zenon DEF FlightInv
    <3>3. DeadlineOfThisCall'
      BY <2>1, <3>1, <3>2 DEF FlightInv, DeadlineOfThisCall, Flying
    <3> QED
      BY <2>1, <2>3, <3>1, <3>2, <3>3 DEF FlightInv, Flying
  <2> QED
    BY <1>3, <2>2, <2>3, Zenon DEF Begin
<1>4. ASSUME NEW c \in Callers, CallerStep(c) PROVE FlightInv'
  BY <1>4, <1>CallerFlight, Zenon
<1>5. CASE CloseStore \/ CloseSocket
  BY <1>1, <1>5, Zenon DEF CloseStore, CloseSocket
<1>6. CASE Tick
  BY <1>6 DEF Tick, FlightInv, DeadlineOfThisCall, Flying
<1>7. CASE PeerStep \/ PeerDrop
  BY <1>1, <1>7, Zenon DEF PeerStep, PeerAuth, PeerExec, PeerEcho, PeerWrite, PeerDrop, PeerRead, connVars
<1>8. CASE UNCHANGED vars
  BY <1>1, <1>8, Zenon DEF vars, connVars
<1> QED
  BY <1>2, <1>3, <1>4, <1>5, <1>6, <1>7, <1>8, Zenon DEF Next, ConnNext

(* Whoever called before and however those calls ended, the socket waits   *)
(* no longer than the ctx of the call in flight allows, and without limit  *)
(* only if neither ctx nor WithDeadline sets one (applyContextDeadline).   *)
THEOREM DeadlineBelongsToCall == Spec => []DeadlineOfThisCall
<1>1. FlightInv => DeadlineOfThisCall
  BY Zenon DEF FlightInv
<1> QED
  BY <1>1, InitFlight, FlightStep, PTL DEF Spec

(* Execute holds mu from the write of the command to its return. *)
Holder == \A c \in Callers : mu = c <=> pc[c] \in {"sentinel", "read", "drain"}

(* The parts of FlightInv that the other invariants are proved from. *)
LEMMA FlightHolds ==
    FlightInv => /\ Holder
                 /\ \A c \in Callers : /\ pc[c] # "idle" => phase = "ready"
                                       /\ pc[c] \in {"sentinel", "drain"} => mode = "multi"
BY Zenon DEF FlightInv, Flying, Holder

-----------------------------------------------------------------------------
(* The types. *)

(* Each step of the exchange keeps the type invariant. *)
LEMMA TypeStep ==
    PeerTypeOK /\ [Next]_vars => PeerTypeOK'
(* nextID gives out a positive id in the range of an int32. *)
<1>NextIDType. ASSUME NEW i \in 0..IdMax
               PROVE  NextID(i) \in 0..IdMax /\ NextID(i) \in Nat \ {0}
  BY <1>NextIDType, ConnAssumption DEF NextID
(* The deadline of a ctx is a time. *)
<1>DeadlineType. ASSUME TypeOK, NEW d \in {0} \cup {now + t : t \in CtxTimeouts}
                 PROVE  d \in Nat
  <2> USE <1>DeadlineType
  <2>1. now \in Nat /\ \A t \in CtxTimeouts : t \in Nat
    BY ConnAssumption, Zenon DEF TypeOK
  <2>2. d = 0 \/ \E t \in CtxTimeouts : d = now + t
    BY Zenon
  <2> QED
    BY <2>1, <2>2
(* So is the one that applyContextDeadline computes from it. *)
<1>CallDeadlineType. ASSUME TypeOK, NEW d \in Nat
                     PROVE  CallDeadline(d) \in Nat
  <2> USE <1>CallDeadlineType
  <2>1. now \in Nat /\ deadline \in Nat
    BY ConnAssumption, Zenon DEF TypeOK
  <2> QED
    BY <2>1 DEF CallDeadline
(* What Conn writes is a packet among packets. *)
<1>WrittenType. ASSUME TypeOK, NEW p \in Packet
                PROVE  Written(p) \in Seq(Packet)
  BY <1>WrittenType DEF TypeOK, Written
(* So is every frame that Conn.br hands out and every one it keeps. *)
<1>FetchType. ASSUME TypeOK, Fetch
              PROVE  /\ buf' \in Seq(Packet) /\ s2c' \in Seq(Packet) /\ part' \in BOOLEAN
                     /\ \A p \in Decoded : p \in Packet
  <2> USE <1>FetchType
  <2>1. buf \in Seq(Packet) /\ s2c \in Seq(Packet) /\ part \in BOOLEAN
    BY Zenon DEF TypeOK
  <2>2. buf' \in Seq(Packet) /\ s2c' \in Seq(Packet) /\ part' \in BOOLEAN
    <3>1. CASE FetchBuffered
      BY <2>1, <3>1 DEF FetchBuffered
    <3>2. CASE FetchSocket
      <4>1. PICK k \in 1..Len(s2c) :
              /\ buf' = SubSeq(s2c, 2, k)
              /\ s2c' = SubSeq(s2c, k + 1, Len(s2c))
              /\ part' \in {FALSE, k < Len(s2c)}
        BY <3>2, Zenon DEF FetchSocket
      <4>2. k \in Int /\ Len(s2c) \in Nat /\ k <= Len(s2c) /\ 1 <= k
        BY <2>1
      <4>3. SubSeq(s2c, 2, k) \in Seq(Packet) /\ SubSeq(s2c, k + 1, Len(s2c)) \in Seq(Packet)
        BY <2>1, <4>2
      <4>4. part' \in BOOLEAN
        <5>1. part' = FALSE \/ part' = (k < Len(s2c))
          BY <4>1, Zenon
        <5>2. (k < Len(s2c)) \in BOOLEAN
          OBVIOUS
        <5> QED
          BY <5>1, <5>2, Zenon
      <4> QED
        BY <4>1, <4>3, <4>4, Zenon
    <3> QED
      BY <3>1, <3>2, Zenon DEF Fetch
  <2>3. ASSUME NEW p \in Decoded PROVE p \in Packet
    <3>1. CASE torn
      <4>1. PICK i \in {-1, 0, flight.req, flight.sen} :
              p = [id |-> i, type |-> TypeResponseValue, body |-> Garbage]
        BY <2>3, <3>1, Zenon DEF Decoded
      <4>2. i \in Int
        BY ConnAssumption DEF TypeOK
      <4> QED
        BY <4>1, <4>2, Zenon DEF Packet, Body, Garbage, TypeResponseValue
    <3>2. CASE ~torn
      <4>1. p = IF buf # <<>> THEN Head(buf) ELSE Head(s2c)
        BY <2>3, <3>2, Zenon DEF Decoded
      <4>2. buf # <<>> \/ s2c # <<>>
        BY Zenon DEF Fetch, FetchBuffered, FetchSocket
      <4> QED
        BY <2>1, <4>1, <4>2
    <3> QED
      BY <3>1, <3>2, Zenon
  <2> QED
    BY <2>2, <2>3, Zenon
(* A read fails with an error that the model knows. *)
<1>ErrorsType. ReadErrors \subseteq Kinds
  BY Zenon DEF ReadErrors, Kinds
(* A failed read leaves Conn.br well formed. *)
<1>FailType. ASSUME TypeOK, NEW k, ReadFails(k)
             PROVE  /\ torn' \in BOOLEAN /\ part' \in BOOLEAN
                    /\ buf' \in Seq(Packet) /\ s2c' \in Seq(Packet)
  BY <1>FailType, Zenon DEF ReadFails, TypeOK
(* So does Execute when it returns. *)
<1>ReturnType. ASSUME TypeOK, NEW c \in Callers, NEW kind \in Kinds, NEW body \in Seq(Body),
                      Return(c, kind, body)
               PROVE  /\ mu' \in Callers \cup {NoOne}
                      /\ pc' \in [Callers -> {"idle", "lock", "sentinel", "read", "drain"}]
                      /\ args' \in [Callers -> [n : Nat, dl : Nat]]
                      /\ flight' \in [req : 0..IdMax, sen : 0..IdMax, acc : Seq(Body), first : BOOLEAN]
                      /\ res' \in [Callers -> [n : Nat, kind : Kinds, body : Seq(Body), torn : BOOLEAN]]
  <2> USE <1>ReturnType
  <2>1. NoCall \in [n : Nat, dl : Nat]
    BY Zenon DEF NoCall
  <2>2. NoFlight \in [req : 0..IdMax, sen : 0..IdMax, acc : Seq(Body), first : BOOLEAN]
    BY ConnAssumption DEF NoFlight
  <2>3. [n |-> args[c].n, kind |-> kind, body |-> body, torn |-> torn]
          \in [n : Nat, kind : Kinds, body : Seq(Body), torn : BOOLEAN]
    <3>1. args[c].n \in Nat /\ torn \in BOOLEAN
      BY Zenon DEF TypeOK
    <3> QED
      BY <3>1, Zenon
  <2> QED
    BY <2>1, <2>2, <2>3, Zenon DEF Return, Result, TypeOK
(* Dial keeps the state well formed, *)
<1>OpenType. ASSUME TypeOK, AuthSend \/ AuthReceive \/ AuthError
             PROVE  TypeOK'
  <2> USE <1>OpenType
  <2>1. CASE AuthSend
    <3>1. PICK d \in {0} \cup {now + t : t \in CtxTimeouts} : rdl' = CallDeadline(d)
      BY <2>1, Zenon DEF AuthSend
    <3>2. rdl' \in Nat
      BY <3>1, <1>DeadlineType, <1>CallDeadlineType, Zenon
    <3>3. NextID(id) \in 0..IdMax /\ NextID(id) \in Nat \ {0}
      BY <1>NextIDType, Zenon DEF TypeOK
    <3>4. [id |-> NextID(id), type |-> TypeAuth, body |-> Empty] \in Packet
      BY <3>3, ConnAssumption DEF Packet, TypeAuth, Body, Empty
    <3>5. c2s' \in Seq(Packet)
      BY <2>1, <3>4, <1>WrittenType, Zenon DEF AuthSend
    <3> QED
      BY <2>1, <3>2, <3>3, <3>5, Zenon DEF AuthSend, OpenUnchanged, TypeOK
  <2>2. CASE AuthReceive
    <3>1. /\ buf' \in Seq(Packet) /\ s2c' \in Seq(Packet) /\ part' \in BOOLEAN
      BY <2>2, <1>FetchType, Zenon DEF AuthReceive
    <3>2. phase' \in {"auth2", "ready", "failed"} /\ sock' \in {"open", "closed"}
      BY <2>2, Zenon DEF AuthReceive, TypeOK
    <3> QED
      BY <2>2, <3>1, <3>2, Zenon DEF AuthReceive, OpenUnchanged, TypeOK
  <2>3. CASE AuthError
    <3>1. torn' \in BOOLEAN /\ part' \in BOOLEAN /\ buf' \in Seq(Packet) /\ s2c' \in Seq(Packet)
      BY <2>3, <1>FailType, Zenon DEF AuthError
    <3> QED
      BY <2>3, <3>1, Zenon DEF AuthError, OpenUnchanged, TypeOK
  <2> QED
    BY <2>1, <2>2, <2>3, Zenon
(* and so do the checks at the start of Execute, *)
<1>BeginType. ASSUME TypeOK, NEW c \in Callers, Begin(c)
              PROVE  TypeOK'
  <2> USE <1>BeginType
  <2>1. calls' \in 0..MaxCalls /\ calls + 1 \in Nat
    <3>1. calls \in 0..MaxCalls /\ MaxCalls \in Nat
      BY ConnAssumption, Zenon DEF TypeOK
    <3>2. calls < MaxCalls /\ calls' = calls + 1
      BY Zenon DEF Begin
    <3> QED
      BY <3>1, <3>2
  <2>2. CASE /\ \E d \in {0} \cup {now + t : t \in CtxTimeouts} :
                  args' = [args EXCEPT ![c] = [n |-> calls + 1, dl |-> d]]
             /\ pc' = [pc EXCEPT ![c] = "lock"] /\ UNCHANGED res
    <3>1. PICK d \in {0} \cup {now + t : t \in CtxTimeouts} :
            args' = [args EXCEPT ![c] = [n |-> calls + 1, dl |-> d]]
      BY <2>2, Zenon
    <3>2. [n |-> calls + 1, dl |-> d] \in [n : Nat, dl : Nat]
      BY <2>1, <1>DeadlineType, Zenon
    <3>3. args' \in [Callers -> [n : Nat, dl : Nat]]
      BY <3>1, <3>2, Zenon DEF TypeOK
    <3> QED
      BY <2>1, <2>2, <3>3, Zenon DEF Begin, TypeOK, netVars
  <2>3. CASE /\ \E k \in {"ErrClosed", "ErrCommandEmpty", "ErrCommandTooLong"} :
                  res' = [res EXCEPT ![c] = [n |-> calls + 1, kind |-> k, body |-> <<>>, torn |-> FALSE]]
             /\ UNCHANGED <<pc, args>>
    <3>1. PICK k \in {"ErrClosed", "ErrCommandEmpty", "ErrCommandTooLong"} :
            res' = [res EXCEPT ![c] = [n |-> calls + 1, kind |-> k, body |-> <<>>, torn |-> FALSE]]
      BY <2>3, Zenon
    <3>2. [n |-> calls + 1, kind |-> k, body |-> <<>>, torn |-> FALSE]
            \in [n : Nat, kind : Kinds, body : Seq(Body), torn : BOOLEAN]
      <4>1. k \in Kinds /\ <<>> \in Seq(Body)
        BY DEF Kinds
      <4> QED
        BY <2>1, <4>1, Zenon
    <3>3. res' \in [Callers -> [n : Nat, kind : Kinds, body : Seq(Body), torn : BOOLEAN]]
      BY <3>1, <3>2, Zenon DEF TypeOK
    <3> QED
      BY <2>1, <2>3, <3>3, Zenon DEF Begin, TypeOK, netVars
  <2> QED
    BY <2>2, <2>3, Zenon DEF Begin
(* its writes, *)
<1>SendType. ASSUME TypeOK, NEW c \in Callers, SendClosed(c) \/ SendError(c) \/ Send(c) \/ SendSentinel(c)
             PROVE  TypeOK'
  <2> USE <1>SendType
  <2>1. NextID(id) \in 0..IdMax /\ NextID(id) \in Nat \ {0} /\ args[c].dl \in Nat /\ args[c].n \in Nat
    BY <1>NextIDType, Zenon DEF TypeOK
  <2>2. CallDeadline(args[c].dl) \in Nat
    BY <2>1, <1>CallDeadlineType, Zenon
  <2>3. <<>> \in Seq(Body)
    OBVIOUS
  <2>4. CASE SendClosed(c)
    <3>1. Return(c, "net", <<>>) /\ "net" \in Kinds
      BY <2>4, Zenon DEF SendClosed, Kinds
    <3> QED
      BY <2>3, <2>4, <3>1, <1>ReturnType, ZenonT(40) DEF SendClosed, TypeOK, netVars
  <2>5. CASE SendError(c)
    <3>1. PICK k \in {"timeout", "net"} : Return(c, k, <<>>)
      BY <2>5, Zenon DEF SendError
    <3>2. k \in Kinds
      BY Zenon DEF Kinds
    <3> QED
      BY <2>1, <2>2, <2>3, <2>5, <3>1, <3>2, <1>ReturnType, ZenonT(40) DEF SendError, TypeOK, netVars
  <2>6. CASE Send(c)
    <3>1. [id |-> NextID(id), type |-> TypeExecCommand, body |-> <<args[c].n, 0>>] \in Packet
      <4>1. NextID(id) \in Int /\ <<args[c].n, 0>> \in Nat \X Nat
        BY <2>1
      <4> QED
        BY <4>1, Zenon DEF Packet, TypeExecCommand, Body
    <3>2. c2s' \in Seq(Packet)
      BY <2>6, <3>1, <1>WrittenType, Zenon DEF Send
    <3>3. flight' \in [req : 0..IdMax, sen : 0..IdMax, acc : Seq(Body), first : BOOLEAN]
      <4>1. flight' = [req |-> NextID(id), sen |-> 0, acc |-> <<>>, first |-> TRUE]
        BY <2>6, Zenon DEF Send, NoFlight
      <4>2. 0 \in 0..IdMax
        BY ConnAssumption
      <4> QED
        BY <2>1, <4>1, <4>2
    <3>4. pc' \in [Callers -> {"idle", "lock", "sentinel", "read", "drain"}]
      BY <2>6, Zenon DEF Send, TypeOK
    <3> QED
      BY <2>1, <2>2, <2>6, <3>2, <3>3, <3>4, Zenon DEF Send, TypeOK
  <2>7. CASE SendSentinel(c)
    <3>1. CASE \E k \in {"timeout", "net"} : Return(c, k, <<>>) /\ UNCHANGED c2s
      <4>1. PICK k \in {"timeout", "net"} : Return(c, k, <<>>)
        BY <3>1, Zenon
      <4>2. k \in Kinds
        BY DEF Kinds
      <4> QED
        BY <2>1, <2>3, <2>7, <3>1, <4>1, <4>2, <1>ReturnType, ZenonT(40) DEF SendSentinel, TypeOK
    <3>2. CASE /\ c2s' = Written([id |-> NextID(id), type |-> TypeResponseValue, body |-> Empty])
               /\ flight' = [flight EXCEPT !.sen = NextID(id)]
               /\ pc' = [pc EXCEPT ![c] = "read"]
               /\ UNCHANGED <<mu, args, res>>
      <4>1. [id |-> NextID(id), type |-> TypeResponseValue, body |-> Empty] \in Packet
        BY <2>1, ConnAssumption DEF Packet, TypeResponseValue, Body, Empty
      <4>2. c2s' \in Seq(Packet)
        BY <3>2, <4>1, <1>WrittenType, Zenon
      <4>3. flight' \in [req : 0..IdMax, sen : 0..IdMax, acc : Seq(Body), first : BOOLEAN]
        BY <2>1, <3>2, ConnAssumption, ZenonT(40) DEF TypeOK
      <4> QED
        BY <2>1, <2>7, <3>2, <4>2, <4>3, ZenonT(40) DEF SendSentinel, TypeOK
    <3> QED
      BY <2>7, <3>1, <3>2, Zenon DEF SendSentinel
  <2> QED
    BY <2>4, <2>5, <2>6, <2>7, Zenon
(* its reads, *)
<1>ReadType. ASSUME TypeOK, NEW c \in Callers,
                    \/ ReadSinglePacket(c) \/ ReadMultiPacket(c) \/ ReadIdleDrain(c) \/ ReadIdleClosed(c)
                    \/ Drain(c) \/ ReadError(c)
             PROVE  TypeOK'
  <2> USE <1>ReadType
  <2> DEFINE Flight == [req : 0..IdMax, sen : 0..IdMax, acc : Seq(Body), first : BOOLEAN]
  <2>1. /\ flight \in Flight /\ flight.acc \in Seq(Body)
        /\ <<>> \in Seq(Body) /\ now \in Nat /\ rdl \in Nat /\ IdleWindow \in Nat
    BY ConnAssumption DEF TypeOK
  <2>2. {"ok", "net", "ErrResponseMismatch"} \subseteq Kinds
    BY Zenon DEF Kinds
  <2>3. ASSUME NEW p \in Packet PROVE p.body \in Body /\ <<p.body>> \in Seq(Body) /\ Append(flight.acc, p.body) \in Seq(Body)
    BY <2>1, <2>3 DEF Packet
  <2>4. CASE ReadSinglePacket(c)
    <3>1. Fetch
      BY <2>4, Zenon DEF ReadSinglePacket
    <3>2. PICK p \in Decoded : Return(c, "ok", <<p.body>>) \/ Return(c, "ErrResponseMismatch", <<>>)
      BY <2>4, Zenon DEF ReadSinglePacket
    <3>3. PICK k \in Kinds, body \in Seq(Body) : Return(c, k, body)
      BY <2>1, <2>2, <2>3, <3>1, <3>2, <1>FetchType, Zenon
    <3> QED
      BY <2>4, <3>1, <3>3, <1>FetchType, <1>ReturnType, Zenon DEF ReadSinglePacket, ReadUnchanged, TypeOK
  <2>5. CASE ReadMultiPacket(c)
    <3>1. Fetch
      BY <2>5, Zenon DEF ReadMultiPacket
    <3>2. CASE pc' = [pc EXCEPT ![c] = "drain"] /\ UNCHANGED <<args, mu, res, flight>>
      BY <2>5, <3>1, <3>2, <1>FetchType, ZenonT(40) DEF ReadMultiPacket, ReadUnchanged, TypeOK
    <3>3. ASSUME NEW p \in Decoded, flight' = [flight EXCEPT !.acc = Append(@, p.body)], Stay
          PROVE  TypeOK'
      <4>1. flight' \in Flight
        BY <2>1, <2>3, <3>1, <3>3, <1>FetchType, Zenon
      <4> QED
        BY <2>5, <3>1, <3>3, <4>1, <1>FetchType, ZenonT(40) DEF ReadMultiPacket, ReadUnchanged, Stay, TypeOK
    <3>4. CASE Return(c, "ErrResponseMismatch", <<>>)
      BY <2>1, <2>2, <2>5, <3>1, <3>4, <1>FetchType, <1>ReturnType, Zenon DEF ReadMultiPacket, ReadUnchanged, TypeOK
    <3> QED
      BY <2>5, <3>2, <3>3, <3>4, Zenon DEF ReadMultiPacket
  <2>6. CASE ReadIdleDrain(c)
    <3>1. Fetch
      BY <2>6, Zenon DEF ReadIdleDrain
    <3>2. PICK p \in Decoded :
            flight' = [flight EXCEPT !.first = FALSE,
                                     !.acc = IF Mine(p) THEN Append(@, p.body) ELSE @]
      BY <2>6, Zenon DEF ReadIdleDrain
    <3>3. flight' \in Flight
      BY <2>1, <2>3, <3>1, <3>2, <1>FetchType, Zenon
    <3>4. rdl' \in Nat
      <4>1. rdl' = IF sock = "open" THEN now + IdleWindow ELSE rdl
        BY <2>6, Zenon DEF ReadIdleDrain
      <4> QED
        BY <2>1, <4>1
    <3> QED
      BY <2>6, <3>1, <3>3, <3>4, <1>FetchType, ZenonT(40) DEF ReadIdleDrain, ReadUnchanged, Stay, TypeOK
  <2>7. CASE ReadIdleClosed(c)
    BY <2>1, <2>2, <2>7, <1>ReturnType, ZenonT(40) DEF ReadIdleClosed, ReadUnchanged, TypeOK
  <2>8. CASE Drain(c)
    <3>1. CASE Return(c, "ok", flight.acc) /\ UNCHANGED <<s2c, buf, part>>
      BY <2>1, <2>2, <2>8, <3>1, <1>ReturnType, ZenonT(40) DEF Drain, ReadUnchanged, TypeOK
    <3>2. CASE Fetch /\ Stay /\ UNCHANGED flight
      BY <2>8, <3>2, <1>FetchType, ZenonT(40) DEF Drain, ReadUnchanged, Stay, TypeOK
    <3> QED
      BY <2>8, <3>1, <3>2, Zenon DEF Drain
  <2>9. CASE ReadError(c)
    <3>1. PICK k \in ReadErrors : ReadFails(k) /\ (Return(c, "ok", flight.acc) \/ Return(c, k, <<>>))
      BY <2>9, Zenon DEF ReadError
    <3>2. PICK kind \in Kinds, body \in Seq(Body) : Return(c, kind, body)
      BY <2>1, <2>2, <3>1, <1>ErrorsType, Zenon
    <3> QED
      BY <2>9, <3>1, <3>2, <1>FailType, <1>ReturnType, Zenon DEF ReadError, TypeOK
  <2> QED
    BY <2>4, <2>5, <2>6, <2>7, <2>8, <2>9, Zenon
(* and everything that the server does. *)
<1>PeerType. ASSUME PeerTypeOK, PeerStep \/ PeerDrop
             PROVE  PeerTypeOK'
  <2> USE <1>PeerType
  <2>1. /\ c2s \in Seq(Packet) /\ s2c \in Seq(Packet) /\ todo \in Seq(Packet)
        /\ chunks \in [1..MaxCalls -> 0..MaxChunks] /\ mirror \in BOOLEAN /\ authed \in BOOLEAN
    BY Zenon DEF PeerTypeOK, TypeOK
  <2>2. ASSUME c2s # <<>> PROVE Head(c2s) \in Packet /\ Tail(c2s) \in Seq(Packet)
    BY <2>1, <2>2
  <2>3. ASSUME NEW p \in Packet, NEW ok \in BOOLEAN PROVE AuthReply(p, ok) \in Seq(Packet)
    BY <2>3 DEF AuthReply, Packet, Body, Empty, TypeResponseValue, TypeAuthResponse
  <2>4. ASSUME NEW p \in Packet, NEW k \in 1..MaxChunks PROVE Reply(p, k) \in Seq(Packet)
    <3>1. k \in Nat /\ p.id \in Int /\ p.body[1] \in Nat
      BY <2>4, ExchangeAssumption DEF Packet, Body
    <3>2. \A i \in 1..k : [id |-> p.id, type |-> TypeResponseValue, body |-> <<p.body[1], i>>] \in Packet
      BY <3>1 DEF Packet, Body, TypeResponseValue
    <3>3. Reply(p, k) \in [1..k -> Packet]
      BY <3>2, Zenon DEF Reply
    <3> QED
      BY <3>1, <3>3
  <2>5. ASSUME NEW p \in Packet PROVE Echo(p) \in Seq(Packet)
    <3> DEFINE echo == [id |-> p.id, type |-> TypeResponseValue, body |-> Empty]
    <3>1. echo \in Packet
      BY <2>5, Zenon DEF Packet, Body, Empty, TypeResponseValue
    <3>2. Echo(p) = IF mirror THEN <<echo, echo>> ELSE <<echo>>
      BY Zenon DEF Echo
    <3> HIDE DEF echo
    <3> QED
      BY <3>1, <3>2
  <2> DEFINE Kept == UNCHANGED <<connVars, up, mirror>>
  <2>a. ASSUME Kept, c2s' \in Seq(Packet), s2c' \in Seq(Packet), todo' \in Seq(Packet),
               authed' \in BOOLEAN, chunks' \in [1..MaxCalls -> 0..MaxChunks]
        PROVE  PeerTypeOK'
    <3>1. mirror' \in BOOLEAN
      BY <2>1, <2>a, Zenon
    <3>2. TypeOK'
      BY <2>a, ZenonT(40) DEF PeerTypeOK, TypeOK, connVars
    <3> QED
      BY <2>a, <3>1, <3>2, Zenon DEF PeerTypeOK
  <2>6. CASE PeerAuth
    <3>1. PICK ok \in BOOLEAN : todo' = AuthReply(Head(c2s), ok) /\ authed' = ok
      BY <2>6, Zenon DEF PeerAuth
    <3>2. c2s # <<>> /\ c2s' = Tail(c2s) /\ Kept /\ UNCHANGED <<s2c, chunks>>
      BY <2>6, Zenon DEF PeerAuth, PeerRead
    <3>3. c2s' \in Seq(Packet) /\ todo' \in Seq(Packet) /\ authed' \in BOOLEAN
      BY <2>2, <2>3, <3>1, <3>2, Zenon
    <3> QED
      BY <2>1, <2>a, <3>2, <3>3, Zenon
  <2>7. CASE PeerExec
    <3>1. PICK k \in 1..MaxChunks : /\ todo' = Reply(Head(c2s), k)
                                    /\ chunks' = [chunks EXCEPT ![Head(c2s).body[1]] = k]
      BY <2>7, Zenon DEF PeerExec
    <3>2. k \in 0..MaxChunks /\ c2s # <<>>
      BY <2>7, ExchangeAssumption DEF PeerExec
    <3>3. todo' \in Seq(Packet) /\ chunks' \in [1..MaxCalls -> 0..MaxChunks]
      BY <2>1, <2>2, <2>4, <3>1, <3>2, Zenon
    <3> QED
      BY <2>1, <2>2, <2>7, <2>a, <3>2, <3>3, Zenon DEF PeerExec, PeerRead
  <2>8. CASE PeerEcho
    BY <2>1, <2>2, <2>5, <2>8, <2>a, Zenon DEF PeerEcho, PeerRead
  <2>9. CASE PeerWrite
    <3>1. s2c' \in Seq(Packet) /\ todo' \in Seq(Packet)
      BY <2>1, <2>9 DEF PeerWrite
    <3> QED
      BY <2>1, <2>9, <2>a, <3>1, Zenon DEF PeerWrite
  <2>10. CASE PeerDrop
    <3>1. up' \in BOOLEAN
      BY <2>10, ZenonT(40) DEF PeerDrop
    <3>2. c2s' = <<>> /\ todo' = <<>> /\ (s2c' = s2c \/ s2c' = <<>>)
      BY <2>10, Zenon DEF PeerDrop
    <3>3. c2s' \in Seq(Packet) /\ s2c' \in Seq(Packet) /\ todo' \in Seq(Packet)
      <4>1. <<>> \in Seq(Packet)
        OBVIOUS
      <4> QED
        BY <2>1, <3>2, <4>1, Zenon
    <3>4. TypeOK'
      BY <2>10, <3>1, <3>3, Zenon DEF PeerDrop, PeerTypeOK, TypeOK, connVars
    <3> QED
      BY <2>10, <3>3, <3>4, Zenon DEF PeerDrop, PeerTypeOK
  <2> QED
    BY <2>6, <2>7, <2>8, <2>9, <2>10, Zenon DEF PeerStep
<1> SUFFICES ASSUME PeerTypeOK,
                   [Next]_vars
             PROVE  PeerTypeOK'
  BY Zenon
<1>1. CASE ConnNext /\ UNCHANGED peerVars
  <2>1. TypeOK'
    <3>1. CASE CloseStore \/ CloseSocket
      <4>1. closed' \in BOOLEAN /\ closing' \in BOOLEAN /\ sock' \in {"open", "closed"}
        BY <3>1, Zenon DEF CloseStore, CloseSocket, PeerTypeOK, TypeOK
      <4> QED
        BY <3>1, <4>1, Zenon DEF CloseStore, CloseSocket, PeerTypeOK, TypeOK, netVars
    <3>4. CASE Tick
      <4>1. now \in Nat /\ now' = now + 1
        BY <3>4, Zenon DEF Tick, PeerTypeOK, TypeOK
      <4>2. now' \in Nat
        BY <4>1
      <4> QED
        BY <3>4, <4>2, Zenon DEF Tick, PeerTypeOK, TypeOK, netVars
    <3>2. CASE AuthSend \/ AuthReceive \/ AuthError
      BY <3>2, <1>OpenType, Zenon DEF PeerTypeOK
    <3>3. ASSUME NEW c \in Callers, Begin(c) \/ CallerStep(c) PROVE TypeOK'
      BY <3>3, <1>BeginType, <1>SendType, <1>ReadType, Zenon DEF PeerTypeOK, CallerStep
    <3> QED
      BY <1>1, <3>1, <3>2, <3>3, <3>4, Zenon DEF ConnNext
  <2> QED
    BY <1>1, <2>1, Zenon DEF peerVars, PeerTypeOK
<1>2. CASE PeerStep \/ PeerDrop
  BY <1>2, <1>PeerType, Zenon
<1>3. CASE UNCHANGED vars
  <2>1. TypeOK'
    BY <1>3, Zenon DEF vars, connVars, netVars, PeerTypeOK, TypeOK
  <2> QED
    BY <1>3, <2>1, Zenon DEF vars, peerVars, PeerTypeOK
<1> QED
  BY <1>1, <1>2, <1>3, Zenon DEF Next

(* The ids stay in the range of an int32, the results are of the kinds     *)
(* that Execute can return and every frame on the way in either direction  *)
(* is a packet, whatever times out, fails or is closed.                    *)
THEOREM ExchangeTypeCorrect == Spec => []PeerTypeOK
<1>1. Init => PeerTypeOK
  <2> SUFFICES ASSUME Init PROVE PeerTypeOK
    BY Zenon
  <2>1. IdMax \in Nat /\ MaxCalls \in Nat /\ MaxChunks \in Nat
    BY ConnAssumption, ExchangeAssumption, Zenon
  <2>a. mirror \in BOOLEAN /\ authed \in BOOLEAN
    BY ExchangeAssumption, Zenon DEF Init
  <2>2. todo \in Seq(Packet) /\ chunks \in [1..MaxCalls -> 0..MaxChunks]
    BY <2>1 DEF Init
  <2>3. NoCall \in [n : Nat, dl : Nat]
    BY Zenon DEF NoCall
  <2>4. NoFlight \in [req : 0..IdMax, sen : 0..IdMax, acc : Seq(Body), first : BOOLEAN]
    BY <2>1 DEF NoFlight
  <2>5. NoResult \in [n : Nat, kind : Kinds, body : Seq(Body), torn : BOOLEAN]
    BY DEF NoResult, Kinds
  <2>6. /\ pc \in [Callers -> {"idle", "lock", "sentinel", "read", "drain"}]
        /\ args \in [Callers -> [n : Nat, dl : Nat]]
        /\ flight \in [req : 0..IdMax, sen : 0..IdMax, acc : Seq(Body), first : BOOLEAN]
        /\ res \in [Callers -> [n : Nat, kind : Kinds, body : Seq(Body), torn : BOOLEAN]]
    BY <2>3, <2>4, <2>5, Zenon DEF Init, ConnInit
  <2>7. /\ closed \in BOOLEAN /\ closing \in BOOLEAN /\ part \in BOOLEAN /\ torn \in BOOLEAN
        /\ up \in BOOLEAN
    BY Zenon DEF Init, ConnInit
  <2>8. c2s \in Seq(Packet) /\ s2c \in Seq(Packet) /\ buf \in Seq(Packet)
    BY DEF Init, ConnInit
  <2> QED
    BY <2>1, <2>2, <2>a, <2>6, <2>7, <2>8 DEF Init, ConnInit, PeerTypeOK, TypeOK
<1> QED
  BY <1>1, TypeStep, PTL DEF Spec

-----------------------------------------------------------------------------
(* The frames on their way to the client. *)

(* Two sequences with the same elements in the same places are the same. *)
LEMMA SameSeq ==
    ASSUME NEW S, NEW s \in Seq(S), NEW t \in Seq(S), Len(s) = Len(t), \A i \in 1..Len(s) : s[i] = t[i]
    PROVE  s = t
OBVIOUS

(* Line as one sequence of frames, by position. *)
LineTyped ==
    /\ buf \in Seq(Packet) /\ s2c \in Seq(Packet) /\ todo \in Seq(Packet)
    /\ c2s \in Seq(Packet) /\ Line \in Seq(Packet)
    /\ Len(Line) = Len(buf) + Len(s2c) + Len(todo)
    /\ \A i \in 1..Len(Line) :
         Line[i] = IF i <= Len(buf) THEN buf[i]
                   ELSE IF i <= Len(buf) + Len(s2c) THEN s2c[i - Len(buf)]
                   ELSE todo[i - Len(buf) - Len(s2c)]

(* PeerTypeOK gives the frames on the way to the client by position. *)
LEMMA LineType == PeerTypeOK => LineTyped
<1> SUFFICES ASSUME PeerTypeOK PROVE LineTyped
  BY Zenon
<1>1. buf \in Seq(Packet) /\ s2c \in Seq(Packet) /\ todo \in Seq(Packet) /\ c2s \in Seq(Packet)
  BY Zenon DEF PeerTypeOK, TypeOK
<1>2. /\ buf \o s2c \in Seq(Packet) /\ Len(buf \o s2c) = Len(buf) + Len(s2c)
      /\ \A i \in 1..Len(buf \o s2c) :
           (buf \o s2c)[i] = IF i <= Len(buf) THEN buf[i] ELSE s2c[i - Len(buf)]
  BY <1>1
<1> DEFINE pre == buf \o s2c
<1>3. pre \in Seq(Packet) /\ Line = pre \o todo
  BY <1>2, Zenon DEF Line
<1> HIDE DEF pre
<1>4. /\ Line \in Seq(Packet) /\ Len(Line) = Len(pre) + Len(todo)
      /\ \A i \in 1..Len(Line) : Line[i] = IF i <= Len(pre) THEN pre[i] ELSE todo[i - Len(pre)]
  BY <1>1, <1>3
<1> QED
  BY <1>1, <1>2, <1>4 DEF pre, LineTyped

(* The client has taken the first frame. *)
HeadTaken ==
    /\ Len(Line) > 0 /\ Len(Line') = Len(Line) - 1
    /\ \A i \in 1..Len(Line') : Line'[i] = Line[i + 1]

(* readPacket takes the first of them, from Conn.br or from the socket. *)
LEMMA FetchLine ==
    ASSUME PeerTypeOK, PeerTypeOK', Fetch, UNCHANGED todo
    PROVE  HeadTaken /\ (~torn => \A p \in Decoded : p = Line[1])
<1>1. LineTyped /\ LineTyped'
  BY LineType, PTL
<1>2. CASE FetchBuffered
  <2>1. buf # <<>> /\ buf' = Tail(buf) /\ s2c' = s2c
    BY <1>2, Zenon DEF FetchBuffered
  <2>2. /\ Len(buf) > 0 /\ Len(buf') = Len(buf) - 1 /\ Head(buf) = buf[1]
        /\ \A i \in 1..Len(buf') : buf'[i] = buf[i + 1]
    BY <1>1, <2>1 DEF LineTyped
  <2>3. Len(s2c) \in Nat /\ Len(todo) \in Nat /\ Len(buf) \in Nat
    BY <1>1 DEF LineTyped
  <2>4. Line[1] = Head(buf)
    BY <1>1, <2>2, <2>3 DEF LineTyped
  <2>5. HeadTaken
    <3>1. Len(Line) > 0 /\ Len(Line') = Len(Line) - 1 /\ Len(Line) \in Nat
      BY <1>1, <2>1, <2>2, <2>3 DEF LineTyped
    <3>2. ASSUME NEW i \in 1..Len(Line') PROVE Line'[i] = Line[i + 1]
      <4>1. i \in Nat /\ i + 1 \in 1..Len(Line)
        BY <3>1
      <4>2. Line[(i + 1)] = IF (i + 1) <= Len(buf) THEN buf[(i + 1)]
                   ELSE IF (i + 1) <= Len(buf) + Len(s2c) THEN s2c[(i + 1) - Len(buf)]
                   ELSE todo[(i + 1) - Len(buf) - Len(s2c)]
        BY <1>1, <4>1, Zenon DEF LineTyped
      <4>3. Line'[i] = IF i <= Len(buf') THEN buf'[i]
                   ELSE IF i <= Len(buf') + Len(s2c') THEN s2c'[i - Len(buf')]
                   ELSE todo'[i - Len(buf') - Len(s2c')]
        BY <1>1, Zenon DEF LineTyped
      <4> QED
        BY <2>1, <2>2, <2>3, <4>1, <4>2, <4>3
    <3> QED
      BY <3>1, <3>2, Zenon DEF HeadTaken
  <2> QED
    BY <2>1, <2>4, <2>5, Zenon DEF Decoded
<1>3. CASE FetchSocket
  <2>1. PICK k \in 1..Len(s2c) : buf' = SubSeq(s2c, 2, k) /\ s2c' = SubSeq(s2c, k + 1, Len(s2c))
    BY <1>3, Zenon DEF FetchSocket
  <2>2. buf = <<>> /\ s2c # <<>>
    BY <1>3, Zenon DEF FetchSocket
  <2>3. Len(s2c) \in Nat /\ Len(todo) \in Nat /\ Len(buf) = 0 /\ k \in Nat /\ 1 <= k /\ k <= Len(s2c)
    BY <1>1, <2>1, <2>2 DEF LineTyped
  <2>4. /\ Len(buf') = k - 1 /\ \A i \in 1..(k - 1) : buf'[i] = s2c[i + 1]
        /\ Len(s2c') = Len(s2c) - k /\ \A i \in 1..(Len(s2c) - k) : s2c'[i] = s2c[i + k]
    BY <1>1, <2>1, <2>3 DEF LineTyped
  <2>5. Head(s2c) = s2c[1] /\ Line[1] = s2c[1]
    <3>1. 1 \in 1..Len(Line) /\ ~(1 <= Len(buf)) /\ 1 <= Len(buf) + Len(s2c) /\ 1 - Len(buf) = 1
      BY <1>1, <2>3 DEF LineTyped
    <3>2. Line[1] = s2c[1]
      BY <1>1, <3>1, Zenon DEF LineTyped
    <3>3. s2c \in Seq(Packet)
      BY <1>1, Zenon DEF LineTyped
    <3> QED
      BY <2>2, <3>2, <3>3
  <2>6. HeadTaken
    <3>1. Len(Line) > 0 /\ Len(Line') = Len(Line) - 1 /\ Len(Line) \in Nat
      BY <1>1, <2>3, <2>4 DEF LineTyped
    <3>2. ASSUME NEW i \in 1..Len(Line') PROVE Line'[i] = Line[i + 1]
      <4>1. i \in Nat /\ i + 1 \in 1..Len(Line)
        BY <3>1
      <4>2. Line[(i + 1)] = IF (i + 1) <= Len(buf) THEN buf[(i + 1)]
                   ELSE IF (i + 1) <= Len(buf) + Len(s2c) THEN s2c[(i + 1) - Len(buf)]
                   ELSE todo[(i + 1) - Len(buf) - Len(s2c)]
        BY <1>1, <4>1, Zenon DEF LineTyped
      <4>3. Line'[i] = IF i <= Len(buf') THEN buf'[i]
                   ELSE IF i <= Len(buf') + Len(s2c') THEN s2c'[i - Len(buf')]
                   ELSE todo'[i - Len(buf') - Len(s2c')]
        BY <1>1, Zenon DEF LineTyped
      <4> QED
        BY <2>3, <2>4, <3>1, <4>1, <4>2, <4>3
    <3> QED
      BY <3>1, <3>2, Zenon DEF HeadTaken
  <2> QED
    BY <2>2, <2>5, <2>6, Zenon DEF Decoded
<1> QED
  BY <1>2, <1>3, Zenon DEF Fetch

(* serveConn writes a packet: it was on the way already. *)
LEMMA WriteLine ==
    ASSUME PeerTypeOK, PeerTypeOK', PeerWrite
    PROVE  Line' = Line
<1>1. LineTyped /\ LineTyped'
  BY LineType, PTL
<1>2. todo # <<>> /\ todo' = Tail(todo) /\ s2c' = Append(s2c, Head(todo)) /\ buf' = buf
  BY Zenon DEF PeerWrite, connVars
<1>3. /\ Len(todo) > 0 /\ Len(todo') = Len(todo) - 1 /\ Head(todo) = todo[1]
      /\ \A i \in 1..Len(todo') : todo'[i] = todo[i + 1]
      /\ Len(s2c') = Len(s2c) + 1 /\ s2c'[Len(s2c) + 1] = todo[1]
      /\ \A i \in 1..Len(s2c) : s2c'[i] = s2c[i]
  BY <1>1, <1>2 DEF LineTyped
<1>4. Len(s2c) \in Nat /\ Len(todo) \in Nat /\ Len(buf) \in Nat
  BY <1>1 DEF LineTyped
<1>5. Len(Line') = Len(Line)
  BY <1>1, <1>2, <1>3, <1>4 DEF LineTyped
<1>6. \A i \in 1..Len(Line) : Line'[i] = Line[i]
  <2> SUFFICES ASSUME NEW i \in 1..Len(Line) PROVE Line'[i] = Line[i]
    BY Zenon
  <2>1. i \in Nat /\ i >= 1 /\ i <= Len(buf) + Len(s2c) + Len(todo)
    BY <1>1, <1>4 DEF LineTyped
  <2>2. Line[i] = IF i <= Len(buf) THEN buf[i]
                   ELSE IF i <= Len(buf) + Len(s2c) THEN s2c[i - Len(buf)]
                   ELSE todo[i - Len(buf) - Len(s2c)]
    BY <1>1, Zenon DEF LineTyped
  <2>3. Line'[i] = IF i <= Len(buf') THEN buf'[i]
                   ELSE IF i <= Len(buf') + Len(s2c') THEN s2c'[i - Len(buf')]
                   ELSE todo'[i - Len(buf') - Len(s2c')]
    BY <1>1, <1>5, Zenon DEF LineTyped
  <2> QED
    BY <1>2, <1>3, <1>4, <2>1, <2>2, <2>3, SMTT(30)
<1>7. Line \in Seq(Packet) /\ Line' \in Seq(Packet)
  BY <1>1, Zenon DEF LineTyped
<1> QED
  BY <1>5, <1>6, <1>7, SameSeq, Zenon

(* The server has worked out what to write for the packet it has read. *)
LEMMA ReplyLine ==
    ASSUME PeerTypeOK, PeerTypeOK', todo = <<>>, UNCHANGED <<buf, s2c>>
    PROVE  /\ Len(Line') = Len(Line) + Len(todo')
           /\ \A i \in 1..Len(Line) : Line'[i] = Line[i]
           /\ \A i \in 1..Len(todo') : Line'[Len(Line) + i] = todo'[i]
<1>1. LineTyped /\ LineTyped'
  BY LineType, PTL
<1>2. Len(s2c) \in Nat /\ Len(todo) = 0 /\ Len(buf) \in Nat /\ Len(todo') \in Nat
  BY <1>1 DEF LineTyped
<1>3. Len(Line') = Len(Line) + Len(todo') /\ Len(Line) = Len(buf) + Len(s2c)
  BY <1>1, <1>2 DEF LineTyped
<1>4. ASSUME NEW i \in 1..Len(Line) PROVE Line'[i] = Line[i]
  <2>1. i \in Nat /\ i \in 1..Len(Line') /\ i <= Len(buf) + Len(s2c)
    BY <1>2, <1>3
  <2> QED
    BY <1>1, <1>2, <1>3, <2>1, Zenon DEF LineTyped
<1>5. ASSUME NEW i \in 1..Len(todo') PROVE Line'[Len(Line) + i] = todo'[i]
  <2>1. Len(Line) + i \in 1..Len(Line') /\ i \in Nat /\ i >= 1
    BY <1>2, <1>3
  <2>2. Line'[(Len(Line) + i)] = IF (Len(Line) + i) <= Len(buf') THEN buf'[(Len(Line) + i)]
                   ELSE IF (Len(Line) + i) <= Len(buf') + Len(s2c') THEN s2c'[(Len(Line) + i) - Len(buf')]
                   ELSE todo'[(Len(Line) + i) - Len(buf') - Len(s2c')]
    BY <1>1, <2>1, Zenon DEF LineTyped
  <2> QED
    BY <1>2, <1>3, <2>1, <2>2
<1> QED
  BY <1>3, <1>4, <1>5, Zenon

(* When the server is gone, what it had not written and perhaps what the   *)
(* client had not read are lost: a prefix remains.                         *)
LEMMA DropLine ==
    ASSUME PeerTypeOK, PeerTypeOK', PeerDrop
    PROVE  Len(Line') <= Len(Line) /\ \A i \in 1..Len(Line') : Line'[i] = Line[i]
<1>1. LineTyped /\ LineTyped'
  BY LineType, PTL
<1>2. todo' = <<>> /\ (s2c' = s2c \/ s2c' = <<>>) /\ buf' = buf
  BY Zenon DEF PeerDrop, connVars
<1>3. Len(s2c) \in Nat /\ Len(todo) \in Nat /\ Len(buf) \in Nat /\ Len(todo') = 0
  BY <1>1, <1>2 DEF LineTyped
<1>4. s2c' = s2c \/ Len(s2c') = 0
  BY <1>2
<1>5. Len(Line') <= Len(Line) /\ Len(Line) \in Nat /\ Len(Line') \in Nat
  BY <1>1, <1>2, <1>3, <1>4 DEF LineTyped
<1>6. ASSUME NEW i \in 1..Len(Line') PROVE Line'[i] = Line[i]
  <2>1. i \in Nat /\ i \in 1..Len(Line) /\ i <= Len(buf) + Len(s2c')
    BY <1>1, <1>2, <1>3, <1>5 DEF LineTyped
  <2>2. Line[i] = IF i <= Len(buf) THEN buf[i]
                   ELSE IF i <= Len(buf) + Len(s2c) THEN s2c[i - Len(buf)]
                   ELSE todo[i - Len(buf) - Len(s2c)]
    BY <1>1, <2>1, Zenon DEF LineTyped
  <2>3. Line'[i] = IF i <= Len(buf') THEN buf'[i]
                   ELSE IF i <= Len(buf') + Len(s2c') THEN s2c'[i - Len(buf')]
                   ELSE todo'[i - Len(buf') - Len(s2c')]
    BY <1>1, Zenon DEF LineTyped
  <2> QED
    BY <1>2, <1>3, <1>4, <2>1, <2>2, <2>3
<1> QED
  BY <1>5, <1>6, Zenon

(* A step that moves no frame. *)
LEMMA SameLine == UNCHANGED <<buf, s2c, todo>> => Line' = Line
BY Zenon DEF Line

(* The types that the lemmas below keep needing, of a state and the next. *)
Typed ==
    /\ c2s \in Seq(Packet) /\ Len(c2s) \in Nat
    /\ pc \in [Callers -> {"idle", "lock", "sentinel", "read", "drain"}]
    /\ args \in [Callers -> [n : Nat, dl : Nat]]
    /\ phase \in {"dial", "auth1", "auth2", "ready", "failed"}
    /\ calls \in Nat /\ MaxCalls \in Nat /\ IdMax \in Nat /\ MaxChunks \in Nat
    /\ chunks \in [1..MaxCalls -> 0..MaxChunks]

(* PeerTypeOK gives them. *)
LEMMA TypedParts == PeerTypeOK => Typed
<1> SUFFICES ASSUME PeerTypeOK PROVE Typed
  OBVIOUS
<1>1. MaxCalls \in Nat /\ IdMax \in Nat /\ MaxChunks \in Nat
  BY ConnAssumption, ExchangeAssumption, Zenon
<1>2. /\ c2s \in Seq(Packet) /\ calls \in 0..MaxCalls
      /\ pc \in [Callers -> {"idle", "lock", "sentinel", "read", "drain"}]
      /\ args \in [Callers -> [n : Nat, dl : Nat]]
      /\ phase \in {"dial", "auth1", "auth2", "ready", "failed"}
      /\ chunks \in [1..MaxCalls -> 0..MaxChunks]
  BY Zenon DEF PeerTypeOK, TypeOK
<1>3. Len(c2s) \in Nat /\ calls \in Nat
  BY <1>1, <1>2
<1> QED
  BY <1>1, <1>2, <1>3, Zenon DEF Typed

(* Where the packets of c2s are after one was written. *)
LEMMA WrittenAt ==
    ASSUME PeerTypeOK, NEW p, c2s' = Written(p)
    PROVE  \/ ~up /\ c2s' = c2s
           \/ /\ up /\ Len(c2s') = Len(c2s) + 1 /\ c2s'[Len(c2s) + 1] = p
              /\ \A i \in 1..Len(c2s) : c2s'[i] = c2s[i]
<1>1. c2s \in Seq(Packet)
  BY Zenon DEF PeerTypeOK, TypeOK
<1> QED
  BY <1>1 DEF Written

-----------------------------------------------------------------------------
(* The steps of Execute, by what they do to the stream. *)

(* How a step of Execute may end it: with or without a frame taken. *)
Ends(c) ==
    /\ pc[c] # "idle" /\ \E kind, body : Return(c, kind, body)
    /\ id' = id \/ (pc[c] \in {"lock", "sentinel"} /\ id' = NextID(id))
    /\ UNCHANGED <<mode, phase, calls, c2s, up>>
    /\ Fetch \/ UNCHANGED <<buf, s2c>>

(* The ways in which it goes on. *)
Asks(c) ==
    /\ pc[c] = "sentinel" /\ id' = NextID(id)
    /\ c2s' = Written([id |-> NextID(id), type |-> TypeResponseValue, body |-> Empty])
    /\ flight' = [flight EXCEPT !.sen = NextID(id)]
    /\ pc' = [pc EXCEPT ![c] = "read"]
    /\ UNCHANGED <<mode, phase, mu, args, res, calls, s2c, buf, torn, up>>

Reads(c) ==
    /\ Fetch
    /\ \E p \in Decoded :
         \/ /\ mode = "multi" /\ pc[c] = "read" /\ p.id = flight.sen
            /\ pc' = [pc EXCEPT ![c] = "drain"] /\ flight' = flight
         \/ /\ mode = "multi" /\ pc[c] = "read" /\ p.id # flight.sen /\ Mine(p)
            /\ pc' = pc /\ flight' = [flight EXCEPT !.acc = Append(@, p.body)]
         \/ /\ mode = "idle" /\ pc[c] = "read" /\ pc' = pc
            /\ flight' = [flight EXCEPT !.first = FALSE,
                                        !.acc = IF Mine(p) THEN Append(@, p.body) ELSE @]
         \/ pc[c] = "drain" /\ UNCHANGED <<pc, flight>>
    /\ UNCHANGED <<mode, phase, mu, id, args, res, calls, c2s, torn, up>>

(* A step of Execute ends the call, writes the command, writes the         *)
(* sentinel or takes a frame and goes on.                                  *)
LEMMA StepForms ==
    ASSUME NEW c \in Callers, CallerStep(c)
    PROVE  Ends(c) \/ Send(c) \/ Asks(c) \/ Reads(c)
<1>1. CASE SendClosed(c) \/ SendError(c)
  <2>1. \E kind : Return(c, kind, <<>>)
    BY <1>1, Zenon DEF SendClosed, SendError
  <2> QED
    BY <1>1, <2>1, Zenon DEF SendClosed, SendError, Ends, netVars
<1>2. CASE SendSentinel(c)
  BY <1>2, Zenon DEF SendSentinel, Ends, Asks
<1>3. CASE ReadSinglePacket(c)
  BY <1>3, Zenon DEF ReadSinglePacket, Ends, ReadUnchanged
<1>4. CASE ReadMultiPacket(c)
  <2>1. PICK p \in Decoded :
         \/ /\ p.id = flight.sen
            /\ pc' = [pc EXCEPT ![c] = "drain"]
            /\ UNCHANGED <<args, mu, res, flight>>
         \/ /\ p.id # flight.sen /\ Mine(p)
            /\ flight' = [flight EXCEPT !.acc = Append(@, p.body)]
            /\ Stay
         \/ /\ p.id # flight.sen /\ ~Mine(p)
            /\ Return(c, "ErrResponseMismatch", <<>>)
    BY <1>4, Zenon DEF ReadMultiPacket
  <2>2. mode = "multi" /\ pc[c] = "read" /\ Fetch /\ UNCHANGED <<mode, phase, id, calls, c2s, torn, up>>
    BY <1>4, Zenon DEF ReadMultiPacket, ReadUnchanged
  <2>3. CASE Return(c, "ErrResponseMismatch", <<>>)
    BY <2>2, <2>3, Zenon DEF Ends
  <2> QED
    BY <2>1, <2>2, <2>3, Zenon DEF Reads, Stay
<1>5. CASE ReadIdleDrain(c)
  BY <1>5, Zenon DEF ReadIdleDrain, Reads, ReadUnchanged, Stay
<1>6. CASE ReadIdleClosed(c)
  BY <1>6, Zenon DEF ReadIdleClosed, Ends, ReadUnchanged
<1>7. CASE Drain(c)
  <2>1. Decoded # {}
    BY ZenonT(40) DEF Decoded
  <2>2. pc[c] = "drain" /\ UNCHANGED <<mode, phase, id, calls, c2s, torn, up>>
    BY <1>7, Zenon DEF Drain, ReadUnchanged
  <2>3. CASE Return(c, "ok", flight.acc) /\ UNCHANGED <<s2c, buf, part>>
    BY <2>2, <2>3, Zenon DEF Ends
  <2>4. CASE Fetch /\ Stay /\ UNCHANGED flight
    BY <2>1, <2>2, <2>4, Zenon DEF Reads, Stay
  <2> QED
    BY <1>7, <2>3, <2>4, Zenon DEF Drain
<1>8. CASE ReadError(c)
  <2>1. \E kind, body : Return(c, kind, body)
    BY <1>8, Zenon DEF ReadError
  <2>2. pc[c] # "idle" /\ UNCHANGED <<mode, phase, calls, c2s, up, buf, s2c>>
    BY <1>8, Zenon DEF ReadError, ReadFails
  <2>3. id' = id
    BY <1>8, Zenon DEF ReadError
  <2> QED
    BY <2>1, <2>2, <2>3, Zenon DEF Ends
<1> QED
  BY <1>1, <1>2, <1>3, <1>4, <1>5, <1>6, <1>7, <1>8, Zenon DEF CallerStep

(* A call that has not got mu returns with an error, and no call returns   *)
(* without a verdict.                                                      *)
LEMMA ReturnKind ==
    ASSUME NEW c \in Callers, PeerTypeOK, CallerStep(c), NEW kind, NEW body, Return(c, kind, body)
    PROVE  kind # "none" /\ (pc[c] = "lock" => mu = NoOne /\ kind # "ok")
<1>1. c \in DOMAIN res /\ c \in DOMAIN pc
  BY Zenon DEF PeerTypeOK, TypeOK
<1>2. \A k, b : Return(c, k, b) => k = kind
  <2>1. \A k, b : Return(c, k, b) => res'[c].kind = k
    BY <1>1, Zenon DEF Return, Result
  <2> QED
    BY <2>1, Zenon
<1>3. pc'[c] = "idle"
  BY <1>1, Zenon DEF Return
<1>4. CASE SendClosed(c) \/ SendError(c)
  <2>1. kind \in {"net", "timeout"} /\ mu = NoOne
    BY <1>2, <1>4, Zenon DEF SendClosed, SendError
  <2> QED
    BY <2>1, Zenon
<1>5. CASE Send(c)
  BY <1>1, <1>3, <1>5, Zenon DEF Send
<1>6. CASE SendSentinel(c)
  BY <1>1, <1>2, <1>3, <1>6, Zenon DEF SendSentinel
<1>7. CASE ReadSinglePacket(c)
  BY <1>2, <1>7, Zenon DEF ReadSinglePacket
<1>8. CASE ReadMultiPacket(c)
  BY <1>1, <1>2, <1>3, <1>8, Zenon DEF ReadMultiPacket, Stay
<1>9. CASE ReadIdleDrain(c)
  BY <1>3, <1>9, Zenon DEF ReadIdleDrain, Stay
<1>10. CASE ReadIdleClosed(c)
  BY <1>2, <1>10, Zenon DEF ReadIdleClosed
<1>11. CASE Drain(c)
  BY <1>2, <1>3, <1>11, Zenon DEF Drain, Stay
<1>12. CASE ReadError(c)
  <2>1. \A k \in ReadErrors : k \in {"net", "timeout", "eof", "unexpectedEOF", "frame"}
    BY Zenon DEF ReadErrors
  <2>2. \E k \in ReadErrors : Return(c, "ok", flight.acc) \/ Return(c, k, <<>>)
    BY <1>12, Zenon DEF ReadError
  <2>3. pc[c] # "lock"
    BY <1>12, Zenon DEF ReadError
  <2> QED
    BY <1>2, <2>1, <2>2, <2>3, Zenon
<1> QED
  BY <1>4, <1>5, <1>6, <1>7, <1>8, <1>9, <1>10, <1>11, <1>12, Zenon DEF CallerStep

(* nextID is never 0 and never -1, the id of a refused login. *)
LEMMA NextIDPositive ==
    ASSUME PeerTypeOK
    PROVE  NextID(id) \in Nat /\ NextID(id) > 0
<1>1. id \in Nat /\ IdMax \in Nat
  BY ConnAssumption DEF PeerTypeOK, TypeOK
<1> QED
  BY <1>1 DEF NextID

-----------------------------------------------------------------------------
(* Which command is whose. *)

CallInv ==
    /\ \A c \in Callers : pc[c] # "idle" => args[c].n \in 1..calls
    /\ \A c, d \in Callers : c # d /\ pc[c] # "idle" /\ pc[d] # "idle" => args[c].n # args[d].n
    /\ \A c \in Callers : pc[c] = "lock" =>
         /\ chunks[args[c].n] = 0
         /\ \A i \in 1..Len(c2s) : c2s[i].type = TypeExecCommand => c2s[i].body[1] # args[c].n
    /\ \A i \in 1..Len(c2s) : c2s[i].type = TypeExecCommand =>
         c2s[i].body[1] \in 1..calls /\ chunks[c2s[i].body[1]] = 0
    /\ \A i, k \in 1..Len(c2s) :
         i # k /\ c2s[i].type = TypeExecCommand /\ c2s[k].type = TypeExecCommand =>
           c2s[i].body[1] # c2s[k].body[1]
    /\ \A n \in 1..MaxCalls : n > calls => chunks[n] = 0

(* Nobody has called before Dial. *)
LEMMA CallInit == Init => CallInv
BY ConnAssumption DEF Init, ConnInit, CallInv

(* No step has two calls, or two packets on the way, with one command. *)
LEMMA CallStep ==
    PeerTypeOK /\ PeerTypeOK' /\ CallInv /\ [Next]_vars => CallInv'
(* Commands may have left the way to the server, none has come. *)
<1>CallKept. ASSUME PeerTypeOK, PeerTypeOK', CallInv, calls' = calls, chunks' = chunks,
                    \A d \in Callers : pc'[d] # "idle" =>
                        pc[d] # "idle" /\ args'[d] = args[d] /\ (pc'[d] = "lock" => pc[d] = "lock"),
                    NEW t \in {0, 1},
                    \A i \in 1..Len(c2s') : c2s'[i].type = TypeExecCommand =>
                        i + t \in 1..Len(c2s) /\ c2s'[i] = c2s[i + t]
             PROVE  CallInv'
  <2> USE <1>CallKept
  <2>1. Len(c2s) \in Nat /\ Len(c2s') \in Nat
    <3>1. Typed /\ Typed'
      BY TypedParts, PTL
    <3> QED
      BY <3>1, Zenon DEF Typed
  <2>2. (\A c \in Callers : pc[c] # "idle" => args[c].n \in 1..calls)'
    BY Zenon DEF CallInv
  <2>3. (\A c, d \in Callers : c # d /\ pc[c] # "idle" /\ pc[d] # "idle" => args[c].n # args[d].n)'
    <3> SUFFICES ASSUME NEW c \in Callers, NEW d \in Callers, c # d, pc'[c] # "idle", pc'[d] # "idle"
                 PROVE  args'[c].n # args'[d].n
      BY Zenon
    <3>1. pc[c] # "idle" /\ args'[c] = args[c] /\ pc[d] # "idle" /\ args'[d] = args[d]
      BY Zenon
    <3>2. args[c].n # args[d].n
      BY <3>1, Zenon DEF CallInv
    <3> QED
      BY <3>1, <3>2, Zenon
  <2>4. (\A c \in Callers : pc[c] = "lock" =>
           /\ chunks[args[c].n] = 0
           /\ \A i \in 1..Len(c2s) : c2s[i].type = TypeExecCommand => c2s[i].body[1] # args[c].n)'
    <3> SUFFICES ASSUME NEW c \in Callers, pc'[c] = "lock"
                 PROVE  /\ chunks'[args'[c].n] = 0
                        /\ \A i \in 1..Len(c2s') : c2s'[i].type = TypeExecCommand => c2s'[i].body[1] # args'[c].n
      BY Zenon
    <3>1. pc[c] = "lock" /\ args'[c] = args[c]
      <4>1. pc'[c] # "idle"
        BY Zenon
      <4> QED
        BY <4>1, Zenon
    <3>2. /\ chunks[args[c].n] = 0
          /\ \A i \in 1..Len(c2s) : c2s[i].type = TypeExecCommand => c2s[i].body[1] # args[c].n
      BY <3>1, Zenon DEF CallInv
    <3> QED
      BY <3>1, <3>2, Zenon
  <2>5. (\A i \in 1..Len(c2s) : c2s[i].type = TypeExecCommand =>
           c2s[i].body[1] \in 1..calls /\ chunks[c2s[i].body[1]] = 0)'
    <3> SUFFICES ASSUME NEW i \in 1..Len(c2s'), c2s'[i].type = TypeExecCommand
                 PROVE  c2s'[i].body[1] \in 1..calls /\ chunks[c2s'[i].body[1]] = 0
      BY Zenon
    <3>1. i + t \in 1..Len(c2s) /\ c2s'[i] = c2s[i + t] /\ c2s[i + t].type = TypeExecCommand
      BY Zenon
    <3>2. c2s[i + t].body[1] \in 1..calls /\ chunks[c2s[i + t].body[1]] = 0
      BY <3>1, Zenon DEF CallInv
    <3> QED
      BY <3>1, <3>2, Zenon
  <2>6. (\A i, k \in 1..Len(c2s) :
           i # k /\ c2s[i].type = TypeExecCommand /\ c2s[k].type = TypeExecCommand =>
             c2s[i].body[1] # c2s[k].body[1])'
    <3> SUFFICES ASSUME NEW i \in 1..Len(c2s'), NEW k \in 1..Len(c2s'), i # k,
                        c2s'[i].type = TypeExecCommand, c2s'[k].type = TypeExecCommand
                 PROVE  c2s'[i].body[1] # c2s'[k].body[1]
      BY Zenon
    <3>1. /\ i + t \in 1..Len(c2s) /\ c2s'[i] = c2s[i + t] /\ c2s[i + t].type = TypeExecCommand
          /\ k + t \in 1..Len(c2s) /\ c2s'[k] = c2s[k + t] /\ c2s[k + t].type = TypeExecCommand
      BY Zenon
    <3>2. i + t # k + t
      <4> HIDE <1>CallKept
      <4> QED
        BY <2>1
    <3>3. c2s[i + t].body[1] # c2s[k + t].body[1]
      BY <3>1, <3>2, Zenon DEF CallInv
    <3> QED
      BY <3>1, <3>3, Zenon
  <2>7. (\A n \in 1..MaxCalls : n > calls => chunks[n] = 0)'
    BY Zenon DEF CallInv
  <2> QED
    BY <2>2, <2>3, <2>4, <2>5, <2>6, <2>7, Zenon DEF CallInv
(* Execute has returned to c, or goes on. *)
<1>CallReturns. ASSUME PeerTypeOK, PeerTypeOK', CallInv, NEW c \in Callers, NEW kind, NEW body,
                       Return(c, kind, body), UNCHANGED <<calls, chunks, c2s>>
                PROVE  CallInv'
  <2> USE <1>CallReturns
  <2>1. \A d \in Callers : pc'[d] # "idle" => pc'[d] = pc[d] /\ args'[d] = args[d]
    BY Zenon DEF Return, PeerTypeOK, TypeOK
  <2>2. \A i \in 1..Len(c2s') : i + 0 \in 1..Len(c2s) /\ c2s'[i] = c2s[i + 0]
    <3>1. \A i \in 1..Len(c2s) : i + 0 = i
      OBVIOUS
    <3> QED
      BY <3>1, Zenon
  <2> QED
    BY <2>1, <2>2, <1>CallKept, Zenon
(* Execute of c goes on and no command has been written. *)
<1>CallStays. ASSUME PeerTypeOK, PeerTypeOK', CallInv, NEW c \in Callers, pc[c] # "idle",
                     NEW to, to # "lock", pc' = [pc EXCEPT ![c] = to],
                     UNCHANGED <<args, calls, chunks>>,
                     \A i \in 1..Len(c2s') : c2s'[i].type = TypeExecCommand =>
                         i \in 1..Len(c2s) /\ c2s'[i] = c2s[i]
              PROVE  CallInv'
  <2> USE <1>CallStays
  <2>1. \A d \in Callers : pc'[d] # "idle" =>
          pc[d] # "idle" /\ args'[d] = args[d] /\ (pc'[d] = "lock" => pc[d] = "lock")
    BY Zenon DEF PeerTypeOK, TypeOK
  <2>2. \A i \in 1..Len(c2s') : c2s'[i].type = TypeExecCommand =>
          i + 0 \in 1..Len(c2s) /\ c2s'[i] = c2s[i + 0]
    <3>1. \A i \in Int : i + 0 = i
      OBVIOUS
    <3>2. \A i \in 1..Len(c2s') : i \in Int
      OBVIOUS
    <3> QED
      BY <3>1, <3>2, Zenon
  <2> QED
    BY <2>1, <2>2, <1>CallKept, Zenon
(* A call that gets past the checks has a number of its own, of a command  *)
(* that has not been written.                                              *)
<1>CallBegin. ASSUME PeerTypeOK, PeerTypeOK', CallInv, NEW c \in Callers, Begin(c), UNCHANGED chunks
              PROVE  CallInv'
  <2> USE <1>CallBegin
  <2>1. calls' = calls + 1 /\ calls \in Nat /\ MaxCalls \in Nat /\ calls < MaxCalls /\ c2s' = c2s /\ pc[c] = "idle"
    <3>1. calls' = calls + 1 /\ calls < MaxCalls /\ c2s' = c2s /\ pc[c] = "idle"
      BY Zenon DEF Begin, netVars
    <3>2. calls \in Nat /\ MaxCalls \in Nat
      BY TypedParts, Zenon DEF Typed
    <3> QED
      BY <3>1, <3>2, Zenon
  <2>a. \A n \in 1..calls : n # calls + 1 /\ n \in 1..(calls + 1)
    BY <2>1
  <2>2. \A i \in 1..Len(c2s) : c2s[i].type = TypeExecCommand => c2s[i].body[1] # calls + 1
    <3>1. \A i \in 1..Len(c2s) : c2s[i].type = TypeExecCommand => c2s[i].body[1] \in 1..calls
      BY Zenon DEF CallInv
    <3> QED
      BY <2>a, <3>1, Zenon
  <2>3. chunks[calls + 1] = 0
    <3>1. calls + 1 \in 1..MaxCalls /\ calls + 1 > calls
      <4> HIDE <1>CallBegin
      <4> QED
        BY <2>1
    <3> QED
      BY <3>1, Zenon DEF CallInv
  <2>4. \A d \in Callers : pc[d] # "idle" => args[d].n # calls + 1 /\ args[d].n \in 1..(calls + 1)
    BY <2>a, Zenon DEF CallInv
  <2>b. calls + 1 \in 1..(calls + 1) /\ \A n \in 1..MaxCalls : n > calls + 1 => n > calls
    <3> HIDE <1>CallBegin
    <3> QED
      BY <2>1
  <2>5. \/ UNCHANGED <<pc, args>>
        \/ \A d \in Callers : IF d = c THEN pc'[d] = "lock" /\ args'[d].n = calls + 1
                              ELSE pc'[d] = pc[d] /\ args'[d] = args[d]
    <3>1. CASE /\ \E d \in {0} \cup {now + t : t \in CtxTimeouts} :
                    args' = [args EXCEPT ![c] = [n |-> calls + 1, dl |-> d]]
               /\ pc' = [pc EXCEPT ![c] = "lock"]
      <4>1. PICK d : args' = [args EXCEPT ![c] = [n |-> calls + 1, dl |-> d]]
        BY <3>1, Zenon
      <4>2. [n |-> calls + 1, dl |-> d].n = calls + 1
        BY Zenon
      <4> QED
        BY <3>1, <4>1, <4>2, TypedParts, Zenon DEF Typed
    <3>2. CASE UNCHANGED <<pc, args>>
      BY <3>2, Zenon
    <3> QED
      BY <3>1, <3>2, Zenon DEF Begin
  <2>6. (\A d \in Callers : pc[d] # "idle" => args[d].n \in 1..calls)'
    BY <2>1, <2>4, <2>5, <2>b, Zenon
  <2>7. (\A e, d \in Callers : e # d /\ pc[e] # "idle" /\ pc[d] # "idle" => args[e].n # args[d].n)'
    <3>1. \A e, d \in Callers : e # d /\ pc[e] # "idle" /\ pc[d] # "idle" => args[e].n # args[d].n
      BY Zenon DEF CallInv
    <3>2. CASE UNCHANGED <<pc, args>>
      BY <3>1, <3>2, Zenon
    <3>3. CASE \A d \in Callers : IF d = c THEN pc'[d] = "lock" /\ args'[d].n = calls + 1
                                  ELSE pc'[d] = pc[d] /\ args'[d] = args[d]
      <4> SUFFICES ASSUME NEW e \in Callers, NEW d \in Callers, e # d, pc'[e] # "idle", pc'[d] # "idle"
                   PROVE  args'[e].n # args'[d].n
        BY Zenon
      <4>1. e = c => args'[e].n = calls + 1
        BY <3>3, Zenon
      <4>2. d = c => args'[d].n = calls + 1
        BY <3>3, Zenon
      <4>3. e # c => pc[e] # "idle" /\ args'[e] = args[e]
        BY <3>3, Zenon
      <4>4. d # c => pc[d] # "idle" /\ args'[d] = args[d]
        BY <3>3, Zenon
      <4>5. CASE e = c
        BY <2>4, <4>1, <4>4, <4>5, Zenon
      <4>6. CASE d = c
        BY <2>4, <4>2, <4>3, <4>6, Zenon
      <4> QED
        BY <3>1, <4>3, <4>4, <4>5, <4>6, Zenon
    <3> QED
      BY <2>5, <3>2, <3>3, Zenon
  <2>8. (\A d \in Callers : pc[d] = "lock" =>
           /\ chunks[args[d].n] = 0
           /\ \A i \in 1..Len(c2s) : c2s[i].type = TypeExecCommand => c2s[i].body[1] # args[d].n)'
    <3> SUFFICES ASSUME NEW d \in Callers, pc'[d] = "lock"
                 PROVE  /\ chunks[args'[d].n] = 0
                        /\ \A i \in 1..Len(c2s) : c2s[i].type = TypeExecCommand => c2s[i].body[1] # args'[d].n
      BY <2>1, ZenonT(40)
    <3>1. CASE args'[d].n = calls + 1
      BY <2>2, <2>3, <3>1, ZenonT(40)
    <3>2. CASE pc[d] = "lock" /\ args'[d] = args[d]
      BY <3>2, Zenon DEF CallInv
    <3> QED
      BY <2>5, <3>1, <3>2, Zenon
  <2>9. (\A i \in 1..Len(c2s) : c2s[i].type = TypeExecCommand =>
           c2s[i].body[1] \in 1..calls /\ chunks[c2s[i].body[1]] = 0)'
    BY <2>1, <2>a, Zenon DEF CallInv
  <2>10. (\A n \in 1..MaxCalls : n > calls => chunks[n] = 0)'
    BY <2>1, <2>b, Zenon DEF CallInv
  <2>11. (\A i, k \in 1..Len(c2s) :
           i # k /\ c2s[i].type = TypeExecCommand /\ c2s[k].type = TypeExecCommand =>
             c2s[i].body[1] # c2s[k].body[1])'
    BY <2>1, Zenon DEF CallInv
  <2> QED
    BY <2>6, <2>7, <2>8, <2>9, <2>10, <2>11, Zenon DEF CallInv
(* writePacket puts the command of c last on the way to the server, once.  *)
<1>CallSend. ASSUME PeerTypeOK, PeerTypeOK', CallInv, NEW c \in Callers, Send(c), UNCHANGED chunks
             PROVE  CallInv'
  <2> USE <1>CallSend
  <2> DEFINE p == [id |-> NextID(id), type |-> TypeExecCommand, body |-> <<args[c].n, 0>>]
  <2>1. /\ pc[c] = "lock" /\ c2s' = Written(p) /\ UNCHANGED <<args, calls>>
        /\ pc' = [pc EXCEPT ![c] = IF mode = "multi" THEN "sentinel" ELSE "read"]
    BY Zenon DEF Send
  <2>2. p.type = TypeExecCommand /\ p.body[1] = args[c].n
    BY Zenon
  <2>3. CASE ~up /\ c2s' = c2s
    <3>1. PICK to \in {"sentinel", "read"} : pc' = [pc EXCEPT ![c] = to]
      BY <2>1, Zenon
    <3> QED
      BY <2>1, <2>3, <3>1, <1>CallStays, Zenon
  <2>4. CASE /\ up /\ Len(c2s') = Len(c2s) + 1 /\ c2s'[Len(c2s) + 1] = p
             /\ \A i \in 1..Len(c2s) : c2s'[i] = c2s[i]
    <3> HIDE DEF p
    <3>1. Len(c2s) \in Nat
      BY DEF PeerTypeOK, TypeOK
    <3>2. \A i \in 1..Len(c2s') : (i \in 1..Len(c2s) /\ c2s'[i] = c2s[i]) \/ (i = Len(c2s) + 1 /\ c2s'[i] = p)
      BY <2>4, <3>1
    <3>3. /\ args[c].n \in 1..calls /\ chunks[args[c].n] = 0
          /\ \A i \in 1..Len(c2s) : c2s[i].type = TypeExecCommand => c2s[i].body[1] # args[c].n
      BY <2>1, Zenon DEF CallInv
    <3>4. \A d \in Callers : (pc'[d] = "idle" <=> pc[d] = "idle") /\ (pc'[d] = "lock" <=> pc[d] = "lock" /\ d # c)
      BY <2>1, Zenon DEF PeerTypeOK, TypeOK
    <3>5. \A d \in Callers : pc'[d] = "lock" => args[d].n # args[c].n
      BY <2>1, <3>4, ZenonT(40) DEF CallInv
    <3>6. (\A d \in Callers : pc[d] = "lock" =>
             /\ chunks[args[d].n] = 0
             /\ \A i \in 1..Len(c2s) : c2s[i].type = TypeExecCommand => c2s[i].body[1] # args[d].n)'
      <4> SUFFICES ASSUME NEW d \in Callers, pc'[d] = "lock"
                   PROVE  /\ chunks'[args'[d].n] = 0
                          /\ \A i \in 1..Len(c2s') :
                               c2s'[i].type = TypeExecCommand => c2s'[i].body[1] # args'[d].n
        BY Zenon
      <4>1. pc[d] = "lock" /\ args'[d] = args[d] /\ args[d].n # args[c].n
        BY <2>1, <3>4, <3>5, Zenon
      <4>2. /\ chunks[args[d].n] = 0
            /\ \A i \in 1..Len(c2s) : c2s[i].type = TypeExecCommand => c2s[i].body[1] # args[d].n
        BY <4>1, Zenon DEF CallInv
      <4> QED
        BY <2>2, <3>2, <4>1, <4>2, Zenon
    <3>7. (\A i \in 1..Len(c2s) : c2s[i].type = TypeExecCommand =>
             c2s[i].body[1] \in 1..calls /\ chunks[c2s[i].body[1]] = 0)'
      <4> SUFFICES ASSUME NEW i \in 1..Len(c2s'), c2s'[i].type = TypeExecCommand
                   PROVE  c2s'[i].body[1] \in 1..calls /\ chunks'[c2s'[i].body[1]] = 0
        BY <2>1, Zenon
      <4>1. CASE i \in 1..Len(c2s) /\ c2s'[i] = c2s[i]
        BY <4>1, Zenon DEF CallInv
      <4>2. CASE c2s'[i] = p
        BY <2>2, <3>3, <4>2, Zenon
      <4> QED
        BY <3>2, <4>1, <4>2, Zenon
    <3>8. (\A i, k \in 1..Len(c2s) :
             i # k /\ c2s[i].type = TypeExecCommand /\ c2s[k].type = TypeExecCommand =>
               c2s[i].body[1] # c2s[k].body[1])'
      <4> SUFFICES ASSUME NEW i \in 1..Len(c2s'), NEW k \in 1..Len(c2s'), i # k,
                          c2s'[i].type = TypeExecCommand, c2s'[k].type = TypeExecCommand
                   PROVE  c2s'[i].body[1] # c2s'[k].body[1]
        BY Zenon
      <4>1. \A a, b \in 1..Len(c2s) :
               a # b /\ c2s[a].type = TypeExecCommand /\ c2s[b].type = TypeExecCommand =>
                 c2s[a].body[1] # c2s[b].body[1]
        BY Zenon DEF CallInv
      <4>2. CASE i \in 1..Len(c2s) /\ c2s'[i] = c2s[i] /\ k \in 1..Len(c2s) /\ c2s'[k] = c2s[k]
        BY <4>1, <4>2, Zenon
      <4>3. CASE i \in 1..Len(c2s) /\ c2s'[i] = c2s[i] /\ c2s'[k] = p
        BY <2>2, <3>3, <4>3, Zenon
      <4>4. CASE k \in 1..Len(c2s) /\ c2s'[k] = c2s[k] /\ c2s'[i] = p
        BY <2>2, <3>3, <4>4, Zenon
      <4>5. \/ i \in 1..Len(c2s) /\ c2s'[i] = c2s[i]
            \/ i = Len(c2s) + 1 /\ c2s'[i] = p
        BY <3>2, Zenon
      <4>6. \/ k \in 1..Len(c2s) /\ c2s'[k] = c2s[k]
            \/ k = Len(c2s) + 1 /\ c2s'[k] = p
        BY <3>2, Zenon
      <4> QED
        BY <4>2, <4>3, <4>4, <4>5, <4>6, Zenon
    <3> QED
      BY <2>1, <3>4, <3>6, <3>7, <3>8, Zenon DEF CallInv
  <2> QED
    BY <2>1, <2>3, <2>4, WrittenAt, Zenon
(* serveConn takes a packet off the way; a command it runs is on the way   *)
(* no more.                                                                *)
<1>CallPeer. ASSUME PeerTypeOK, PeerTypeOK', CallInv, PeerStep \/ PeerDrop
             PROVE  CallInv'
  <2> USE <1>CallPeer
  <2>1. UNCHANGED <<pc, args, calls>> /\ c2s \in Seq(Packet)
    BY Zenon DEF PeerStep, PeerAuth, PeerExec, PeerEcho, PeerWrite, PeerDrop, PeerRead, connVars, PeerTypeOK, TypeOK
  <2>2. ASSUME c2s # <<>>, c2s' = Tail(c2s)
        PROVE  /\ Len(c2s') = Len(c2s) - 1 /\ Len(c2s) \in Nat /\ Len(c2s) > 0
               /\ \A i \in 1..Len(c2s') : i + 1 \in 1..Len(c2s) /\ c2s'[i] = c2s[i + 1]
    BY <2>1, <2>2
  <2>3. CASE PeerAuth \/ PeerEcho
    BY <2>1, <2>2, <2>3, <1>CallKept, ZenonT(40) DEF PeerAuth, PeerEcho, PeerRead
  <2>4. CASE PeerExec
    <3>1. PICK k \in 1..MaxChunks : chunks' = [chunks EXCEPT ![c2s[1].body[1]] = k]
      <4>1. Head(c2s) = c2s[1]
        BY <2>1, <2>4 DEF PeerExec
      <4> QED
        BY <2>4, <4>1, Zenon DEF PeerExec
    <3>2. c2s # <<>> /\ c2s' = Tail(c2s) /\ c2s[1].type = TypeExecCommand
      BY <2>1, <2>4 DEF PeerExec, PeerRead
    <3> DEFINE n == c2s[1].body[1]
    <3>3. 1 \in 1..Len(c2s) /\ n \in 1..calls /\ chunks[n] = 0
      <4>1. Len(c2s) \in Nat /\ Len(c2s) > 0
        BY <2>2, <3>2, Zenon
      <4>2. 1 \in 1..Len(c2s)
        BY <4>1
      <4> QED
        BY <3>2, <4>2, Zenon DEF CallInv
    <3>4. \A x : x # n => chunks'[x] = chunks[x]
      BY <3>1 DEF PeerTypeOK
    <3>5. \A d \in Callers : pc[d] = "lock" => args[d].n # n
      BY <3>2, <3>3, Zenon DEF CallInv
    <3>6. \A i \in 1..Len(c2s') : c2s'[i].type = TypeExecCommand => c2s'[i].body[1] # n
      <4>1. \A i \in 1..Len(c2s') : i + 1 \in 1..Len(c2s) /\ c2s'[i] = c2s[i + 1]
        BY <2>2, <3>2, Zenon
      <4>2. \A i, j \in 1..Len(c2s) :
               i # j /\ c2s[i].type = TypeExecCommand /\ c2s[j].type = TypeExecCommand =>
                 c2s[i].body[1] # c2s[j].body[1]
        BY Zenon DEF CallInv
      <4> SUFFICES ASSUME NEW i \in 1..Len(c2s'), c2s'[i].type = TypeExecCommand PROVE c2s'[i].body[1] # n
        BY Zenon
      <4>3. i + 1 # 1
        OBVIOUS
      <4>4. i + 1 \in 1..Len(c2s) /\ c2s'[i] = c2s[i + 1] /\ c2s[i + 1].type = TypeExecCommand
        BY <4>1, Zenon
      <4>5. c2s[i + 1].body[1] # c2s[1].body[1]
        BY <3>2, <3>3, <4>2, <4>3, <4>4, Zenon
      <4> QED
        BY <4>4, <4>5, Zenon
    <3> HIDE DEF n
    <3>7. (\A d \in Callers : pc[d] = "lock" =>
             /\ chunks[args[d].n] = 0
             /\ \A i \in 1..Len(c2s) : c2s[i].type = TypeExecCommand => c2s[i].body[1] # args[d].n)'
      <4> SUFFICES ASSUME NEW d \in Callers, pc[d] = "lock"
                   PROVE  /\ chunks'[args[d].n] = 0
                          /\ \A i \in 1..Len(c2s') : c2s'[i].type = TypeExecCommand => c2s'[i].body[1] # args[d].n
        BY <2>1, Zenon
      <4>1. /\ chunks[args[d].n] = 0
            /\ \A i \in 1..Len(c2s) : c2s[i].type = TypeExecCommand => c2s[i].body[1] # args[d].n
        BY Zenon DEF CallInv
      <4>2. \A i \in 1..Len(c2s') : i + 1 \in 1..Len(c2s) /\ c2s'[i] = c2s[i + 1]
        BY <2>2, <3>2, Zenon
      <4> QED
        BY <3>4, <3>5, <4>1, <4>2, Zenon
    <3>8. (\A i \in 1..Len(c2s) : c2s[i].type = TypeExecCommand =>
             c2s[i].body[1] \in 1..calls /\ chunks[c2s[i].body[1]] = 0)'
      <4>1. \A i \in 1..Len(c2s') : i + 1 \in 1..Len(c2s) /\ c2s'[i] = c2s[i + 1]
        BY <2>2, <3>2, Zenon
      <4> SUFFICES ASSUME NEW i \in 1..Len(c2s'), c2s'[i].type = TypeExecCommand
                   PROVE  c2s'[i].body[1] \in 1..calls /\ chunks'[c2s'[i].body[1]] = 0
        BY <2>1, Zenon
      <4>2. i + 1 \in 1..Len(c2s) /\ c2s'[i] = c2s[i + 1] /\ c2s[i + 1].type = TypeExecCommand
        BY <4>1, Zenon
      <4>3. c2s[i + 1].body[1] \in 1..calls /\ chunks[c2s[i + 1].body[1]] = 0
        BY <4>2, Zenon DEF CallInv
      <4> QED
        BY <3>4, <3>6, <4>2, <4>3, Zenon
    <3>9. (\A i, j \in 1..Len(c2s) :
             i # j /\ c2s[i].type = TypeExecCommand /\ c2s[j].type = TypeExecCommand =>
               c2s[i].body[1] # c2s[j].body[1])'
      <4> SUFFICES ASSUME NEW i \in 1..Len(c2s'), NEW j \in 1..Len(c2s'), i # j,
                          c2s'[i].type = TypeExecCommand, c2s'[j].type = TypeExecCommand
                   PROVE  c2s'[i].body[1] # c2s'[j].body[1]
        BY Zenon
      <4>1. i + 1 \in 1..Len(c2s) /\ c2s'[i] = c2s[i + 1] /\ j + 1 \in 1..Len(c2s) /\ c2s'[j] = c2s[j + 1]
        BY <2>2, <3>2, Zenon
      <4>2. i + 1 # j + 1
        BY <2>2, <3>2
      <4> QED
        BY <4>1, <4>2, ZenonT(40) DEF CallInv
    <3>10. (\A x \in 1..MaxCalls : x > calls => chunks[x] = 0)'
      <4>1. \A x \in 1..MaxCalls : x > calls => x # n
        BY <3>3, TypedParts DEF Typed
      <4> QED
        BY <2>1, <3>4, <4>1, Zenon DEF CallInv
    <3> QED
      BY <2>1, <3>7, <3>8, <3>9, <3>10, Zenon DEF CallInv
  <2>5. CASE PeerWrite
    BY <2>1, <2>5, <1>CallKept DEF PeerWrite
  <2>6. CASE PeerDrop
    <3>1. Len(c2s') = 0
      BY <2>6, Zenon DEF PeerDrop
    <3> QED
      BY <2>1, <2>6, <3>1, <1>CallKept DEF PeerDrop
  <2> QED
    BY <2>3, <2>4, <2>5, <2>6, Zenon DEF PeerStep
<1> SUFFICES ASSUME PeerTypeOK,
                   PeerTypeOK',
                   CallInv,
                   [Next]_vars
             PROVE  CallInv'
  BY Zenon
<1>1. \A i \in 1..Len(c2s) : i + 0 = i
  BY TypedParts DEF Typed
<1>2. CASE UNCHANGED <<pc, args, calls, chunks, c2s>>
  BY <1>1, <1>2, <1>CallKept, Zenon
<1>3. CASE AuthSend /\ UNCHANGED peerVars
  <2> DEFINE p == [id |-> NextID(id), type |-> TypeAuth, body |-> Empty]
  <2>1. c2s' = Written(p) /\ UNCHANGED <<pc, args, calls, chunks>>
    BY <1>3, Zenon DEF AuthSend, OpenUnchanged, peerVars
  <2>2. p.type # TypeExecCommand
    BY DEF TypeAuth, TypeExecCommand
  <2> HIDE DEF p
  <2>3. \A i \in 1..Len(c2s') : c2s'[i].type = TypeExecCommand => i + 0 \in 1..Len(c2s) /\ c2s'[i] = c2s[i + 0]
    BY <1>1, <2>1, <2>2, WrittenAt, TypedParts DEF Typed
  <2> QED
    BY <2>1, <2>3, <1>CallKept, Zenon
<1>4. CASE (AuthReceive \/ AuthError) /\ UNCHANGED peerVars
  BY <1>2, <1>4, Zenon DEF AuthReceive, AuthError, OpenUnchanged, peerVars
<1>5. CASE (CloseStore \/ CloseSocket \/ Tick) /\ UNCHANGED peerVars
  BY <1>2, <1>5, Zenon DEF CloseStore, CloseSocket, Tick, peerVars, netVars
<1>6. ASSUME NEW c \in Callers, CallerStep(c), UNCHANGED peerVars PROVE CallInv'
  <2>1. UNCHANGED chunks
    BY <1>6, Zenon DEF peerVars
  <2>2. CASE Ends(c)
    BY <2>1, <2>2, <1>CallReturns, Zenon DEF Ends
  <2>3. CASE Send(c)
    BY <2>1, <2>3, <1>CallSend, Zenon
  <2>4. CASE Asks(c)
    <3> DEFINE p == [id |-> NextID(id), type |-> TypeResponseValue, body |-> Empty]
    <3>1. c2s' = Written(p) /\ UNCHANGED <<args, calls, chunks>> /\ pc' = [pc EXCEPT ![c] = "read"] /\ pc[c] # "idle"
      BY <2>1, <2>4, Zenon DEF Asks
    <3>2. p.type # TypeExecCommand
      BY DEF TypeResponseValue, TypeExecCommand
    <3> HIDE DEF p
    <3>3. \A i \in 1..Len(c2s') : c2s'[i].type = TypeExecCommand => i \in 1..Len(c2s) /\ c2s'[i] = c2s[i]
      <4>1. Len(c2s) \in Nat
        BY TypedParts, Zenon DEF Typed
      <4>2. \/ c2s' = c2s
            \/ /\ Len(c2s') = Len(c2s) + 1 /\ c2s'[Len(c2s) + 1] = p
               /\ \A i \in 1..Len(c2s) : c2s'[i] = c2s[i]
        BY <3>1, WrittenAt, Zenon
      <4> QED
        BY <3>2, <4>1, <4>2
    <3> QED
      BY <3>1, <3>3, <1>CallStays, Zenon
  <2>5. CASE Reads(c)
    <3>1. UNCHANGED <<args, calls, chunks, c2s>>
      BY <2>1, <2>5, Zenon DEF Reads
    <3>2. pc' = pc \/ (pc[c] # "idle" /\ pc' = [pc EXCEPT ![c] = "drain"])
      BY <2>5, Zenon DEF Reads
    <3> QED
      BY <1>2, <3>1, <3>2, <1>CallStays, Zenon
  <2> QED
    BY <1>6, <2>2, <2>3, <2>4, <2>5, StepForms, Zenon
<1>7. CASE PeerStep \/ PeerDrop
  BY <1>7, <1>CallPeer, Zenon
<1>8. CASE UNCHANGED vars
  BY <1>2, <1>8, Zenon DEF vars, connVars, netVars, peerVars
<1> QED
  BY <1>3, <1>4, <1>5, <1>6, <1>7, <1>8, <1>CallBegin, Zenon DEF Next, ConnNext, peerVars
=============================================================================
