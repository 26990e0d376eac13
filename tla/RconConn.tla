------------------------------ MODULE RconConn ------------------------------
(***************************************************************************)
(* rcon.Conn: one TCP connection to a server, opened and authenticated     *)
(* once, then shared by callers of Execute and closed by Close.  What the  *)
(* server does is left to the module that composes the two.                *)
(*                                                                         *)
(* A body is a pair: <<n, 0>> is the command of the n-th call of Execute   *)
(* and <<n, k>> the k-th piece of the answer to it.  Frames cross the      *)
(* network whole and in order, but the client may have to wait in the      *)
(* middle of one, and a read that gives up there leaves the stream torn:   *)
(* from then on frame boundaries are wherever the next bytes put them.     *)
(* Time is a clock; a deadline of 0 is Go's zero Time, no deadline.        *)
(***************************************************************************)
EXTENDS Integers, Sequences

CONSTANTS
    Callers,      \* goroutines that call Execute
    NoOne,        \* mu is free
    Modes,        \* the read modes to examine: "multi", "single", "idle"
    OpDeadlines,  \* the values of settings.deadline to examine, 0 if disabled
    IdleWindow,   \* settings.idleWindow
    CtxTimeouts,  \* how far ahead the deadline of a caller's ctx may be
    IdMax,        \* the largest request id, 2^31 - 1 in the code
    MaxCalls,     \* bound: calls of Execute in a behaviour
    MaxTime       \* bound: the last value of the clock

ASSUME ConnAssumption ==
    /\ NoOne \notin Callers
    /\ Modes \subseteq {"multi", "single", "idle"}
    /\ OpDeadlines \subseteq Nat /\ IdleWindow \in Nat \ {0}
    /\ CtxTimeouts \subseteq Nat \ {0}
    /\ IdMax \in Nat \ {0} /\ MaxCalls \in Nat /\ MaxTime \in Nat

VARIABLES
    mode,         \* settings.mode
    deadline,     \* settings.deadline
    phase,        \* progress of Dial
    closed,       \* Conn.closed
    sock,         \* the client's end of the socket
    closing,      \* Close is between its two statements
    mu, id,       \* Conn.mu, Conn.id
    now, rdl,     \* the clock, and the read deadline set on the socket
    pc, args,     \* where each caller is, and the call it makes
    flight,       \* the local variables of the round-trip that holds mu
    res,          \* what the last call of each caller returned
    calls,        \* how many calls were made
    c2s, s2c,     \* frames the server, the client has not read from the network
    buf, part,    \* frames in Conn.br, and whether it holds the start of another
    torn,         \* a read stopped inside a frame
    up            \* the server's end of the socket is open

connVars == <<mode, deadline, phase, closed, sock, closing, mu, id, now, rdl, pc, args,
              flight, res, calls, buf, part, torn>>
netVars  == <<c2s, s2c, up>>

TypeResponseValue == 0
TypeExecCommand   == 2
TypeAuthResponse  == 2
TypeAuth          == 3

Body    == Nat \X Nat
Empty   == <<0, 0>>
Garbage == <<0, 1>>
Packet  == [id : Int, type : {0, 2, 3}, body : Body]

NoCall   == [n |-> 0, dl |-> 0]
NoFlight == [req |-> 0, sen |-> 0, acc |-> <<>>, first |-> TRUE]
NoResult == [n |-> 0, kind |-> "none", body |-> <<>>, torn |-> FALSE]

Kinds == {"none", "ok", "ErrClosed", "ErrCommandEmpty", "ErrCommandTooLong",
          "ErrResponseMismatch", "frame", "timeout", "eof", "unexpectedEOF", "net"}

TypeOK ==
    /\ mode \in Modes /\ deadline \in OpDeadlines
    /\ phase \in {"dial", "auth1", "auth2", "ready", "failed"}
    /\ closed \in BOOLEAN /\ closing \in BOOLEAN
    /\ part \in BOOLEAN /\ torn \in BOOLEAN /\ up \in BOOLEAN
    /\ sock \in {"open", "closed"}
    /\ mu \in Callers \cup {NoOne}
    /\ id \in 0..IdMax
    /\ now \in Nat /\ rdl \in Nat /\ calls \in 0..MaxCalls
    /\ pc \in [Callers -> {"idle", "lock", "sentinel", "read", "drain"}]
    /\ args \in [Callers -> [n : Nat, dl : Nat]]
    /\ flight \in [req : 0..IdMax, sen : 0..IdMax, acc : Seq(Body), first : BOOLEAN]
    /\ res \in [Callers -> [n : Nat, kind : Kinds, body : Seq(Body), torn : BOOLEAN]]
    /\ c2s \in Seq(Packet) /\ s2c \in Seq(Packet) /\ buf \in Seq(Packet)

ConnInit ==
    /\ mode \in Modes /\ deadline \in OpDeadlines
    /\ phase = "dial" /\ sock = "open" /\ up = TRUE
    /\ closed = FALSE /\ closing = FALSE /\ part = FALSE /\ torn = FALSE
    /\ mu = NoOne /\ id = 0 /\ now = 1 /\ rdl = 0 /\ calls = 0
    /\ pc = [c \in Callers |-> "idle"]
    /\ args = [c \in Callers |-> NoCall]
    /\ flight = NoFlight
    /\ res = [c \in Callers |-> NoResult]
    /\ c2s = <<>> /\ s2c = <<>> /\ buf = <<>>

-----------------------------------------------------------------------------
(* c.id is an int32: past IdMax it wraps to the least int32, and every     *)
(* value that is not positive becomes 1.                                   *)
NextIDUnreset(i) == IF i = IdMax THEN -IdMax - 1 ELSE i + 1
NextIDSame(i) == IF i = 0 THEN 1 ELSE i
NextID(i) ==
    LET j == IF i = IdMax THEN -IdMax - 1 ELSE i + 1
    IN  IF j <= 0 THEN 1 ELSE j

(* applyContextDeadline: the sooner of the per-operation deadline and the  *)
(* one carried by ctx, or none.                                            *)
CallDeadlineKept(dl) ==
    LET op == IF deadline > 0 THEN now + deadline ELSE 0
        d  == IF dl # 0 /\ (op = 0 \/ dl < op) THEN dl ELSE op
    IN  IF d = 0 THEN rdl ELSE d
CallDeadline(dl) ==
    LET op == IF deadline > 0 THEN now + deadline ELSE 0
    IN  IF dl # 0 /\ (op = 0 \/ dl < op) THEN dl ELSE op

Expired(d) == d # 0 /\ now >= d

(* A frame written to a peer that is gone is lost. *)
WrittenTwice(p) == IF up THEN c2s \o <<p, p>> ELSE c2s
Written(p) == IF up THEN Append(c2s, p) ELSE c2s

-----------------------------------------------------------------------------
(* Reading one frame through Conn.br.  bufio takes what it holds; when it  *)
(* holds no whole frame it reads from the socket, as much as has arrived:  *)
(* whole frames, and perhaps the start of one more.                        *)

FetchBuffered ==
    /\ buf # <<>>
    /\ buf' = Tail(buf)
    /\ UNCHANGED <<s2c, part>>

FetchSocket ==
    /\ buf = <<>> /\ s2c # <<>>
    /\ sock = "open" /\ ~Expired(rdl)
    /\ \E k \in 1..Len(s2c) :
         /\ buf' = SubSeq(s2c, 2, k)
         /\ s2c' = SubSeq(s2c, k + 1, Len(s2c))
         /\ part' \in {FALSE, k < Len(s2c)}

Fetch == FetchBuffered \/ FetchSocket

(* What ReadFrom makes of the frame that Fetch takes.  The bytes of a torn *)
(* stream can look like a frame of any id.                                 *)
Decoded ==
    IF torn
      THEN {[id |-> i, type |-> TypeResponseValue, body |-> Garbage] :
              i \in {-1, 0, flight.req, flight.sen}}
      ELSE {IF buf # <<>> THEN Head(buf) ELSE Head(s2c)}

(* How ReadFrom can fail.  The end of the stream inside a frame is an      *)
(* unexpected EOF, but a plain one just after the size field, where the    *)
(* second ReadFull has read nothing.                                       *)
ReadErrors ==
    UNION {
      IF buf = <<>> /\ sock = "closed" THEN {"net"} ELSE {},
      IF buf = <<>> /\ sock = "open" /\ Expired(rdl) THEN {"timeout"} ELSE {},
      IF buf = <<>> /\ sock = "open" /\ s2c = <<>> /\ ~up
        THEN {"eof", "unexpectedEOF", "net"} ELSE {},
      IF torn /\ (buf # <<>> \/ (sock = "open" /\ s2c # <<>>)) THEN {"frame"} ELSE {}}

(* A failed read has used up what was buffered.  One that times out tears  *)
(* the stream if part of a frame had arrived.                              *)
ReadFails(k) ==
    /\ k \in ReadErrors
    /\ \E t \in BOOLEAN :
         /\ t => k = "timeout" /\ s2c # <<>>
         /\ k = "timeout" /\ part /\ s2c # <<>> => t
         /\ torn' = (torn \/ t)
    /\ part' = FALSE
    /\ UNCHANGED <<buf, s2c>>

-----------------------------------------------------------------------------
(* Dial: open, authenticate.                                               *)

OpenUnchanged == UNCHANGED <<mode, deadline, closed, closing, mu, now, pc, args, flight, res, calls, up>>

AuthSend ==
    /\ phase = "dial"
    /\ \E d \in {0} \cup {now + t : t \in CtxTimeouts} : rdl' = CallDeadline(d)
    /\ id' = NextID(id)
    /\ c2s' = Written([id |-> NextID(id), type |-> TypeAuth, body |-> Empty])
    /\ phase' = "auth1"
    /\ OpenUnchanged /\ UNCHANGED <<sock, s2c, buf, part, torn>>

AuthReceive ==
    /\ phase \in {"auth1", "auth2"}
    /\ Fetch
    /\ \E p \in Decoded :
         phase' = IF p.type = TypeResponseValue /\ phase = "auth1" THEN "auth2"
                  ELSE IF p.type = TypeAuthResponse /\ p.id # -1 THEN "ready"
                  ELSE "failed"
    /\ sock' = IF phase' = "failed" THEN "closed" ELSE sock
    /\ OpenUnchanged /\ UNCHANGED <<id, rdl, c2s, torn>>

AuthError ==
    /\ phase \in {"auth1", "auth2"}
    /\ \E k \in ReadErrors : ReadFails(k)
    /\ phase' = "failed" /\ sock' = "closed"
    /\ OpenUnchanged /\ UNCHANGED <<id, rdl, c2s>>

-----------------------------------------------------------------------------
(* Execute.                                                                *)

Result(c, kind, body) ==
    res' = [res EXCEPT ![c] = [n |-> args[c].n, kind |-> kind, body |-> body, torn |-> torn]]

(* Execute returns: the deferred Unlock runs and its locals are gone. *)
Return(c, kind, body) ==
    /\ Result(c, kind, body)
    /\ pc' = [pc EXCEPT ![c] = "idle"]
    /\ args' = [args EXCEPT ![c] = NoCall]
    /\ mu' = NoOne /\ flight' = NoFlight

Stay == UNCHANGED <<pc, args, mu, res>>

(* The checks before the lock: a closed Conn, then the command. *)
Begin(c) ==
    /\ phase = "ready" /\ pc[c] = "idle" /\ calls < MaxCalls
    /\ calls' = calls + 1
    /\ \/ /\ ~closed
          /\ \E d \in {0} \cup {now + t : t \in CtxTimeouts} :
               args' = [args EXCEPT ![c] = [n |-> calls + 1, dl |-> d]]
          /\ pc' = [pc EXCEPT ![c] = "lock"]
          /\ UNCHANGED res
       \/ \E k \in IF closed THEN {"ErrClosed"} ELSE {"ErrCommandEmpty", "ErrCommandTooLong"} :
            /\ res' = [res EXCEPT ![c] = [n |-> calls + 1, kind |-> k, body |-> <<>>, torn |-> FALSE]]
            /\ UNCHANGED <<pc, args>>
    /\ UNCHANGED <<mode, deadline, phase, closed, sock, closing, mu, id, now, rdl, flight,
                   buf, part, torn, netVars>>

(* SetDeadline fails on a closed socket. *)
SendClosed(c) ==
    /\ pc[c] = "lock" /\ mu = NoOne /\ sock = "closed"
    /\ Return(c, "net", <<>>)
    /\ UNCHANGED <<mode, deadline, phase, closed, sock, closing, id, now, rdl, calls,
                   buf, part, torn, netVars>>

(* The write fails once the deadline has passed, and may fail when the     *)
(* server is gone.                                                         *)
SendError(c) ==
    /\ pc[c] = "lock" /\ mu = NoOne /\ sock = "open"
    /\ rdl' = CallDeadline(args[c].dl)
    /\ id' = NextID(id)
    /\ \E k \in (IF Expired(rdl') THEN {"timeout"} ELSE {}) \cup (IF up THEN {} ELSE {"net"}) :
         Return(c, k, <<>>)
    /\ UNCHANGED <<mode, deadline, phase, closed, sock, closing, now, calls, buf, part, torn, netVars>>

Send(c) ==
    /\ pc[c] = "lock" /\ mu = NoOne /\ sock = "open"
    /\ rdl' = CallDeadline(args[c].dl) /\ ~Expired(rdl')
    /\ id' = NextID(id)
    /\ c2s' = Written([id |-> NextID(id), type |-> TypeExecCommand, body |-> <<args[c].n, 0>>])
    /\ mu' = c
    /\ flight' = [NoFlight EXCEPT !.req = NextID(id)]
    /\ pc' = [pc EXCEPT ![c] = IF mode = "multi" THEN "sentinel" ELSE "read"]
    /\ UNCHANGED <<mode, deadline, phase, closed, sock, closing, now, args, res, calls,
                   s2c, buf, part, torn, up>>

SendSentinel(c) ==
    /\ pc[c] = "sentinel"
    /\ id' = NextID(id)
    /\ \/ /\ sock = "open" /\ ~Expired(rdl)
          /\ c2s' = Written([id |-> NextID(id), type |-> TypeResponseValue, body |-> Empty])
          /\ flight' = [flight EXCEPT !.sen = NextID(id)]
          /\ pc' = [pc EXCEPT ![c] = "read"]
          /\ UNCHANGED <<mu, args, res>>
       \/ \E k \in UNION {IF sock = "closed" \/ ~up THEN {"net"} ELSE {},
                          IF sock = "open" /\ Expired(rdl) THEN {"timeout"} ELSE {}} :
            Return(c, k, <<>>) /\ UNCHANGED c2s
    /\ UNCHANGED <<mode, deadline, phase, closed, sock, closing, now, rdl, calls,
                   s2c, buf, part, torn, up>>

(* A reply carries the id of the request, or -1 from some servers. *)
AnyReply(p) == TRUE
Mine(p) == p.id \in {flight.req, -1}

ReadUnchanged == UNCHANGED <<mode, deadline, phase, closed, sock, closing, id, now, calls, c2s, torn, up>>

ReadSinglePacket(c) ==
    /\ mode = "single" /\ pc[c] = "read"
    /\ Fetch
    /\ \E p \in Decoded :
         IF Mine(p) THEN Return(c, "ok", <<p.body>>)
                    ELSE Return(c, "ErrResponseMismatch", <<>>)
    /\ ReadUnchanged /\ UNCHANGED rdl

ReadMultiPacket(c) ==
    /\ mode = "multi" /\ pc[c] = "read"
    /\ Fetch
    /\ \E p \in Decoded :
         \/ /\ p.id = flight.sen
            /\ pc' = [pc EXCEPT ![c] = "drain"]
            /\ UNCHANGED <<args, mu, res, flight>>
         \/ /\ p.id # flight.sen /\ Mine(p)
            /\ flight' = [flight EXCEPT !.acc = Append(@, p.body)]
            /\ Stay
         \/ /\ p.id # flight.sen /\ ~Mine(p)
            /\ Return(c, "ErrResponseMismatch", <<>>)
    /\ ReadUnchanged /\ UNCHANGED rdl

(* Every later read has the idle window as its deadline. *)
ReadIdleDrain(c) ==
    /\ mode = "idle" /\ pc[c] = "read"
    /\ Fetch
    /\ \E p \in Decoded :
         flight' = [flight EXCEPT !.first = FALSE,
                                  !.acc = IF Mine(p) THEN Append(@, p.body) ELSE @]
    /\ rdl' = IF sock = "open" THEN now + IdleWindow ELSE rdl
    /\ Stay /\ ReadUnchanged

(* SetReadDeadline fails on a closed socket, whatever is still buffered. *)
ReadIdleClosed(c) ==
    /\ mode = "idle" /\ pc[c] = "read" /\ ~flight.first /\ sock = "closed"
    /\ Return(c, "net", <<>>)
    /\ ReadUnchanged /\ UNCHANGED <<rdl, s2c, buf, part>>

(* drainSourceMirror: as long as anything is buffered, even a part of a    *)
(* frame, one more frame is read and thrown away.                          *)
DrainNothing(c) ==
    /\ pc[c] = "drain"
    /\ Return(c, "ok", flight.acc)
    /\ ReadUnchanged /\ UNCHANGED <<rdl, s2c, buf, part>>
Drain(c) ==
    /\ pc[c] = "drain"
    /\ IF buf = <<>> /\ ~part
         THEN Return(c, "ok", flight.acc) /\ UNCHANGED <<s2c, buf, part>>
         ELSE Fetch /\ Stay /\ UNCHANGED flight
    /\ ReadUnchanged /\ UNCHANGED rdl

(* A failed read ends the round-trip.  It is the normal end of a response  *)
(* in idle mode after the first packet, and of no interest to the drain.   *)
Quiet(c, k) ==
    \/ pc[c] = "drain"
    \/ mode = "idle" /\ pc[c] = "read" /\ ~flight.first /\ k \in {"timeout", "eof"}

ReadError(c) ==
    /\ pc[c] = "read" \/ (pc[c] = "drain" /\ (buf # <<>> \/ part))
    /\ \E k \in ReadErrors :
         /\ ReadFails(k)
         /\ IF Quiet(c, k) THEN Return(c, "ok", flight.acc) ELSE Return(c, k, <<>>)
    /\ UNCHANGED <<mode, deadline, phase, closed, sock, closing, id, now, rdl, calls, c2s, up>>

-----------------------------------------------------------------------------
(* Close takes no lock: it stores the flag, then closes the socket. *)
CloseStore ==
    /\ phase = "ready" /\ ~closed
    /\ closed' = TRUE /\ closing' = TRUE
    /\ UNCHANGED <<mode, deadline, phase, sock, mu, id, now, rdl, pc, args, flight, res, calls,
                   buf, part, torn, netVars>>

CloseSocketLocked ==
    /\ closing /\ mu = NoOne
    /\ sock' = "closed" /\ closing' = FALSE
    /\ UNCHANGED <<mode, deadline, phase, closed, mu, id, now, rdl, pc, args, flight, res, calls,
                   buf, part, torn, netVars>>
CloseSocket ==
    /\ closing
    /\ sock' = "closed" /\ closing' = FALSE
    /\ UNCHANGED <<mode, deadline, phase, closed, mu, id, now, rdl, pc, args, flight, res, calls,
                   buf, part, torn, netVars>>

Tick ==
    /\ now < MaxTime
    /\ now' = now + 1
    /\ UNCHANGED <<mode, deadline, phase, closed, sock, closing, mu, id, rdl, pc, args, flight, res,
                   calls, buf, part, torn, netVars>>

(* What a caller does without being asked, once it has begun. *)
CallerStep(c) ==
    \/ SendClosed(c) \/ SendError(c) \/ Send(c) \/ SendSentinel(c)
    \/ ReadSinglePacket(c) \/ ReadMultiPacket(c) \/ ReadIdleDrain(c) \/ ReadIdleClosed(c)
    \/ Drain(c) \/ ReadError(c)

ConnNext ==
    \/ AuthSend \/ AuthReceive \/ AuthError
    \/ \E c \in Callers : Begin(c) \/ CallerStep(c)
    \/ CloseStore \/ CloseSocket \/ Tick
=============================================================================
