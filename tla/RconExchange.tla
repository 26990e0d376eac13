---------------------------- MODULE RconExchange ----------------------------
(***************************************************************************)
(* An rcon.Conn and the server at the other end of its socket.  The server *)
(* is serveConn of rconserver, which answers every packet in the order it  *)
(* reads them; with mirror it is a Source server, which follows the echo   *)
(* of the client's sentinel by one more packet.                            *)
(***************************************************************************)
EXTENDS RconConn

CONSTANTS
    Mirrors,     \* whether the server sends a mirror packet: the cases to examine
    MaxChunks    \* bound: packets a response is split into

ASSUME ExchangeAssumption ==
    Mirrors \subseteq BOOLEAN /\ MaxChunks \in Nat \ {0}

VARIABLES
    mirror,      \* the server sends a mirror packet after each echo
    authed,      \* the client has authenticated
    todo,        \* packets serveConn has still to write for the one it has read
    chunks       \* history: packets the response to each call has, 0 if not run

peerVars == <<mirror, authed, todo, chunks>>
vars     == <<connVars, netVars, peerVars>>

PeerTypeOK ==
    /\ TypeOK
    /\ mirror \in BOOLEAN /\ authed \in BOOLEAN
    /\ todo \in Seq(Packet)
    /\ chunks \in [1..MaxCalls -> 0..MaxChunks]

Init ==
    /\ ConnInit
    /\ mirror \in IF mode = "multi" THEN Mirrors ELSE {FALSE}    \* there is no echo otherwise
    /\ authed = FALSE /\ todo = <<>>
    /\ chunks = [n \in 1..MaxCalls |-> 0]

-----------------------------------------------------------------------------
(* authenticate of rconserver: an empty RESPONSE_VALUE, then the verdict.  *)
AuthReply(p, ok) ==
    <<[id |-> p.id, type |-> TypeResponseValue, body |-> Empty],
      [id |-> IF ok THEN p.id ELSE -1, type |-> TypeAuthResponse, body |-> Empty]>>

(* writeResponse: the answer to command n in k packets, in order. *)
ReplyBackwards(p, k) ==
    [i \in 1..k |-> [id |-> p.id, type |-> TypeResponseValue, body |-> <<p.body[1], k + 1 - i>>]]
Reply(p, k) ==
    [i \in 1..k |-> [id |-> p.id, type |-> TypeResponseValue, body |-> <<p.body[1], i>>]]

(* The echo of a sentinel, and a Source server's mirror after it. *)
Echo(p) ==
    LET echo == [id |-> p.id, type |-> TypeResponseValue, body |-> Empty]
    IN  IF mirror THEN <<echo, echo>> ELSE <<echo>>

PeerRead(p) ==
    /\ up /\ todo = <<>> /\ c2s # <<>> /\ p = Head(c2s)
    /\ c2s' = Tail(c2s)
    /\ UNCHANGED <<connVars, s2c, up, mirror>>

PeerAuth == c2s # <<>> /\ LET p == Head(c2s) IN
    /\ PeerRead(p) /\ ~authed /\ p.type = TypeAuth
    /\ \E ok \in BOOLEAN : todo' = AuthReply(p, ok) /\ authed' = ok
    /\ UNCHANGED chunks

PeerExec == c2s # <<>> /\ LET p == Head(c2s) IN
    /\ PeerRead(p) /\ authed /\ p.type = TypeExecCommand
    /\ \E k \in 1..MaxChunks :
         /\ todo' = Reply(p, k)
         /\ chunks' = [chunks EXCEPT ![p.body[1]] = k]
    /\ UNCHANGED authed

PeerEcho == c2s # <<>> /\ LET p == Head(c2s) IN
    /\ PeerRead(p) /\ authed /\ p.type = TypeResponseValue
    /\ todo' = Echo(p)
    /\ UNCHANGED <<authed, chunks>>

PeerWrite ==
    /\ up /\ todo # <<>>
    /\ s2c' = Append(s2c, Head(todo))
    /\ todo' = Tail(todo)
    /\ UNCHANGED <<connVars, c2s, up, mirror, authed, chunks>>

(* The server closes the connection (a handler panicked, the password was  *)
(* wrong, it stopped) or dies; then what the client has not read may be    *)
(* lost.                                                                   *)
PeerDrop ==
    /\ up /\ up' = FALSE
    /\ c2s' = <<>> /\ todo' = <<>>
    /\ s2c' \in {s2c, <<>>}
    /\ UNCHANGED <<connVars, mirror, authed, chunks>>

PeerStep == PeerAuth \/ PeerExec \/ PeerEcho \/ PeerWrite

Next ==
    \/ ConnNext /\ UNCHANGED peerVars
    \/ PeerStep \/ PeerDrop

Spec == Init /\ [][Next]_vars

(* Goroutines that can run do run; a caller decides freely when to call    *)
(* and Close once called proceeds.  The server is not assumed to answer.   *)
FairSpec ==
    /\ Spec
    /\ \A c \in Callers : WF_vars(CallerStep(c) /\ UNCHANGED peerVars)
    /\ WF_vars(CloseSocket /\ UNCHANGED peerVars)

-----------------------------------------------------------------------------
(* Properties.                                                             *)

(* The frames on their way to the client, in order: in Conn.br, in the     *)
(* network, and those the server has still to write.                       *)
Line == buf \o s2c \o todo

(* The id that nextID gives out next is carried by no packet still on the  *)
(* way, in either direction, of whatever earlier call.                     *)
IdsFresh ==
    (\E c \in Callers : pc[c] \in {"lock", "sentinel"}) =>
        /\ NextID(id) # id
        /\ \A i \in 1..Len(c2s) : c2s[i].id # NextID(id)
        /\ \A i \in 1..Len(Line) : Line[i].id # NextID(id)

Answer(n) == [i \in 1..chunks[n] |-> <<n, i>>]

(* Succeeded(c): the last call of c returned a response, read from a       *)
(* stream that no earlier timeout had torn.                                *)
Succeeded(c) == res[c].kind = "ok" /\ ~res[c].torn

(* In multi-packet mode a response that Execute returns is the whole       *)
(* answer to that very command, in order and with nothing of any other,    *)
(* whatever calls timed out, failed or waited for mu before it             *)
(* (readMultiPacket).                                                      *)
MultiComplete ==
    mode = "multi" => \A c \in Callers : Succeeded(c) =>
        chunks[res[c].n] > 0 /\ res[c].body = Answer(res[c].n)

(* In single-packet mode it is the first packet of that answer             *)
(* (readSinglePacket).                                                     *)
SingleFirst ==
    mode = "single" => \A c \in Callers : Succeeded(c) => res[c].body = <<<<res[c].n, 1>>>>

(* In idle mode it is what the server had sent of that answer when the     *)
(* connection went quiet: a prefix of it, never another's packet           *)
(* (readIdleDrain).                                                        *)
IdlePrefix ==
    mode = "idle" => \A c \in Callers : Succeeded(c) =>
        /\ Len(res[c].body) <= chunks[res[c].n]
        /\ res[c].body = SubSeq(Answer(res[c].n), 1, Len(res[c].body))

(* The deadline on the socket is the one of the call in flight: never      *)
(* later than its ctx allows, never left over from an earlier call         *)
(* (applyContextDeadline).  In idle mode this is said of the first packet. *)
DeadlineOfThisCall ==
    \A c \in Callers :
        pc[c] \in {"sentinel", "read", "drain"} /\ (mode = "idle" => flight.first) =>
            /\ args[c].dl # 0 => rdl # 0 /\ rdl <= args[c].dl
            /\ args[c].dl = 0 /\ deadline = 0 => rdl = 0

(* A multi-packet Execute that succeeds leaves nothing of its exchange     *)
(* behind for the next call to trip over: nothing at all when the server   *)
(* sends no mirror, nothing in Conn.br when it does (drainSourceMirror).   *)
SuccessLeavesStreamClean ==
    [][mode = "multi" /\ ~torn =>
         \A c \in Callers : mu = c /\ mu' = NoOne /\ res'[c].kind = "ok" =>
             /\ buf' = <<>> /\ ~part'
             /\ ~mirror => c2s' = <<>> /\ todo' = <<>> /\ s2c' = <<>>]_vars

(* Close aborts every round-trip, even one whose server never answers and  *)
(* that has no deadline, and every caller waiting behind it.               *)
CloseUnblocks ==
    closed ~> \A c \in Callers : pc[c] = "idle"

(* What the comment on Execute says, "A deadline carried by ctx bounds the *)
(* round-trip": the socket never waits past it.  It does not hold in idle  *)
(* mode, where each read after the first replaces the deadline by the idle *)
(* window.                                                                 *)
CtxBoundsRoundTrip ==
    \A c \in Callers :
        pc[c] \in {"sentinel", "read", "drain"} /\ args[c].dl # 0 =>
            rdl # 0 /\ rdl <= args[c].dl

(* What the comment on readIdleDrain says, "The first packet is bounded by *)
(* the connection's normal deadline": no success before a packet of the    *)
(* answer has come.  It does not hold: a late packet of an earlier call is *)
(* skipped but starts the idle window, and when that passes Execute        *)
(* reports success with an empty response.                                 *)
IdleWaitsForAnswer ==
    mode = "idle" => \A c \in Callers : Succeeded(c) => res[c].body # <<>>
=============================================================================
