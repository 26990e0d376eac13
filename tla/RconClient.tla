----------------------------- MODULE RconClient -----------------------------
(***************************************************************************)
(* The layers above rcon.Conn, down to the bytes: Client.Execute with its  *)
(* retries, Session with its reconnect, and the three programs that use    *)
(* them: App.RunSingle and App.RunInteractive of cmd/rcon, and the HTTP    *)
(* handler serving one request after another.  At the other end serveConn  *)
(* frames its responses with writeResponse; frames arrive in pieces, and   *)
(* a connection may be lost between any two of them.                       *)
(*                                                                         *)
(* One goroutine uses the client, so its steps are taken in order; a step  *)
(* that does not block takes no time.  dl, wait and elapsed are durations: *)
(* what is left of the deadline in force, of a backoff, and what has       *)
(* passed since Execute was called.                                        *)
(***************************************************************************)
EXTENDS Framing, ClientErrors, Programs, FiniteSets

CONSTANTS
    Configs,      \* the programs, the options of their Client, the length of the
                  \* server's responses, and how many commands a Session is given
    DialTimeout, Deadline, IdleWindow,   \* the timeouts that are not the Client's;
                  \* for a custom DialFunc, which WithDialTimeout does not reach,
                  \* DialTimeout is the time it is assumed to give up after
    Base, Max,    \* the arguments of ExponentialBackoff
    MaxDuration,  \* the largest time.Duration, 2^63 - 1 in the code
    Cuts,         \* bound: after how many bytes a frame may be torn apart
    MaxCommands   \* bound: commands given to a Session

ASSUME ClientAssumption ==
    /\ MaxCommands \in Nat \ {0}
    /\ \A c \in Configs :
          /\ c.driver \in {"single", "interactive", "http"}
          /\ c.attempts \in Int /\ c.backoff \in BOOLEAN
          /\ c.timeout \in Nat /\ c.len \in Nat /\ c.cmds \in 1..MaxCommands
          /\ c.driver # "single" => c.attempts = 1 /\ ~c.backoff   \* a Session ignores them
    /\ {DialTimeout, Deadline, IdleWindow} \subseteq Nat \ {0}
    /\ Base \in 0..MaxDuration /\ Max \in Nat /\ Max < MaxDuration
    /\ Cuts \subseteq Nat \ {0}

Commands == 1..MaxCommands

VARIABLES
    opt,        \* one of Configs
    mode,       \* how responses are read: "multi", "single" or "idle"
    pc,         \* where the goroutine that uses the client is
    cmd, check, \* the command, and what Conn.Execute finds wrong with it, or "nil"
    attempt,    \* 0 in Client.Dial; in Execute the attempt, 2 after a reconnect
    elapsed, dl, wait,
    conn,       \* the Conn of the Session or of executeOnce: "none", "open", "closed"
    socks,      \* how many sockets the client has open
    id, req,    \* Conn.id, and the id of the request in flight
    acc, first, \* the locals of the function that reads the response
    net,        \* the connection to the server, and the server's end of it
    runs, late, \* how often the server ran each command; those it has still to read
                \* from connections that are closed or lost to the client
    err, resp,  \* what the last Execute returned
    code,       \* the exit code of the process, or the last HTTP status
    clean,      \* nothing has gone wrong since the last call of Execute
    failed      \* how many calls in a row failed although nothing went wrong

conf     == <<opt, mode>>
callVars == <<cmd, check, attempt, elapsed, dl, wait>>
connVars == <<conn, socks, id, req, acc, first>>
doneVars == <<err, resp, code, failed>>
vars     == <<conf, pc, callVars, connVars, net, runs, late, doneVars, clean>>

(* inq is what the server has still to read; busy, ans and rest are the     *)
(* response it is writing; out is what has not arrived of a frame.  torn   *)
(* is history: the command at which the client gave up inside a frame, so  *)
(* that its next read begins there, or 0.                                  *)
Nets == [up : BOOLEAN, inq : Seq([n : 0..MaxCommands, ID : Int32]), busy : BOOLEAN,
         ans : Int32, rest : Seq(Byte), out : Seq(Byte), wire : Seq(Byte),
         torn : 0..MaxCommands]
NoNet == [up |-> FALSE, inq |-> <<>>, busy |-> FALSE, ans |-> 0, rest |-> <<>>,
          out |-> <<>>, wire |-> <<>>, torn |-> 0]

(* What the server answers to command n. *)
Response(n) == [i \in 1..opt.len |-> (n + i) % Radix]

TypeOK ==
    /\ opt \in Configs /\ mode \in {"multi", "single", "idle"}
    /\ pc \in {"start", "ready", "dial", "auth", "send", "read", "backoff", "end"}
    /\ cmd \in 0..MaxCommands /\ check \in {"nil"} \cup CommandErrs
    /\ attempt \in Nat /\ elapsed \in Nat /\ dl \in Nat /\ wait \in Nat
    /\ conn \in {"none", "open", "closed"} /\ socks \in Nat
    /\ id \in Int32 /\ req \in Int32 /\ acc \in Seq(Byte) /\ first \in BOOLEAN
    /\ net \in Nets
    /\ runs \in [Commands -> Nat] /\ late \in [Commands -> Nat]
    /\ err \in Errors /\ resp \in Seq(Byte)
    /\ code \in {0, 2, 3, 200, 400, 401, 405, 413, 500, 502, 503, 504}
    /\ clean \in BOOLEAN /\ failed \in Nat

Init ==
    /\ opt \in Configs
    /\ \E drain, singlePacket \in BOOLEAN : mode = ReadMode(drain, singlePacket)
    /\ opt.driver # "http" => mode = "multi"    \* until run has read its arguments
    /\ pc = IF opt.driver = "http" THEN "ready" ELSE "start"
    /\ cmd = 0 /\ check = "nil" /\ attempt = 0 /\ elapsed = 0 /\ dl = 0 /\ wait = 0
    /\ conn = "none" /\ socks = 0 /\ id = 0 /\ req = 0 /\ acc = <<>> /\ first = TRUE
    /\ net = NoNet
    /\ runs = [n \in Commands |-> 0] /\ late = [n \in Commands |-> 0]
    /\ err = "nil" /\ resp = <<>> /\ code = 0 /\ clean = TRUE /\ failed = 0

-----------------------------------------------------------------------------
(* Deadlines and delays.                                                   *)

Min2(a, b) == IF a < b THEN a ELSE b

(* Execute gives its ctx the timeout of the Client; Dial alone does not.   *)
HasDeadline(a) == a > 0 /\ opt.timeout > 0
Done(a, t) == HasDeadline(a) /\ t >= opt.timeout

(* applyContextDeadline, and the same in net.Dialer: the sooner of d and   *)
(* the deadline of ctx, for attempt a when t has passed.                   *)
SoonerOwn(d, a, t) == d
Sooner(d, a, t) ==
    IF ~HasDeadline(a) THEN d ELSE IF Done(a, t) THEN 0 ELSE Min2(d, opt.timeout - t)

(* ExponentialBackoff: the shift is one of a signed integer, which wraps.  *)
Wrap(d) == LET m == 2 * (MaxDuration + 1)
           IN  IF d % m > MaxDuration THEN (d % m) - m ELSE d % m
DelayShifted(a) == Wrap(Base * 2^(a - 1))
DelayUnchecked(a) == LET d == Wrap(Base * 2^(a - 1)) IN IF d > Max THEN Max ELSE d
Delay(a) ==
    LET d == Wrap(Base * 2^(a - 1))
    IN  IF d \in 1..Max THEN d ELSE Max

LastAttempt == IF opt.attempts < 1 THEN 1 ELSE opt.attempts

(* How often command n is among the packets q that the server has to read. *)
Pending(q, n) == Cardinality({i \in DOMAIN q : q[i].n = n})

-----------------------------------------------------------------------------
(* What a layer does with the result of the one below.  n is the state the *)
(* connection is in by then.                                               *)

KeepConn(n) == net' = n /\ UNCHANGED <<conn, socks, late>>

(* Conn.Close.  A command the server has not read yet it may still run.    *)
CloseTwice(n, to) ==
    conn' = to /\ socks' = socks - 1 /\ net' = NoNet /\ UNCHANGED late
CloseConn(n, to) ==
    /\ conn' = to
    /\ socks' = IF conn = "open" THEN socks - 1 ELSE socks
    /\ net' = NoNet
    /\ late' = [c \in Commands |-> late[c] + Pending(n.inq, c)]

Redial(a) ==
    /\ pc' = "dial" /\ attempt' = a
    /\ dl' = Sooner(DialTimeout, a, elapsed)
    /\ UNCHANGED <<elapsed, wait, doneVars>>

Return(e, body, to) ==
    /\ pc' = to /\ err' = e /\ resp' = body
    /\ failed' = IF e \in CommandErrs \cup {"nil"} \/ ~clean' THEN 0 ELSE failed + 1
    /\ attempt' = 0 /\ elapsed' = 0 /\ dl' = 0 /\ wait' = 0

(* Client.Execute after a failed attempt. *)
RetriedOnceMore(e) == IsRetryable(e) /\ attempt <= LastAttempt
Retried(e) == IsRetryable(e) /\ attempt < LastAttempt
AttemptFailed(e) ==
    \/ /\ ~Retried(e)
       /\ Return(e, <<>>, "end") /\ code' = ExitCode(e)
    \/ /\ Retried(e) /\ opt.backoff
       /\ pc' = "backoff" /\ wait' \in 0..Delay(attempt)
       /\ UNCHANGED <<attempt, elapsed, dl, doneVars>>
    \/ /\ Retried(e) /\ ~opt.backoff
       /\ Redial(attempt + 1)

(* Session.Execute, or the Dial before it, has returned to its caller: the *)
(* loop of RunInteractive, or sessionCache.execute and ServeHTTP, which    *)
(* drop the session after some errors.                                     *)
Drops(e) == opt.driver = "http" /\ IsConnError(e)
SessionReturned(e, body, n) ==
    /\ Return(e, body, "ready")
    /\ code' = IF opt.driver = "http" THEN ExecuteStatus(e) ELSE code
    /\ IF Drops(e) THEN CloseConn(n, "none") ELSE KeepConn(n)

(* Conn.Execute has returned.  executeOnce closes its Conn either way; a   *)
(* Session closes its own only to reconnect, once.                         *)
CloseOnce(n, e) == CloseConn(n, "closed")
ConnReturned(e, body, n) ==
    IF opt.driver = "single"
      THEN /\ CloseOnce(n, e)
           /\ \/ e = "nil" /\ Return(e, body, "end") /\ code' = ExitCode(e)
              \/ e # "nil" /\ AttemptFailed(e)
      ELSE \/ /\ IsRetryable(e) /\ attempt = 1
              /\ CloseConn(n, "closed") /\ Redial(2)
           \/ /\ ~(IsRetryable(e) /\ attempt = 1)
              /\ SessionReturned(e, body, n)

(* Client.dial has returned an error; the socket is closed. *)
DialReturned(e) ==
    /\ net' = NoNet /\ UNCHANGED late
    /\ CASE opt.driver = "single" -> AttemptFailed(e) /\ UNCHANGED conn
         [] opt.driver = "interactive" /\ attempt = 0 ->
              Return(e, <<>>, "end") /\ code' = ExitCode(e) /\ UNCHANGED conn
         [] OTHER -> /\ Return(e, <<>>, "ready")
                     /\ code' = IF opt.driver = "http" THEN ExecuteStatus(e) ELSE code
                     /\ conn' = IF Drops(e) THEN "none" ELSE conn

-----------------------------------------------------------------------------
(* The programs.                                                           *)

(* A command is empty, too long, or all right; RunInteractive and          *)
(* parseCommand skip empty ones.                                           *)
TakeCommand ==
    /\ cmd' = cmd + 1
    /\ check' \in {"nil", "ErrCommandTooLong"} \cup
                 (IF opt.driver = "single" THEN {"ErrCommandEmpty"} ELSE {})
    /\ clean' = TRUE
    /\ err' = "nil" /\ resp' = <<>> /\ code' = 0
    /\ UNCHANGED <<opt, wait, connVars, net, runs, late, failed>>

(* run ends before it connects, or goes on to RunSingle or RunInteractive. *)
MainEnds ==
    /\ pc = "start" /\ pc' = "end"
    /\ code' \in {o.exit : o \in RunOutcomes} \ {Goes}
    /\ UNCHANGED <<conf, callVars, connVars, net, runs, late, err, resp, failed, clean>>

RunSingle ==
    /\ pc = "start" /\ opt.driver = "single"
    /\ mode' \in {o.mode : o \in {x \in RunOutcomes : x.exit = Goes}}
    /\ TakeCommand
    /\ pc' = "dial" /\ attempt' = 1 /\ elapsed' = 0
    /\ dl' = Sooner(DialTimeout, 1, 0)

RunInteractive ==
    /\ pc = "start" /\ opt.driver = "interactive"
    /\ mode' \in {o.mode : o \in {x \in RunOutcomes : x.exit = Goes}}
    /\ pc' = "dial" /\ dl' = DialTimeout
    /\ UNCHANGED <<opt, cmd, check, attempt, elapsed, wait, connVars, net, runs, late, doneVars, clean>>

(* RunInteractive reads a line, or ServeHTTP accepts a request: the        *)
(* command runs on the session, which the handler may have to dial.        *)
SessionExecute ==
    /\ pc = "ready" /\ cmd < opt.cmds
    /\ TakeCommand
    /\ elapsed' = 0 /\ UNCHANGED mode
    /\ IF conn = "none"
         THEN pc' = "dial" /\ attempt' = 0 /\ dl' = DialTimeout
         ELSE pc' = "send" /\ attempt' = 1 /\ UNCHANGED dl

(* ServeHTTP answers without running anything. *)
HttpRefuse ==
    /\ pc = "ready" /\ opt.driver = "http" /\ cmd < opt.cmds
    /\ cmd' = cmd + 1 /\ code' \in Refusals
    /\ UNCHANGED <<conf, pc, check, attempt, elapsed, dl, wait, connVars, net, runs, late,
                   err, resp, failed, clean>>

(* The input ends or fails, or the user quits; the handler is closed. *)
Quit ==
    /\ pc = "ready" /\ pc' = "end"
    /\ CloseConn(net, "closed")
    /\ code' \in IF opt.driver = "http" THEN {code} ELSE {0, 2}
    /\ UNCHANGED <<conf, callVars, id, req, acc, first, runs, err, resp, failed, clean>>

-----------------------------------------------------------------------------
(* Client.dial: a custom DialFunc or net.Dialer, then open.                *)

Dialed ==
    /\ pc = "dial" /\ dl > 0
    /\ pc' = "auth" /\ dl' = Sooner(Deadline, attempt, elapsed)
    /\ socks' = socks + 1
    /\ net' = [NoNet EXCEPT !.up = TRUE]
    /\ UNCHANGED <<conf, cmd, check, attempt, elapsed, wait, conn, id, req, acc, first,
                   runs, late, doneVars, clean>>

DialError ==
    /\ pc = "dial"
    /\ clean' = FALSE
    /\ \E e \in IF dl = 0 THEN {"timeout"} ELSE {"net", "dialer"} : DialReturned(e)
    /\ UNCHANGED <<conf, cmd, check, socks, id, req, acc, first, runs>>

(* The handshake took the first id.  Client.Dial returns to its caller;    *)
(* the handler goes on to run its command.                                 *)
Authenticated ==
    /\ pc = "auth" /\ dl > 0
    /\ conn' = "open" /\ id' = 1
    /\ IF attempt = 0 /\ opt.driver = "interactive"
         THEN pc' = "ready" /\ UNCHANGED attempt
         ELSE pc' = "send" /\ attempt' = IF attempt = 0 THEN 1 ELSE attempt
    /\ UNCHANGED <<conf, cmd, check, elapsed, dl, wait, socks, req, acc, first, net,
                   runs, late, doneVars, clean>>

(* open failed: Dial, or Client.dial for a custom DialFunc, closes the     *)
(* socket.                                                                 *)
SockKept == socks
SockAfterOpen == socks - 1
AuthError ==
    /\ pc = "auth"
    /\ clean' = FALSE
    /\ \E e \in IF dl = 0 THEN {"timeout"}
                ELSE ReadErrs \cup {"net", "ErrAuthFailed", "ErrInvalidAuthResponse"} :
         DialReturned(e)
    /\ socks' = SockAfterOpen
    /\ UNCHANGED <<conf, cmd, check, id, req, acc, first, runs>>

(* The select of Client.Execute between two attempts. *)
BackoffOver ==
    /\ pc = "backoff" /\ wait = 0
    /\ Redial(attempt + 1)
    /\ UNCHANGED <<conf, cmd, check, connVars, net, runs, late, clean>>

BackoffCancelled ==
    /\ pc = "backoff" /\ Done(attempt, elapsed)
    /\ UNCHANGED clean
    /\ Return("DeadlineExceeded", <<>>, "end") /\ code' = ExitCode("DeadlineExceeded")
    /\ UNCHANGED <<conf, cmd, check, connVars, net, runs, late>>

-----------------------------------------------------------------------------
(* Conn.Execute.                                                           *)

execVars == <<conf, cmd, check, runs, clean>>

(* c.id is an int32: past the largest it wraps, and every value that is    *)
(* not positive becomes 1.                                                 *)
NextID(i) ==
    LET j == IF 2 * (i + 1) < Word THEN i + 1 ELSE i + 1 - Word
    IN  IF j <= 0 THEN 1 ELSE j

(* The checks, and a write that fails: the deadline has passed, or the     *)
(* server is gone.                                                         *)
SendError ==
    /\ pc = "send"
    /\ UNCHANGED clean
    /\ \E e \in IF conn = "closed" THEN {"ErrClosed"}
                ELSE IF check # "nil" THEN {check}
                ELSE {x \in {"timeout", "net"} :
                        IF x = "net" THEN ~net.up ELSE Done(attempt, elapsed)} :
         /\ ConnReturned(e, <<>>, net)
         /\ id' = IF e \in NetErrors THEN NextID(id) ELSE id
    /\ UNCHANGED <<execVars, req, acc, first>>

(* The command and, in multi-packet mode, the sentinel. *)
Sentinel(r) == IF mode = "multi" THEN <<[n |-> 0, ID |-> NextID(r)]>> ELSE <<>>
Request(c, r) == <<[n |-> c, ID |-> r]>> \o Sentinel(r)

Send ==
    /\ pc = "send" /\ conn = "open" /\ check = "nil" /\ ~Done(attempt, elapsed)
    /\ req' = NextID(id)
    /\ id' = IF mode = "multi" THEN NextID(req') ELSE req'
    /\ net' = IF net.up THEN [net EXCEPT !.inq = @ \o Request(cmd, req')] ELSE net
    /\ acc' = <<>> /\ first' = TRUE
    /\ pc' = "read" /\ dl' = Sooner(Deadline, attempt, elapsed)
    /\ UNCHANGED <<execVars, attempt, elapsed, wait, conn, socks, late, doneVars>>

(* The next packet, or the error that the read ends with: it waits while   *)
(* the frame is incomplete, the server there and the deadline not passed.  *)
Packet1 == ReadFrom(net.wire, IF ~net.up THEN "EOF" ELSE IF dl = 0 THEN "timeout" ELSE "wait")

AnyPacket(p) == TRUE
Mine(p) == p.ID \in {req, -1}

(* readMultiPacket, readSinglePacket, readIdleDrain: the response is       *)
(* complete, or there is more to read.  serveConn writes nothing after the *)
(* echo of a sentinel, so drainSourceMirror has nothing to do here;        *)
(* RconExchange has a server that does.                                    *)
ReadResponse(p, n) ==
    \/ /\ mode = "multi" /\ p.ID = NextID(req)
       /\ ConnReturned("nil", acc, n) /\ acc' = <<>> /\ first' = TRUE
    \/ /\ mode = "single" /\ Mine(p)
       /\ ConnReturned("nil", p.Body, n) /\ acc' = <<>> /\ first' = TRUE
    \/ /\ mode # "idle" /\ ~Mine(p) /\ (mode = "multi" => p.ID # NextID(req))
       /\ ConnReturned("ErrResponseMismatch", <<>>, n) /\ acc' = <<>> /\ first' = TRUE
    \/ /\ mode = "idle" \/ (mode = "multi" /\ Mine(p))
       /\ acc' = IF Mine(p) THEN acc \o p.Body ELSE acc
       /\ first' = FALSE
       /\ dl' = IF mode = "idle" THEN IdleWindow ELSE dl
       /\ KeepConn(n) /\ UNCHANGED <<pc, attempt, elapsed, wait, doneVars>>

Read ==
    /\ pc = "read" /\ Packet1.err = "nil"
    /\ UNCHANGED clean
    /\ ReadResponse(Packet1.p, [net EXCEPT !.wire = Packet1.rest])
    /\ UNCHANGED <<execVars, id, req>>

(* In idle mode quiet after the first packet is the end of the response.   *)
(* A connection that is gone may also have been reset.  What ReadFrom had  *)
(* of an incomplete frame is lost.                                         *)
Torn == IF net.torn = 0 /\ net.wire # <<>> THEN cmd ELSE net.torn
ReadError ==
    /\ pc = "read"
    /\ UNCHANGED clean
    /\ \E e \in ({Packet1.err} \ {"nil", "wait"}) \cup (IF net.up THEN {} ELSE {"net"}) :
         LET n == [net EXCEPT !.wire = Packet1.rest, !.torn = Torn]
         IN  IF mode = "idle" /\ ~first /\ e \in {"timeout", "EOF"}
               THEN ConnReturned("nil", acc, n)
               ELSE ConnReturned(e, <<>>, n)
    /\ acc' = <<>> /\ first' = TRUE
    /\ UNCHANGED <<execVars, id, req>>

-----------------------------------------------------------------------------
(* The server's end: serveConn, dispatch and writeResponse, the network,   *)
(* and the clock.                                                          *)

clientVars == <<conf, pc, callVars, connVars, doneVars>>
ServerReads(n) == net.up /\ ~net.busy /\ net.inq # <<>> /\ Head(net.inq).n = n

ServerRun == \E n \in Commands :
    /\ ServerReads(n)
    /\ runs' = [runs EXCEPT ![n] = @ + 1]
    /\ net' = [net EXCEPT !.inq = Tail(@), !.busy = TRUE, !.ans = Head(net.inq).ID,
                          !.rest = Response(n)]
    /\ UNCHANGED <<clientVars, late, clean>>

(* A frame may be in pieces when it arrives. *)
Written(n, p) ==
    \E k \in Cuts \cup {Len(WriteTo(p))} :
        /\ k <= Len(WriteTo(p))
        /\ net' = [n EXCEPT !.wire = @ \o SubSeq(WriteTo(p), 1, k),
                            !.out = SubSeq(WriteTo(p), k + 1, Len(WriteTo(p)))]

ServerEcho ==
    /\ ServerReads(0) /\ net.out = <<>>
    /\ Written([net EXCEPT !.inq = Tail(@)], [ID |-> Head(net.inq).ID, Type |-> 0, Body |-> <<>>])
    /\ UNCHANGED <<clientVars, runs, late, clean>>

(* writeResponse: an empty body is one packet. *)
ServerWrite ==
    /\ net.up /\ net.busy /\ net.out = <<>>
    /\ Written([net EXCEPT !.rest = AfterChunk(@), !.busy = AfterChunk(net.rest) # <<>>],
               [ID |-> net.ans, Type |-> 0, Body |-> Chunk(net.rest)])
    /\ UNCHANGED <<clientVars, runs, late, clean>>

Arrive ==
    /\ net.up /\ net.out # <<>>
    /\ net' = [net EXCEPT !.wire = @ \o net.out, !.out = <<>>]
    /\ UNCHANGED <<clientVars, runs, late, clean>>

(* The server or the network drops the connection; what has arrived may be *)
(* lost as well.  The server may still run the commands it has not read.   *)
Drop ==
    /\ net.up /\ pc # "auth"
    /\ \E w \in {net.wire, <<>>} : net' = [NoNet EXCEPT !.wire = w, !.torn = net.torn]
    /\ late' = [c \in Commands |-> late[c] + Pending(net.inq, c)]
    /\ clean' = FALSE
    /\ UNCHANGED <<clientVars, runs>>

LateRun == \E n \in Commands :
    /\ late[n] > 0
    /\ late' = [late EXCEPT ![n] = @ - 1]
    /\ runs' = [runs EXCEPT ![n] = @ + 1]
    /\ UNCHANGED <<clientVars, net, clean>>

(* Time passes while the client waits; waiting past a deadline is a fault. *)
Blocked ==
    \/ pc \in {"dial", "auth"} /\ dl > 0
    \/ pc = "read" /\ Packet1.err = "wait"
    \/ pc = "backoff" /\ wait > 0 /\ ~Done(attempt, elapsed)

Tick ==
    /\ Blocked
    /\ elapsed' = IF HasDeadline(attempt) THEN elapsed + 1 ELSE elapsed
    /\ wait' = IF pc = "backoff" THEN wait - 1 ELSE wait
    /\ dl' = IF pc = "backoff" THEN dl ELSE dl - 1
    /\ clean' = (clean /\ (pc = "backoff" \/ dl > 1))
    /\ UNCHANGED <<conf, pc, cmd, check, attempt, connVars, net, runs, late, doneVars>>

-----------------------------------------------------------------------------
ClientStep ==
    \/ MainEnds \/ RunSingle \/ RunInteractive \/ Dialed \/ DialError \/ Authenticated \/ AuthError
    \/ BackoffOver \/ BackoffCancelled \/ SendError \/ Send \/ Read \/ ReadError
UserStep == SessionExecute \/ HttpRefuse \/ Quit
ServerStep == ServerRun \/ ServerEcho \/ ServerWrite \/ Arrive \/ Drop \/ LateRun

Next == ClientStep \/ UserStep \/ ServerStep \/ Tick

Spec == Init /\ [][Next]_vars

(* The client's goroutine runs and time passes.  The server may do nothing, *)
(* for ever, and the user need not enter anything.                          *)
FairSpec == Spec /\ WF_vars(ClientStep) /\ WF_vars(Tick)

-----------------------------------------------------------------------------
Sent(n) == runs[n] + late[n] + Pending(net.inq, n)

(* A command reaches the server at most as often as Client.Execute makes   *)
(* attempts, and at most twice through a Session, in spite of retries,     *)
(* reconnects and servers that read late.                                  *)
RunsBounded ==
    \A n \in Commands : Sent(n) <= IF opt.driver = "single" THEN LastAttempt ELSE 2

(* Execute has returned a response to its caller, who has not gone on. *)
Succeeded ==
    /\ pc = IF opt.driver = "single" THEN "end" ELSE "ready"
    /\ cmd > 0 /\ err = "nil" /\ (opt.driver = "http" => code = 200)

(* body is the answer to this command and to no other, which the server    *)
(* has run: all of it in multi-packet mode, the first packet or a prefix   *)
(* in the others.                                                          *)
IsAnswer(body) ==
    /\ mode = "multi" => body = Response(cmd) /\ runs[cmd] > 0
    /\ mode = "single" => body = Chunk(Response(cmd)) /\ runs[cmd] > 0
    /\ mode = "idle" => \E k \in 0..opt.len : body = SubSeq(Response(cmd), 1, k)

(* What Execute returns as a success is the answer to its command, when it *)
(* was read from a stream that no earlier command had torn.  A Session may *)
(* go on with a torn one (Session.Execute keeps its Conn, ReadFrom does    *)
(* not look for the next frame): what its reads then take for a frame is   *)
(* up to the bytes of the bodies, and nothing is said of it.               *)
SuccessIsAnswer == Succeeded /\ net.torn \in {0, cmd} => IsAnswer(resp)

(* Every socket the client opens it closes: there is one at a time, and    *)
(* none once Execute, or the Session's owner, has finished.                *)
NoSocketLeak ==
    /\ socks <= 1
    /\ pc \in {"dial", "backoff", "end"} => socks = 0

(* A call of Execute, its dials, retries and backoffs included, takes no   *)
(* longer than the Client's timeout.  Not so in idle mode, where every     *)
(* read after the first packet has the idle window instead.                *)
BoundedByTimeout ==
    opt.timeout > 0 /\ mode # "idle" => elapsed <= opt.timeout

(* The pause before another attempt never exceeds max. *)
BackoffWithinMax == wait <= Max

(* The handler recovers from whatever happened to its session: of the      *)
(* requests that meet no fault at most one in a row fails.  Not so in idle *)
(* mode, where a response may end in the middle of a frame and the session *)
(* goes on from there.                                                     *)
HttpHeals == opt.driver = "http" /\ mode # "idle" => failed <= 1

(* An HTTP client that gets a 4xx may send the command again: it was never *)
(* run and never will be.                                                  *)
RefusedNotRun ==
    opt.driver = "http" /\ pc = "ready" /\ code \in 400..499 => Sent(cmd) = 0

(* A call of Execute returns, whether the server answers, stops half-way   *)
(* or does nothing.  Its answers are finite: in idle mode a server that    *)
(* never paused would keep readIdleDrain reading.                          *)
CallReturns == pc \notin {"ready", "end"} ~> pc \in {"ready", "end"}

(* A Session reconnects: a command that meets no fault succeeds. *)
SessionReconnects == opt.driver = "interactive" => failed = 0
=============================================================================
