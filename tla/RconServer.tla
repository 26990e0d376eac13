----------------------------- MODULE RconServer -----------------------------
(***************************************************************************)
(* The life cycle of rconserver.Server: any number of Serve loops, one     *)
(* goroutine per accepted connection, and goroutines that call Close or    *)
(* Shutdown while all of these run.  Packets are abstracted to the control *)
(* decision they cause; what a command or a password contains is not       *)
(* modelled.  The Server is one that validate() accepts.                   *)
(*                                                                         *)
(* A step is one critical section of s.mu, one access to shared state      *)
(* outside it, or one operation on a socket.  Sections that close sockets  *)
(* one after another are several steps that hold mu.                       *)
(***************************************************************************)
EXTENDS Naturals, FiniteSets

CONSTANTS
    Listeners,    \* the listeners, each given to one call of Serve
    Conns,        \* the connections clients may open
    Closers,      \* goroutines that may call Close
    Shutters,     \* goroutines that may call Shutdown
    Bounded,      \* the calls of Shutdown whose ctx can expire
    CtxHandlers,  \* connections whose handler returns only when its ctx is done
    NoOne         \* mu is not held, or no connection is in hand

Stoppers == Closers \cup Shutters

ASSUME ServerAssumption ==
    /\ IsFiniteSet(Conns)
    /\ Closers \cap Shutters = {}
    /\ Bounded \subseteq Shutters
    /\ CtxHandlers \subseteq Conns
    /\ NoOne \notin Stoppers \cup Conns

VARIABLES
    inShutdown,   \* s.inShutdown
    mu,           \* the stopper that holds s.mu across steps, or NoOne
    listeners,    \* s.listeners
    conns,        \* s.conns
    cancel,       \* s.cancel # nil
    done,         \* doneCtx is cancelled
    wg,           \* the counter of s.handlerWG
    ln,           \* the listening sockets
    backlog,      \* connections the kernel completed and Accept has not returned
    serve,        \* where each call of Serve is
    hand,         \* the connection Accept returned to it
    ret,          \* what it returned
    sock,         \* the server's end of each connection
    conn,         \* where the goroutine of each connection is
    stop,         \* where each call of Close or Shutdown is
    todo,         \* the sockets its loop has not closed yet
    seen,         \* the value of cancel that its critical section made visible
    waiter,       \* where the goroutine that waits for the handlers is
    pending,      \* history: handlers begun before Wait that have not answered yet
    timedOut,     \* Shutdown left its select because ctx expired
    crashed       \* a goroutine panicked outside any recover

srvVars  == <<inShutdown, mu, listeners, conns, cancel, done>>
lnVars   == <<ln, backlog, serve, hand, ret>>
connVars == <<sock, conn>>
stopVars == <<stop, todo, seen, timedOut>>
wgVars   == <<wg, waiter, pending, crashed>>
vars     == <<srvVars, lnVars, connVars, stopVars, wgVars>>

(* dispatch is between handlerWG.Add and handlerWG.Done, and there between *)
(* Add and the end of the write.                                           *)
InFlight == {c \in Conns : conn[c] \in {"handler", "respond", "answered", "failed"}}
Unanswered == {c \in Conns : conn[c] \in {"handler", "respond"}}

TypeOK ==
    /\ inShutdown \in BOOLEAN /\ cancel \in BOOLEAN /\ done \in BOOLEAN
    /\ mu \in Stoppers \cup {NoOne}
    /\ listeners \subseteq Listeners
    /\ conns \subseteq Conns
    /\ wg \in Nat
    /\ ln \in [Listeners -> {"open", "closed"}]
    /\ backlog \in [Listeners -> SUBSET Conns]
    /\ serve \in [Listeners ->
         {"new", "track", "accept", "got", "untrack", "close", "returned"}]
    /\ hand \in [Listeners -> Conns \cup {NoOne}]
    /\ ret \in [Listeners -> {"none", "ErrServerClosed", "err"}]
    /\ sock \in [Conns -> {"none", "backlog", "open", "closed"}]
    /\ conn \in [Conns -> {"none", "auth", "idle", "exec", "handler", "respond",
                           "answered", "failed", "close", "untrack", "done"}]
    /\ stop \in [Stoppers -> {"idle", "lock", "lns", "cancel", "select",
                              "relock", "conns", "returned"}]
    /\ todo \in [Stoppers -> SUBSET (Listeners \cup Conns)]
    /\ seen \in [Stoppers -> BOOLEAN]
    /\ timedOut \in [Stoppers -> BOOLEAN]
    /\ waiter \in [Stoppers -> {"none", "call", "parked", "woken", "closed"}]
    /\ pending \in [Stoppers -> SUBSET Conns]
    /\ crashed \in BOOLEAN

Init ==
    /\ inShutdown = FALSE /\ mu = NoOne /\ listeners = {} /\ conns = {}
    /\ cancel = FALSE /\ done = FALSE /\ wg = 0 /\ crashed = FALSE
    /\ ln = [l \in Listeners |-> "open"]
    /\ backlog = [l \in Listeners |-> {}]
    /\ serve = [l \in Listeners |-> "new"]
    /\ hand = [l \in Listeners |-> NoOne]
    /\ ret = [l \in Listeners |-> "none"]
    /\ sock = [c \in Conns |-> "none"]
    /\ conn = [c \in Conns |-> "none"]
    /\ stop = [s \in Stoppers |-> "idle"]
    /\ todo = [s \in Stoppers |-> {}]
    /\ seen = [s \in Stoppers |-> FALSE]
    /\ timedOut = [s \in Stoppers |-> FALSE]
    /\ waiter = [s \in Stoppers |-> "none"]
    /\ pending = [s \in Stoppers |-> {}]

-----------------------------------------------------------------------------
(* sync.WaitGroup (Go standard library), as dispatch and Shutdown use it.  *)
(* Wait parks until the counter reaches zero; the goroutine that takes it  *)
(* to zero wakes every parked waiter; a waiter that wakes up and finds the *)
(* counter non-zero again panics: the group was reused before the previous *)
(* Wait returned.                                                          *)

WGAdd ==
    /\ wg' = wg + 1
    /\ UNCHANGED <<waiter, pending, crashed>>

WGDone ==
    /\ wg' = wg - 1
    /\ waiter' = [s \in Stoppers |-> IF wg = 1 /\ waiter[s] = "parked"
                                       THEN "woken" ELSE waiter[s]]
    /\ UNCHANGED <<pending, crashed>>

WGWait(s) ==
    /\ waiter[s] = "call"
    /\ waiter' = [waiter EXCEPT ![s] = IF wg = 0 THEN "closed" ELSE "parked"]
    /\ pending' = [pending EXCEPT ![s] = Unanswered]
    /\ UNCHANGED <<wg, crashed, srvVars, lnVars, connVars, stopVars>>

WGWake(s) ==
    /\ waiter[s] = "woken"
    /\ IF wg = 0
         THEN waiter' = [waiter EXCEPT ![s] = "closed"] /\ UNCHANGED crashed
         ELSE crashed' = TRUE /\ UNCHANGED waiter
    /\ UNCHANGED <<wg, pending, srvVars, lnVars, connVars, stopVars>>

-----------------------------------------------------------------------------
(* Sockets.  Closing a listener resets the connections in its backlog.     *)

CloseListener(l) ==
    /\ ln' = [ln EXCEPT ![l] = "closed"]
    /\ backlog' = [backlog EXCEPT ![l] = {}]
    /\ sock' = [c \in Conns |-> IF c \in backlog[l] THEN "closed" ELSE sock[c]]

Connect(c, l) ==
    /\ sock[c] = "none" /\ ln[l] = "open"
    /\ sock' = [sock EXCEPT ![c] = "backlog"]
    /\ backlog' = [backlog EXCEPT ![l] = @ \cup {c}]
    /\ UNCHANGED <<ln, serve, hand, ret, conn, srvVars, stopVars, wgVars>>

-----------------------------------------------------------------------------
(* Serve.                                                                  *)

(* The add path of trackConn and trackListener refuses once the server is  *)
(* shutting down.                                                          *)
ConnRefusedNever == FALSE
ConnRefused == inShutdown
ListenerRefusedNever == FALSE
ListenerRefused == inShutdown

(* What a failed Accept makes Serve return. *)
AcceptErrorAlways == "err"
AcceptError == IF inShutdown THEN "ErrServerClosed" ELSE "err"

ServeInit(l) ==
    /\ serve[l] = "new" /\ mu = NoOne
    /\ cancel' = TRUE
    /\ serve' = [serve EXCEPT ![l] = "track"]
    /\ UNCHANGED <<inShutdown, mu, listeners, conns, done, ln, backlog, hand, ret,
                   connVars, stopVars, wgVars>>

ServeTrackListener(l) ==
    /\ serve[l] = "track" /\ mu = NoOne
    /\ IF ListenerRefused
         THEN /\ serve' = [serve EXCEPT ![l] = "close"]
              /\ ret' = [ret EXCEPT ![l] = "ErrServerClosed"]
              /\ UNCHANGED listeners
         ELSE /\ serve' = [serve EXCEPT ![l] = "accept"]
              /\ listeners' = listeners \cup {l}
              /\ UNCHANGED ret
    /\ UNCHANGED <<inShutdown, mu, conns, cancel, done, ln, backlog, hand,
                   connVars, stopVars, wgVars>>

ServeAccept(l) == \E c \in backlog[l] :
    /\ serve[l] = "accept" /\ ln[l] = "open"
    /\ backlog' = [backlog EXCEPT ![l] = @ \ {c}]
    /\ sock' = [sock EXCEPT ![c] = "open"]
    /\ hand' = [hand EXCEPT ![l] = c]
    /\ serve' = [serve EXCEPT ![l] = "got"]
    /\ UNCHANGED <<ln, ret, conn, srvVars, stopVars, wgVars>>

(* Accept fails on a closed listener, and may fail on an open one. *)
ServeAcceptError(l) ==
    /\ serve[l] = "accept"
    /\ ret' = [ret EXCEPT ![l] = AcceptError]
    /\ serve' = [serve EXCEPT ![l] = "untrack"]
    /\ UNCHANGED <<ln, backlog, hand, connVars, srvVars, stopVars, wgVars>>

ServeTrackConn(l) ==
    /\ serve[l] = "got" /\ mu = NoOne
    /\ IF ConnRefused
         THEN /\ sock' = [sock EXCEPT ![hand[l]] = "closed"]
              /\ ret' = [ret EXCEPT ![l] = "ErrServerClosed"]
              /\ serve' = [serve EXCEPT ![l] = "untrack"]
              /\ UNCHANGED <<conn, conns>>
         ELSE /\ conns' = conns \cup {hand[l]}
              /\ conn' = [conn EXCEPT ![hand[l]] = "auth"]
              /\ serve' = [serve EXCEPT ![l] = "accept"]
              /\ UNCHANGED <<sock, ret>>
    /\ hand' = [hand EXCEPT ![l] = NoOne]
    /\ UNCHANGED <<inShutdown, mu, listeners, cancel, done, ln, backlog,
                   stopVars, wgVars>>

ServeUntrackListener(l) ==
    /\ serve[l] = "untrack" /\ mu = NoOne
    /\ listeners' = listeners \ {l}
    /\ serve' = [serve EXCEPT ![l] = "close"]
    /\ UNCHANGED <<inShutdown, mu, conns, cancel, done, ln, backlog, hand, ret,
                   connVars, stopVars, wgVars>>

ServeCloseListener(l) ==
    /\ serve[l] = "close"
    /\ CloseListener(l)
    /\ serve' = [serve EXCEPT ![l] = "returned"]
    /\ UNCHANGED <<hand, ret, conn, srvVars, stopVars, wgVars>>

-----------------------------------------------------------------------------
(* serveConn and dispatch.  A sentinel is echoed and an unknown packet     *)
(* ignored without a change to any of these variables.                     *)

ConnGoto(c, from, to) ==
    /\ conn[c] = from
    /\ conn' = [conn EXCEPT ![c] = to]

ConnAuthenticated(c) ==
    /\ ConnGoto(c, "auth", "idle") /\ sock[c] = "open"
    /\ UNCHANGED <<sock, srvVars, lnVars, stopVars, wgVars>>

(* Refused credentials, a first packet that is no auth request, or a read  *)
(* that failed: the client left, ReadTimeout passed, a bad frame arrived,  *)
(* or the server closed the socket.                                        *)
ConnFail(c) ==
    /\ ConnGoto(c, "auth", "close") \/ ConnGoto(c, "idle", "close")
    /\ UNCHANGED <<sock, srvVars, lnVars, stopVars, wgVars>>

ConnReadExec(c) ==
    /\ ConnGoto(c, "idle", "exec") /\ sock[c] = "open"
    /\ UNCHANGED <<sock, srvVars, lnVars, stopVars, wgVars>>

DispatchUncounted(c) ==
    /\ ConnGoto(c, "exec", "handler")
    /\ UNCHANGED <<sock, srvVars, lnVars, stopVars, wgVars>>
Dispatch(c) ==
    /\ ConnGoto(c, "exec", "handler")
    /\ WGAdd
    /\ UNCHANGED <<sock, srvVars, lnVars, stopVars>>

HandlerReturnEarly(c) ==
    /\ c \in CtxHandlers => done
    /\ ConnGoto(c, "handler", "answered")
    /\ UNCHANGED <<sock, srvVars, lnVars, stopVars, wgVars>>
HandlerReturn(c) ==
    /\ c \in CtxHandlers => done
    /\ ConnGoto(c, "handler", "respond")
    /\ UNCHANGED <<sock, srvVars, lnVars, stopVars, wgVars>>

(* The history of what dispatch has done for its command: it has written   *)
(* the response, could not, or has none to write because of a panic.       *)
Answered(c) ==
    /\ pending' = [s \in Stoppers |-> pending[s] \ {c}]
    /\ UNCHANGED <<wg, waiter, crashed>>

HandlerPanicUncounted(c) ==
    /\ ConnGoto(c, "handler", "close")
    /\ Answered(c)
    /\ UNCHANGED <<sock, srvVars, lnVars, stopVars>>
HandlerPanic(c) ==
    /\ ConnGoto(c, "handler", "failed")
    /\ Answered(c)
    /\ UNCHANGED <<sock, srvVars, lnVars, stopVars>>

(* writeResponse needs the socket; it may fail on an open one as well. *)
Respond(c) ==
    /\ \/ ConnGoto(c, "respond", "answered") /\ sock[c] = "open"
       \/ ConnGoto(c, "respond", "failed")
    /\ Answered(c)
    /\ UNCHANGED <<sock, srvVars, lnVars, stopVars>>

(* The deferred handlerWG.Done, and what serveConn does with the result. *)
DispatchReturn(c) ==
    /\ ConnGoto(c, "answered", "idle") \/ ConnGoto(c, "failed", "close")
    /\ WGDone
    /\ UNCHANGED <<sock, srvVars, lnVars, stopVars>>

ConnClose(c) ==
    /\ ConnGoto(c, "close", "untrack")
    /\ sock' = [sock EXCEPT ![c] = "closed"]
    /\ UNCHANGED <<srvVars, lnVars, stopVars, wgVars>>

ConnUntrack(c) ==
    /\ ConnGoto(c, "untrack", "done") /\ mu = NoOne
    /\ conns' = conns \ {c}
    /\ UNCHANGED <<inShutdown, mu, listeners, cancel, done, sock, lnVars,
                   stopVars, wgVars>>

-----------------------------------------------------------------------------
(* Close and Shutdown.                                                     *)

StopGoto(s, from, to) ==
    /\ stop[s] = from
    /\ stop' = [stop EXCEPT ![s] = to]

StopBegin(s) ==
    /\ StopGoto(s, "idle", "lock")
    /\ inShutdown' = TRUE
    /\ UNCHANGED <<mu, listeners, conns, cancel, done, todo, seen, timedOut,
                   lnVars, connVars, wgVars>>

(* Close cancels doneCtx under mu; Shutdown only closes listeners here. *)
StopLockOnly(s) ==
    /\ StopGoto(s, "lock", "lns")
    /\ mu = NoOne /\ mu' = s
    /\ todo' = [todo EXCEPT ![s] = listeners]
    /\ seen' = [seen EXCEPT ![s] = cancel]
    /\ UNCHANGED <<inShutdown, listeners, conns, cancel, done, timedOut,
                   lnVars, connVars, wgVars>>
StopLock(s) ==
    /\ StopGoto(s, "lock", "lns")
    /\ mu = NoOne /\ mu' = s
    /\ todo' = [todo EXCEPT ![s] = listeners]
    /\ seen' = [seen EXCEPT ![s] = cancel]
    /\ done' = (done \/ (s \in Closers /\ cancel))
    /\ UNCHANGED <<inShutdown, listeners, conns, cancel, timedOut,
                   lnVars, connVars, wgVars>>

StopCloseListener(s) == \E l \in todo[s] :
    /\ stop[s] = "lns"
    /\ CloseListener(l)
    /\ todo' = [todo EXCEPT ![s] = @ \ {l}]
    /\ UNCHANGED <<serve, hand, ret, conn, stop, seen, timedOut, srvVars, wgVars>>

CloseListenersDone(s) ==
    /\ s \in Closers /\ todo[s] = {}
    /\ StopGoto(s, "lns", "conns")
    /\ todo' = [todo EXCEPT ![s] = conns]
    /\ UNCHANGED <<seen, timedOut, srvVars, lnVars, connVars, wgVars>>

ShutdownKeepsLock(s) ==
    /\ s \in Shutters /\ todo[s] = {}
    /\ StopGoto(s, "lns", "cancel")
    /\ UNCHANGED <<todo, seen, timedOut, srvVars, lnVars, connVars, wgVars>>
ShutdownListenersDone(s) ==
    /\ s \in Shutters /\ todo[s] = {}
    /\ StopGoto(s, "lns", "cancel")
    /\ mu' = NoOne
    /\ UNCHANGED <<inShutdown, listeners, conns, cancel, done, todo, seen, timedOut,
                   lnVars, connVars, wgVars>>

(* Shutdown reads s.cancel without mu, a data race with Serve's write: it  *)
(* may get the value its critical section saw or the one written since.    *)
CancelSkipped(s) == {FALSE}
CancelRead(s) == {seen[s], cancel}

ShutdownCancel(s) == \E c \in CancelRead(s) :
    /\ StopGoto(s, "cancel", "select")
    /\ done' = (done \/ c)
    /\ waiter' = [waiter EXCEPT ![s] = "call"]
    /\ UNCHANGED <<inShutdown, mu, listeners, conns, cancel, todo, seen, timedOut,
                   wg, pending, crashed, lnVars, connVars>>

WaitDone(s) == waiter[s] = "closed"

ShutdownSelect(s) ==
    /\ StopGoto(s, "select", "relock")
    /\ \/ WaitDone(s) /\ UNCHANGED timedOut
       \/ s \in Bounded /\ timedOut' = [timedOut EXCEPT ![s] = TRUE]
    /\ UNCHANGED <<todo, seen, srvVars, lnVars, connVars, wgVars>>

ShutdownRelock(s) ==
    /\ StopGoto(s, "relock", "conns")
    /\ mu = NoOne /\ mu' = s
    /\ todo' = [todo EXCEPT ![s] = conns]
    /\ UNCHANGED <<inShutdown, listeners, conns, cancel, done, seen, timedOut,
                   lnVars, connVars, wgVars>>

StopCloseConn(s) == \E c \in todo[s] :
    /\ stop[s] = "conns"
    /\ sock' = [sock EXCEPT ![c] = "closed"]
    /\ todo' = [todo EXCEPT ![s] = @ \ {c}]
    /\ UNCHANGED <<stop, seen, timedOut, conn, srvVars, lnVars, wgVars>>

StopReturn(s) ==
    /\ todo[s] = {}
    /\ StopGoto(s, "conns", "returned")
    /\ mu' = NoOne
    /\ UNCHANGED <<inShutdown, listeners, conns, cancel, done, todo, seen, timedOut,
                   lnVars, connVars, wgVars>>

-----------------------------------------------------------------------------
ServeStep(l) ==
    \/ ServeInit(l) \/ ServeTrackListener(l) \/ ServeAccept(l)
    \/ ServeAcceptError(l) \/ ServeTrackConn(l)
    \/ ServeUntrackListener(l) \/ ServeCloseListener(l)

ConnStep(c) ==
    \/ ConnAuthenticated(c) \/ ConnFail(c) \/ ConnReadExec(c) \/ Dispatch(c)
    \/ HandlerReturn(c) \/ HandlerPanic(c) \/ Respond(c) \/ DispatchReturn(c)
    \/ ConnClose(c) \/ ConnUntrack(c)

StopStep(s) ==
    \/ StopLock(s) \/ StopCloseListener(s) \/ CloseListenersDone(s)
    \/ ShutdownListenersDone(s) \/ ShutdownCancel(s) \/ ShutdownSelect(s)
    \/ ShutdownRelock(s) \/ StopCloseConn(s) \/ StopReturn(s)

WaiterStep(s) == WGWait(s) \/ WGWake(s)

(* A panic that nothing recovers ends the process. *)
Next ==
    /\ ~crashed
    /\ \/ \E c \in Conns, l \in Listeners : Connect(c, l)
       \/ \E l \in Listeners : ServeStep(l)
       \/ \E c \in Conns : ConnStep(c)
       \/ \E s \in Stoppers : StopBegin(s) \/ StopStep(s) \/ WaiterStep(s)

Spec == Init /\ [][Next]_vars

(* The scheduler runs every goroutine that can run, and mu is held across  *)
(* steps only finitely often.  An Accept, a read and, to a client that     *)
(* does not read, a write return once their socket is closed; a handler    *)
(* returns once its context is done.  Clients, and calls of Serve, Close   *)
(* and Shutdown, are free.                                                 *)
ServeProgress(l) ==
    \/ ln[l] = "closed" /\ ServeAcceptError(l)
    \/ ServeTrackListener(l) \/ ServeTrackConn(l)
    \/ ServeUntrackListener(l) \/ ServeCloseListener(l)

ConnProgress(c) ==
    \/ sock[c] = "closed" /\ (ConnFail(c) \/ Respond(c))
    \/ Dispatch(c) \/ HandlerReturn(c) \/ DispatchReturn(c) \/ ConnClose(c) \/ ConnUntrack(c)

Fairness ==
    /\ \A l \in Listeners : WF_vars(~crashed /\ ServeProgress(l))
    /\ \A c \in Conns : WF_vars(~crashed /\ ConnProgress(c))
    /\ \A s \in Stoppers : WF_vars(~crashed /\ StopStep(s))
    /\ \A s \in Stoppers : WF_vars(~crashed /\ WaiterStep(s))

FairSpec == Spec /\ Fairness

-----------------------------------------------------------------------------
(* Properties.                                                             *)

(* Once Close or Shutdown has returned, the only connection still open is  *)
(* one that a Serve has accepted and is about to refuse: a connection      *)
(* accepted while the server stops is never left behind (trackConn).       *)
NoLeakedConn ==
    \A s \in Stoppers : stop[s] = "returned" =>
        \A c \in Conns : sock[c] = "open" =>
            \E l \in Listeners : serve[l] = "got" /\ hand[l] = c

(* Once Close or Shutdown has returned, no Serve accepts on a listener     *)
(* that is still open (trackListener).                                     *)
NoLeakedListener ==
    \A s \in Stoppers : stop[s] = "returned" =>
        \A l \in Listeners : serve[l] \in {"accept", "got"} => ln[l] = "closed"

(* A Shutdown that did not time out closes connections only after dispatch *)
(* has written the response, or has failed, for every handler that had     *)
(* begun when it called Wait: the deferred Done comes after the write.     *)
GracefulDrain ==
    \A s \in Shutters :
        stop[s] \in {"relock", "conns", "returned"} /\ ~timedOut[s] => pending[s] = {}

(* From the moment Close or Shutdown has cancelled, every command being    *)
(* dispatched has a cancelled context, although Shutdown reads s.cancel    *)
(* without holding mu.                                                     *)
HandlersCancelled ==
    \A s \in Stoppers :
        \/ stop[s] \in {"select", "relock", "conns", "returned"}
        \/ stop[s] = "lns" /\ s \in Closers
        => \A c \in Conns : c \in InFlight \/ conn[c] = "exec" => done

(* Serve returns a plain error only for an Accept that failed on a         *)
(* listener nobody had closed; stopped by Close or Shutdown it returns     *)
(* ErrServerClosed, because the flag is set before any listener is closed. *)
StopReportsServerClosed ==
    [][\A l \in Listeners : ret[l] = "none" /\ ret'[l] = "err" => ln[l] = "open"]_vars

(* After Close or Shutdown has returned, every call of Serve that had      *)
(* begun returns.                                                          *)
ServeReturns ==
    \A s \in Stoppers, l \in Listeners :
        stop[s] = "returned" /\ serve[l] # "new" ~> serve[l] = "returned" \/ crashed

(* After Close or Shutdown has returned, the goroutine of every connection *)
(* ends, including those whose handler waits for its context.              *)
ConnGoroutinesEnd ==
    \A s \in Stoppers : stop[s] = "returned" ~>
        crashed \/ \A c \in Conns : conn[c] \in {"none", "done"}

(* A Shutdown whose context expires returns, whatever the handlers do. *)
BoundedShutdownReturns ==
    \A s \in Bounded : stop[s] = "lock" ~> stop[s] = "returned" \/ crashed

(* The goroutine in which such a Shutdown waits for the handlers ends too, *)
(* although Shutdown may have left it behind: on every path through        *)
(* dispatch, a panic and a failed write included, each Add has its Done.   *)
WaiterEnds ==
    \A s \in Bounded : waiter[s] = "call" ~> waiter[s] = "closed" \/ crashed

(* What the comment on Shutdown says of a command that arrives meanwhile,  *)
(* "a command accepted moments earlier may still race past that check":    *)
(* the race costs that command its wait and nothing else.  It does not     *)
(* hold: Add between the wake-up and the return of Wait is a reuse that    *)
(* sync.WaitGroup answers with a panic in the waiting goroutine.           *)
ShutdownNeverPanics == ~crashed
=============================================================================
