-------------------------- MODULE RconServerProofs --------------------------
(***************************************************************************)
(* The safety properties of RconServer for any number of listeners,        *)
(* connections and stopping goroutines.  IInv is inductive and implies     *)
(* them.                                                                   *)
(***************************************************************************)
EXTENDS RconServer, FiniteSetTheorems, TLAPS

(* A stopper past the point where it cancelled doneCtx. *)
Cancelled(s) ==
    \/ stop[s] \in {"select", "relock", "conns", "returned"}
    \/ stop[s] = "lns" /\ s \in Closers

(* mu is held by the stopper that is in a loop over sockets, and the flag  *)
(* was set before.                                                         *)
LockInv == \A s \in Stoppers :
    /\ stop[s] \in {"lns", "conns"} <=> mu = s
    /\ stop[s] # "idle" => inShutdown

(* Where a connection can be: in one backlog, in the hands of one Serve,   *)
(* or tracked from trackConn to the end of its goroutine.                  *)
ConnInv ==
    /\ \A l \in Listeners : \A c \in backlog[l] : sock[c] = "backlog"
    /\ \A k, l \in Listeners : backlog[k] \cap backlog[l] # {} => k = l
    /\ \A l \in Listeners : serve[l] = "got" =>
         hand[l] \in Conns /\ sock[hand[l]] = "open" /\ conn[hand[l]] = "none"
    /\ \A k, l \in Listeners :
         serve[k] = "got" /\ serve[l] = "got" /\ hand[k] = hand[l] => k = l
    /\ \A c \in Conns : sock[c] \in {"none", "backlog"} => conn[c] = "none"
    /\ \A c \in Conns : c \in conns <=> conn[c] \notin {"none", "done"}
    /\ \A c \in Conns : conn[c] \in {"untrack", "done"} => sock[c] = "closed"
    /\ \A c \in Conns : sock[c] = "open" =>
         c \in conns \/ \E l \in Listeners : serve[l] = "got" /\ hand[l] = c

(* The loop over conns leaves no tracked connection open. *)
CloseConnsInv == \A s \in Stoppers :
    /\ stop[s] = "conns" =>
         todo[s] \subseteq conns /\ \A c \in conns : sock[c] = "open" => c \in todo[s]
    /\ stop[s] = "returned" => \A c \in conns : sock[c] # "open"

(* The loop over listeners leaves no tracked listener open, and nobody     *)
(* closes a listener that Serve uses before the flag is set.               *)
ListenerInv ==
    /\ \A l \in Listeners : ln[l] = "closed" => inShutdown \/ serve[l] = "returned"
    /\ \A l \in Listeners : serve[l] \in {"accept", "got", "untrack"} => l \in listeners
    /\ \A s \in Stoppers :
         /\ stop[s] = "lns" =>
              todo[s] \subseteq Listeners /\
              \A l \in listeners : ln[l] = "open" => l \in todo[s]
         /\ stop[s] \in {"cancel", "select", "relock", "conns", "returned"} =>
              \A l \in listeners : ln[l] = "closed"

(* A connection was tracked before any stopper set the flag, hence after   *)
(* Serve wrote s.cancel and before every stopper's critical section.       *)
CtxInv ==
    /\ \A l \in Listeners : serve[l] # "new" => cancel
    /\ \A c \in Conns : conn[c] # "none" => cancel
    /\ \A s \in Stoppers :
         /\ seen[s] => cancel
         /\ stop[s] \notin {"idle", "lock"} =>
              \A c \in Conns : conn[c] # "none" => seen[s]
         /\ Cancelled(s) /\ seen[s] => done

(* handlerWG counts the handlers in flight, and no waiter returns from     *)
(* Wait while a handler that had begun before it is one of them.           *)
WaitInv ==
    /\ wg = Cardinality(InFlight)
    /\ \A s \in Stoppers :
         /\ pending[s] \subseteq Unanswered
         /\ waiter[s] \in {"woken", "closed"} => pending[s] = {}
         /\ s \in Shutters /\ stop[s] \in {"relock", "conns", "returned"}
              /\ ~timedOut[s] => waiter[s] = "closed"

IInv == TypeOK /\ LockInv /\ ConnInv /\ CloseConnsInv /\ ListenerInv /\ CtxInv /\ WaitInv

-----------------------------------------------------------------------------
USE DEF Stoppers

(* The initial state satisfies the inductive invariant. *)
LEMMA InitIInv == Init => IInv
<1> SUFFICES ASSUME Init PROVE IInv
  BY Zenon
<1>1. TypeOK
  BY Zenon DEF Init, TypeOK
<1>2. LockInv /\ ConnInv /\ CloseConnsInv /\ ListenerInv /\ CtxInv
  BY ServerAssumption, Zenon DEF Init, LockInv, ConnInv, CloseConnsInv, ListenerInv, CtxInv, Cancelled
<1>3. InFlight = {}
  BY Zenon DEF Init, InFlight
<1>4. WaitInv
  BY <1>3, FS_EmptySet, Zenon DEF Init, WaitInv
<1> QED
  BY <1>1, <1>2, <1>4, Zenon DEF IInv

(* The handlers in flight are finitely many, one per connection at most. *)
LEMMA InFlightFinite == IsFiniteSet(InFlight)
  BY ServerAssumption, FS_Subset, Zenon DEF InFlight

(* handlerWG.Done is called with a positive counter. *)
LEMMA DonePositive ==
  ASSUME IInv, NEW c \in InFlight PROVE wg \in Nat /\ wg >= 1 /\ wg - 1 \in Nat
<1>1. wg = Cardinality(InFlight) /\ wg \in Nat
  BY Zenon DEF IInv, WaitInv, TypeOK
<1>2. Cardinality(InFlight) # 0
  BY InFlightFinite, FS_EmptySet, Zenon
<1> QED
  BY <1>1, <1>2

(* Every step preserves the types. *)
LEMMA TypeStep == IInv /\ [Next]_vars => TypeOK'
<1> SUFFICES ASSUME IInv, [Next]_vars PROVE TypeOK'
  BY Zenon
<1> USE DEF srvVars, lnVars, connVars, stopVars, wgVars
<1>0. TypeOK
  BY Zenon DEF IInv
<1>1. ASSUME NEW c \in Conns, NEW l \in Listeners, Connect(c, l) PROVE TypeOK'
  BY <1>0, <1>1 DEF TypeOK, Connect
<1>2. ASSUME NEW l \in Listeners, ServeStep(l) PROVE TypeOK'
  <2>1. CASE ServeInit(l)
    BY <1>0, <2>1, Zenon DEF TypeOK, ServeInit
  <2>2. CASE ServeTrackListener(l)
    BY <1>0, <2>2 DEF TypeOK, ServeTrackListener
  <2>3. CASE ServeAccept(l)
    BY <1>0, <2>3 DEF TypeOK, ServeAccept
  <2>4. CASE ServeAcceptError(l)
    BY <1>0, <2>4, Zenon DEF TypeOK, ServeAcceptError, AcceptError
  <2>5. CASE ServeTrackConn(l)
    <3>1. hand[l] \in Conns
      BY <2>5, Zenon DEF IInv, ConnInv, ServeTrackConn
    <3>2. CASE ConnRefused
      BY <1>0, <2>5, <3>1, <3>2 DEF TypeOK, ServeTrackConn
    <3>3. CASE ~ConnRefused
      BY <1>0, <2>5, <3>1, <3>3 DEF TypeOK, ServeTrackConn
    <3> QED
      BY <3>2, <3>3, Zenon
  <2>6. CASE ServeUntrackListener(l)
    BY <1>0, <2>6, Zenon DEF TypeOK, ServeUntrackListener
  <2>7. CASE ServeCloseListener(l)
    BY <1>0, <2>7 DEF TypeOK, ServeCloseListener, CloseListener
  <2> QED
    BY <1>2, <2>1, <2>2, <2>3, <2>4, <2>5, <2>6, <2>7, Zenon DEF ServeStep
<1>3. ASSUME NEW c \in Conns, ConnStep(c) PROVE TypeOK'
  <2>1. CASE \/ ConnAuthenticated(c) \/ ConnFail(c) \/ ConnReadExec(c)
             \/ HandlerReturn(c) \/ ConnClose(c) \/ ConnUntrack(c)
    BY <1>0, <2>1 DEF TypeOK, ConnGoto, ConnAuthenticated, ConnFail, ConnReadExec,
                      HandlerReturn, ConnClose, ConnUntrack
  <2>2. CASE Dispatch(c)
    BY <1>0, <2>2 DEF TypeOK, ConnGoto, Dispatch, WGAdd
  <2>3. CASE HandlerPanic(c) \/ Respond(c)
    BY <1>0, <2>3 DEF TypeOK, ConnGoto, HandlerPanic, Respond, Answered
  <2>4. CASE DispatchReturn(c)
    <3>1. c \in InFlight
      BY <2>4, Zenon DEF InFlight, DispatchReturn, ConnGoto
    <3>2. wg - 1 \in Nat
      BY <3>1, DonePositive, Zenon
    <3> QED
      BY <1>0, <2>4, <3>2 DEF TypeOK, ConnGoto, DispatchReturn, WGDone
  <2> QED
    BY <1>3, <2>1, <2>2, <2>3, <2>4, Zenon DEF ConnStep
<1>4. ASSUME NEW s \in Stoppers, StopBegin(s) \/ StopStep(s) PROVE TypeOK'
  <2>0. CASE StopBegin(s)
    BY <1>0, <2>0, Zenon DEF TypeOK, StopGoto, StopBegin
  <2>1. CASE StopLock(s)
    <3>1. done' \in BOOLEAN
      BY <1>0, <2>1, Zenon DEF StopLock
    <3> QED
      BY <1>0, <2>1, <3>1, Zenon DEF TypeOK, StopGoto, StopLock
  <2>2. CASE StopCloseListener(s)
    <3>1. PICK l \in todo[s] : StopCloseListener(s)!(l)
      BY <2>2, Zenon DEF StopCloseListener
    <3> QED
      BY <1>0, <3>1, Zenon DEF TypeOK, CloseListener, IInv, ListenerInv
  <2>3. CASE CloseListenersDone(s) \/ ShutdownListenersDone(s)
    BY <1>0, <2>3 DEF TypeOK, StopGoto, CloseListenersDone, ShutdownListenersDone
  <2>4. CASE ShutdownCancel(s)
    BY <1>0, <2>4 DEF TypeOK, StopGoto, ShutdownCancel, CancelRead
  <2>5. CASE ShutdownSelect(s)
    <3>1. timedOut' \in [Stoppers -> BOOLEAN]
      BY <1>0, <2>5, Zenon DEF TypeOK, ShutdownSelect
    <3>2. stop' \in [Stoppers -> {"idle", "lock", "lns", "cancel", "select",
                                  "relock", "conns", "returned"}]
      BY <1>0, <2>5, Zenon DEF TypeOK, StopGoto, ShutdownSelect
    <3>3. UNCHANGED <<todo, seen, srvVars, lnVars, connVars, wgVars>>
      BY <2>5, Zenon DEF ShutdownSelect
    <3> QED
      BY <1>0, <3>1, <3>2, <3>3, Zenon DEF TypeOK
  <2>7. CASE ShutdownRelock(s)
    BY <1>0, <2>7, Zenon DEF TypeOK, StopGoto, ShutdownRelock
  <2>6. CASE StopCloseConn(s) \/ StopReturn(s)
    BY <1>0, <2>6 DEF TypeOK, StopGoto, StopCloseConn, StopReturn
  <2> QED
    BY <1>4, <2>0, <2>1, <2>2, <2>3, <2>4, <2>5, <2>6, <2>7, Zenon DEF StopStep
<1>5. ASSUME NEW s \in Stoppers, WaiterStep(s) PROVE TypeOK'
  <2>1. Unanswered \in SUBSET Conns
    BY Zenon DEF Unanswered
  <2>2. CASE WGWait(s)
    BY <1>0, <2>1, <2>2, Zenon DEF TypeOK, WGWait
  <2>3. CASE WGWake(s)
    <3>1. crashed' \in BOOLEAN
      BY <1>0, <2>3, Zenon DEF TypeOK, WGWake
    <3>2. waiter' \in [Stoppers -> {"none", "call", "parked", "woken", "closed"}]
      BY <1>0, <2>3 DEF TypeOK, WGWake
    <3>3. UNCHANGED <<wg, pending, srvVars, lnVars, connVars, stopVars>>
      BY <2>3, Zenon DEF WGWake
    <3> QED
      BY <1>0, <3>1, <3>2, <3>3, Zenon DEF TypeOK
  <2> QED
    BY <1>5, <2>2, <2>3, Zenon DEF WaiterStep
<1>6. CASE UNCHANGED vars
  BY <1>0, <1>6, Zenon DEF TypeOK, vars
<1> QED
  BY <1>1, <1>2, <1>3, <1>4, <1>5, <1>6, Zenon DEF Next

(* Only stoppers touch mu across steps, and only one of them at a time. *)
LEMMA LockStep == IInv /\ [Next]_vars => LockInv'
<1> SUFFICES ASSUME IInv, [Next]_vars PROVE LockInv'
  BY Zenon
<1> USE ServerAssumption DEF srvVars, lnVars, connVars, stopVars, wgVars
<1>0. TypeOK /\ LockInv
  BY Zenon DEF IInv
<1>1. ASSUME NEW s \in Stoppers, StopBegin(s) \/ StopStep(s) PROVE LockInv'
  <2>1. CASE StopBegin(s) \/ ShutdownCancel(s) \/ ShutdownSelect(s)
    BY <1>0, <2>1 DEF TypeOK, LockInv, StopGoto, StopBegin, ShutdownCancel, ShutdownSelect
  <2>2. CASE StopLock(s) \/ ShutdownRelock(s)
    BY <1>0, <2>2 DEF TypeOK, LockInv, StopGoto, StopLock, ShutdownRelock
  <2>3. CASE StopCloseListener(s) \/ StopCloseConn(s)
    BY <1>0, <2>3 DEF LockInv, StopCloseListener, StopCloseConn
  <2>4. CASE CloseListenersDone(s)
    BY <1>0, <2>4, Zenon DEF TypeOK, LockInv, StopGoto, CloseListenersDone
  <2>5. CASE ShutdownListenersDone(s) \/ StopReturn(s)
    BY <1>0, <2>5 DEF TypeOK, LockInv, StopGoto, ShutdownListenersDone, StopReturn
  <2> QED
    BY <1>1, <2>1, <2>2, <2>3, <2>4, <2>5, Zenon DEF StopStep
<1>2. ASSUME UNCHANGED <<stop, mu, inShutdown>> PROVE LockInv'
  BY <1>0, <1>2, Zenon DEF LockInv
<1>3. ASSUME NEW c \in Conns, NEW l \in Listeners, Connect(c, l)
      PROVE UNCHANGED <<stop, mu, inShutdown>>
  BY <1>3, Zenon DEF Connect
<1>4. ASSUME NEW l \in Listeners, ServeStep(l) PROVE UNCHANGED <<stop, mu, inShutdown>>
  BY <1>4, Zenon DEF ServeStep, ServeInit, ServeTrackListener, ServeAccept, ServeAcceptError,
              ServeTrackConn, ServeUntrackListener, ServeCloseListener
<1>5. ASSUME NEW c \in Conns, ConnStep(c) PROVE UNCHANGED <<stop, mu, inShutdown>>
  BY <1>5, Zenon DEF ConnStep, ConnAuthenticated, ConnFail, ConnReadExec, Dispatch,
              HandlerReturn, HandlerPanic, Respond, DispatchReturn, ConnClose, ConnUntrack
<1>6. ASSUME NEW s \in Stoppers, WaiterStep(s) PROVE UNCHANGED <<stop, mu, inShutdown>>
  BY <1>6, Zenon DEF WaiterStep, WGWait, WGWake
<1>7. CASE UNCHANGED vars
  BY <1>2, <1>7, Zenon DEF vars
<1> QED
  BY <1>1, <1>2, <1>3, <1>4, <1>5, <1>6, <1>7, Zenon DEF Next

-----------------------------------------------------------------------------
(* A step from IInv preserves the parts of it about sockets: connections   *)
(* and listeners, and the loops that close them.                           *)

(* Every step keeps each connection in one place. *)
LEMMA ConnInvStep == IInv /\ [Next]_vars => ConnInv'
<1> SUFFICES ASSUME IInv, [Next]_vars PROVE ConnInv'
  OBVIOUS
<1> USE ServerAssumption DEF srvVars, lnVars, connVars, stopVars, wgVars
<1>0. TypeOK /\ ConnInv
  BY Zenon DEF IInv
<1>1. ASSUME NEW c \in Conns, NEW l \in Listeners, Connect(c, l) PROVE ConnInv'
  BY <1>0, <1>1 DEF TypeOK, ConnInv, Connect
<1>2. ASSUME NEW l \in Listeners, ServeStep(l) PROVE ConnInv'
  <2>1. CASE \/ ServeInit(l) \/ ServeTrackListener(l) \/ ServeAcceptError(l)
             \/ ServeUntrackListener(l)
    BY <1>0, <2>1 DEF TypeOK, ConnInv, ServeInit, ServeTrackListener, ServeAcceptError,
                      ServeUntrackListener
  <2>2. CASE ServeAccept(l)
    BY <1>0, <2>2 DEF TypeOK, ConnInv, ServeAccept
  <2>3. CASE ServeTrackConn(l)
    <3>0. DOMAIN serve = Listeners /\ DOMAIN hand = Listeners /\ DOMAIN sock = Conns /\ DOMAIN conn = Conns
      BY <1>0, Zenon DEF TypeOK
    <3>1. CASE ConnRefused
      <4>1. UNCHANGED <<backlog, conn, conns>> /\ serve[l] = "got"
        BY <2>3, <3>1, Zenon DEF ServeTrackConn
      <4>2. hand[l] \in Conns /\ sock[hand[l]] = "open" /\ conn[hand[l]] = "none"
        BY <1>0, <4>1, Zenon DEF ConnInv
      <4>3. serve' = [serve EXCEPT ![l] = "untrack"] /\ hand' = [hand EXCEPT ![l] = NoOne]
            /\ sock' = [sock EXCEPT ![hand[l]] = "closed"]
        BY <2>3, <3>1, Zenon DEF ServeTrackConn
      <4>4. serve'[l] = "untrack" /\ \A k \in Listeners : k # l => serve'[k] = serve[k] /\ hand'[k] = hand[k]
        BY <3>0, <4>3, Zenon
      <4>5. sock'[hand[l]] = "closed" /\ \A c \in Conns : c # hand[l] => sock'[c] = sock[c]
        BY <3>0, <4>2, <4>3, Zenon
      <4>6. (\A k \in Listeners : \A c \in backlog[k] : c \in Conns)
        BY <1>0, Zenon DEF TypeOK
      <4>7. /\ \A k \in Listeners : serve[k] = "got" => hand[k] \in Conns /\ sock[hand[k]] = "open" /\ conn[hand[k]] = "none"
            /\ \A k, m \in Listeners : serve[k] = "got" /\ serve[m] = "got" /\ hand[k] = hand[m] => k = m
            /\ \A c \in Conns : sock[c] = "open" =>
                 c \in conns \/ \E k \in Listeners : serve[k] = "got" /\ hand[k] = c
        BY <1>0, Zenon DEF ConnInv
      <4>8. ASSUME NEW k \in Listeners, serve'[k] = "got"
            PROVE  k # l /\ serve[k] = "got" /\ hand'[k] = hand[k] /\ hand[k] # hand[l]
        BY <4>1, <4>4, <4>7, <4>8
      <4>9. ASSUME NEW c \in Conns, sock'[c] = "open"
            PROVE  c \in conns \/ \E k \in Listeners : serve'[k] = "got" /\ hand'[k] = c
        BY <4>4, <4>5, <4>7, <4>9
      <4>10. \A k \in Listeners : \A c \in backlog[k] : sock'[c] = "backlog"
        BY <1>0, <4>2, <4>5, <4>6 DEF ConnInv
      <4>11. \A k \in Listeners : serve'[k] = "got" =>
               hand'[k] \in Conns /\ sock'[hand'[k]] = "open" /\ conn[hand'[k]] = "none"
        BY <4>5, <4>7, <4>8
      <4>12. \A k, m \in Listeners : serve'[k] = "got" /\ serve'[m] = "got" /\ hand'[k] = hand'[m] => k = m
        BY <4>7, <4>8
      <4>13. \A c \in Conns : /\ sock'[c] \in {"none", "backlog"} => conn[c] = "none"
                              /\ conn[c] \in {"untrack", "done"} => sock'[c] = "closed"
        BY <1>0, <4>5 DEF ConnInv
      <4> QED
        BY <1>0, <4>1, <4>9, <4>10, <4>11, <4>12, <4>13, Zenon DEF ConnInv
    <3>2. CASE ~ConnRefused
      BY <1>0, <2>3, <3>0, <3>2 DEF ConnInv, ServeTrackConn
    <3> QED
      BY <3>1, <3>2, Zenon
  <2>4. CASE ServeCloseListener(l)
    BY <1>0, <2>4 DEF TypeOK, ConnInv, ServeCloseListener, CloseListener
  <2> QED
    BY <1>2, <2>1, <2>2, <2>3, <2>4, Zenon DEF ServeStep
<1>3. ASSUME NEW c \in Conns, ConnStep(c) PROVE ConnInv'
  <2>1. CASE \/ ConnAuthenticated(c) \/ ConnFail(c) \/ ConnReadExec(c) \/ Dispatch(c)
             \/ HandlerReturn(c) \/ HandlerPanic(c) \/ Respond(c) \/ DispatchReturn(c)
    <3>1. /\ UNCHANGED <<backlog, serve, hand, sock, conns>>
          /\ conn[c] \notin {"none", "done", "untrack"}
          /\ \E to \in {"idle", "close", "exec", "handler", "respond", "answered", "failed"} :
               conn' = [conn EXCEPT ![c] = to]
      BY <2>1, Zenon DEF ConnGoto, ConnAuthenticated, ConnFail, ConnReadExec, Dispatch,
         HandlerReturn, HandlerPanic, Respond, DispatchReturn
    <3> QED
      BY <1>0, <3>1 DEF TypeOK, ConnInv
  <2>2. CASE ConnClose(c)
    BY <1>0, <2>2 DEF TypeOK, ConnInv, ConnGoto, ConnClose
  <2>3. CASE ConnUntrack(c)
    BY <1>0, <2>3 DEF TypeOK, ConnInv, ConnGoto, ConnUntrack
  <2> QED
    BY <1>3, <2>1, <2>2, <2>3, Zenon DEF ConnStep
<1>4. ASSUME UNCHANGED <<backlog, serve, hand, sock, conn, conns>> PROVE ConnInv'
  BY <1>0, <1>4 DEF ConnInv
<1>5. ASSUME NEW s \in Stoppers, StopBegin(s) \/ StopStep(s) PROVE ConnInv'
  <2>1. CASE \/ StopBegin(s) \/ StopLock(s) \/ CloseListenersDone(s)
             \/ ShutdownListenersDone(s) \/ ShutdownCancel(s) \/ ShutdownSelect(s)
             \/ ShutdownRelock(s) \/ StopReturn(s)
    BY <1>4, <2>1, Zenon DEF StopBegin, StopLock, CloseListenersDone, ShutdownListenersDone,
                      ShutdownCancel, ShutdownSelect, ShutdownRelock, StopReturn
  <2>2. CASE StopCloseListener(s)
    <3>1. PICK l \in Listeners : CloseListener(l)
      BY <2>2, Zenon DEF StopCloseListener, IInv, ListenerInv
    <3> QED
      BY <1>0, <2>2, <3>1 DEF TypeOK, ConnInv, StopCloseListener, CloseListener
  <2>3. CASE StopCloseConn(s)
    <3>1. PICK c \in conns : sock' = [sock EXCEPT ![c] = "closed"]
      BY <2>3, Zenon DEF StopCloseConn, IInv, CloseConnsInv
    <3> QED
      BY <1>0, <2>3, <3>1 DEF TypeOK, ConnInv, StopCloseConn
  <2> QED
    BY <1>5, <2>1, <2>2, <2>3, Zenon DEF StopStep
<1>6. ASSUME NEW s \in Stoppers, WaiterStep(s) PROVE ConnInv'
  BY <1>4, <1>6, Zenon DEF WaiterStep, WGWait, WGWake
<1>7. CASE UNCHANGED vars
  BY <1>4, <1>7, Zenon DEF vars
<1> QED
  BY <1>1, <1>2, <1>3, <1>5, <1>6, <1>7, Zenon DEF Next

(* Nothing is tracked once a stopper runs, so its loop sees every tracked  *)
(* connection and none is added behind it.                                 *)
LEMMA CloseConnsStep == IInv /\ [Next]_vars => CloseConnsInv'
<1> SUFFICES ASSUME IInv, [Next]_vars PROVE CloseConnsInv'
  OBVIOUS
<1> USE ServerAssumption DEF srvVars, lnVars, connVars, stopVars, wgVars
<1>0. TypeOK /\ LockInv /\ ConnInv /\ CloseConnsInv
  BY Zenon DEF IInv
<1>1. ASSUME NEW c \in Conns, NEW l \in Listeners, Connect(c, l) PROVE CloseConnsInv'
  BY <1>0, <1>1 DEF TypeOK, CloseConnsInv, Connect
<1>2. ASSUME NEW l \in Listeners, ServeStep(l) PROVE CloseConnsInv'
  <2>1. CASE \/ ServeInit(l) \/ ServeTrackListener(l) \/ ServeAcceptError(l)
             \/ ServeUntrackListener(l)
    BY <1>0, <2>1, Zenon DEF CloseConnsInv, ServeInit, ServeTrackListener, ServeAcceptError,
                      ServeUntrackListener
  <2>2. CASE ServeAccept(l)
    BY <1>0, <2>2 DEF TypeOK, ConnInv, CloseConnsInv, ServeAccept
  <2>3. CASE ServeTrackConn(l)
    BY <1>0, <2>3 DEF TypeOK, LockInv, ConnInv, CloseConnsInv, ServeTrackConn, ConnRefused
  <2>4. CASE ServeCloseListener(l)
    BY <1>0, <2>4, Zenon DEF TypeOK, CloseConnsInv, ServeCloseListener, CloseListener
  <2> QED
    BY <1>2, <2>1, <2>2, <2>3, <2>4 DEF ServeStep
<1>3. ASSUME NEW c \in Conns, ConnStep(c) PROVE CloseConnsInv'
  <2>1. CASE \/ ConnAuthenticated(c) \/ ConnFail(c) \/ ConnReadExec(c) \/ Dispatch(c)
             \/ HandlerReturn(c) \/ HandlerPanic(c) \/ Respond(c) \/ DispatchReturn(c)
    BY <1>0, <2>1, Zenon DEF CloseConnsInv, ConnAuthenticated, ConnFail, ConnReadExec,
                      Dispatch, HandlerReturn, HandlerPanic, Respond, DispatchReturn
  <2>2. CASE ConnClose(c)
    BY <1>0, <2>2 DEF TypeOK, CloseConnsInv, ConnClose
  <2>3. CASE ConnUntrack(c)
    BY <1>0, <2>3 DEF TypeOK, LockInv, CloseConnsInv, ConnUntrack
  <2> QED
    BY <1>3, <2>1, <2>2, <2>3 DEF ConnStep
<1>4. ASSUME NEW s \in Stoppers, StopBegin(s) \/ StopStep(s) PROVE CloseConnsInv'
  <2>1. CASE \/ StopBegin(s) \/ StopLock(s) \/ ShutdownListenersDone(s)
             \/ ShutdownCancel(s) \/ ShutdownSelect(s)
    <3>1. /\ UNCHANGED <<conns, sock>> /\ stop'[s] \notin {"conns", "returned"}
          /\ \A t \in Stoppers : t # s => stop'[t] = stop[t] /\ todo'[t] = todo[t]
      BY <1>0, <2>1 DEF TypeOK, StopGoto, StopBegin, StopLock,
         ShutdownListenersDone, ShutdownCancel, ShutdownSelect
    <3> QED
      BY <1>0, <3>1, Zenon DEF CloseConnsInv
  <2>2. CASE StopCloseListener(s)
    BY <1>0, <2>2 DEF TypeOK, CloseConnsInv, StopCloseListener, CloseListener
  <2>3. CASE CloseListenersDone(s) \/ ShutdownRelock(s)
    BY <1>0, <2>3 DEF TypeOK, CloseConnsInv, StopGoto, CloseListenersDone, ShutdownRelock
  <2>4. CASE StopCloseConn(s)
    BY <1>0, <2>4 DEF TypeOK, LockInv, CloseConnsInv, StopCloseConn
  <2>5. CASE StopReturn(s)
    BY <1>0, <2>5, Zenon DEF TypeOK, CloseConnsInv, StopGoto, StopReturn
  <2> QED
    BY <1>4, <2>1, <2>2, <2>3, <2>4, <2>5, Zenon DEF StopStep
<1>5. ASSUME NEW s \in Stoppers, WaiterStep(s) PROVE CloseConnsInv'
  BY <1>0, <1>5, Zenon DEF CloseConnsInv, WaiterStep, WGWait, WGWake
<1>6. CASE UNCHANGED vars
  BY <1>0, <1>6 DEF CloseConnsInv, vars
<1> QED
  BY <1>1, <1>2, <1>3, <1>4, <1>5, <1>6 DEF Next

(* The same for listeners. *)
LEMMA ListenerStep == IInv /\ [Next]_vars => ListenerInv'
<1> SUFFICES ASSUME IInv, [Next]_vars PROVE ListenerInv'
  OBVIOUS
<1> USE ServerAssumption DEF srvVars, lnVars, connVars, stopVars, wgVars
<1>0. TypeOK /\ LockInv /\ ListenerInv
  BY Zenon DEF IInv
<1>1. ASSUME NEW c \in Conns, NEW l \in Listeners, Connect(c, l) PROVE ListenerInv'
  BY <1>0, <1>1, Zenon DEF ListenerInv, Connect
<1>2. ASSUME NEW l \in Listeners, ServeStep(l) PROVE ListenerInv'
  <2>1. CASE ServeInit(l) \/ ServeAccept(l) \/ ServeAcceptError(l) \/ ServeTrackConn(l)
    BY <1>0, <2>1 DEF TypeOK, ListenerInv, ServeInit, ServeAccept, ServeAcceptError,
                      ServeTrackConn
  <2>2. CASE ServeTrackListener(l)
    BY <1>0, <2>2 DEF TypeOK, LockInv, ListenerInv, ServeTrackListener, ListenerRefused
  <2>3. CASE ServeUntrackListener(l)
    BY <1>0, <2>3 DEF TypeOK, LockInv, ListenerInv, ServeUntrackListener
  <2>4. CASE ServeCloseListener(l)
    BY <1>0, <2>4 DEF TypeOK, ListenerInv, ServeCloseListener, CloseListener
  <2> QED
    BY <1>2, <2>1, <2>2, <2>3, <2>4, Zenon DEF ServeStep
<1>3. ASSUME NEW c \in Conns, ConnStep(c) PROVE ListenerInv'
  <2>1. UNCHANGED <<inShutdown, listeners, ln, serve, stop, todo>>
    BY <1>3, Zenon DEF ConnStep, ConnAuthenticated, ConnFail, ConnReadExec, Dispatch,
       HandlerReturn, HandlerPanic, Respond, DispatchReturn, ConnClose, ConnUntrack
  <2> QED
    BY <1>0, <2>1, Zenon DEF ListenerInv
<1>4. ASSUME NEW s \in Stoppers, StopBegin(s) \/ StopStep(s) PROVE ListenerInv'
  <2>1. CASE StopBegin(s) \/ StopLock(s)
    BY <1>0, <2>1 DEF TypeOK, ListenerInv, StopGoto, StopBegin, StopLock
  <2>2. CASE StopCloseListener(s)
    BY <1>0, <2>2 DEF TypeOK, LockInv, ListenerInv, StopCloseListener, CloseListener
  <2>3. CASE CloseListenersDone(s) \/ ShutdownListenersDone(s)
    BY <1>0, <2>3 DEF TypeOK, ListenerInv, StopGoto, CloseListenersDone,
                      ShutdownListenersDone
  <2>4. CASE ShutdownCancel(s) \/ ShutdownSelect(s) \/ ShutdownRelock(s) \/ StopReturn(s)
    BY <1>0, <2>4 DEF TypeOK, ListenerInv, StopGoto, ShutdownCancel, ShutdownSelect,
                      ShutdownRelock, StopReturn
  <2>5. CASE StopCloseConn(s)
    BY <1>0, <2>5 DEF TypeOK, LockInv, ListenerInv, StopCloseConn
  <2> QED
    BY <1>4, <2>1, <2>2, <2>3, <2>4, <2>5, Zenon DEF StopStep
<1>5. ASSUME NEW s \in Stoppers, WaiterStep(s) PROVE ListenerInv'
  BY <1>0, <1>5 DEF ListenerInv, WaiterStep, WGWait, WGWake
<1>6. CASE UNCHANGED vars
  BY <1>0, <1>6, Zenon DEF ListenerInv, vars
<1> QED
  BY <1>1, <1>2, <1>3, <1>4, <1>5, <1>6 DEF Next

-----------------------------------------------------------------------------
(* A step from IInv preserves the parts of it about commands: the context  *)
(* they run in and the handlers Shutdown waits for.                        *)

(* Whatever the racy read of s.cancel returns, a command that is dispatched *)
(* after it has a cancelled context.                                        *)
LEMMA CtxStep == IInv /\ [Next]_vars => CtxInv'
<1> SUFFICES ASSUME IInv, [Next]_vars PROVE CtxInv'
  OBVIOUS
<1> USE ServerAssumption DEF srvVars, lnVars, connVars, stopVars, wgVars
<1>0. TypeOK /\ LockInv /\ ConnInv /\ CtxInv
  BY Zenon DEF IInv
<1>1. ASSUME NEW c \in Conns, NEW l \in Listeners, Connect(c, l) PROVE CtxInv'
  BY <1>0, <1>1, Zenon DEF CtxInv, Cancelled, Connect
<1>2. ASSUME NEW l \in Listeners, ServeStep(l) PROVE CtxInv'
  <2>1. CASE ServeInit(l)
    BY <1>0, <2>1, Zenon DEF TypeOK, CtxInv, Cancelled, ServeInit
  <2>2. CASE \/ ServeTrackListener(l) \/ ServeAccept(l) \/ ServeAcceptError(l)
             \/ ServeUntrackListener(l) \/ ServeCloseListener(l)
    <3>1. UNCHANGED <<cancel, done, conn, stop, seen>>
      BY <2>2, Zenon DEF ServeTrackListener, ServeAccept, ServeAcceptError,
         ServeUntrackListener, ServeCloseListener
    <3>2. serve[l] # "new" /\ \A k \in Listeners : k # l => serve'[k] = serve[k]
      BY <1>0, <2>2 DEF TypeOK, ServeTrackListener, ServeAccept, ServeAcceptError,
         ServeUntrackListener, ServeCloseListener
    <3> QED
      BY <1>0, <3>1, <3>2, Zenon DEF CtxInv, Cancelled
  <2>3. CASE ServeTrackConn(l)
    BY <1>0, <2>3 DEF TypeOK, LockInv, ConnInv, CtxInv, Cancelled, ServeTrackConn, ConnRefused
  <2> QED
    BY <1>2, <2>1, <2>2, <2>3, Zenon DEF ServeStep
<1>3. ASSUME NEW c \in Conns, ConnStep(c) PROVE CtxInv'
  <2>1. UNCHANGED <<cancel, done, serve, stop, seen>>
    BY <1>3, Zenon DEF ConnStep, ConnAuthenticated, ConnFail, ConnReadExec, Dispatch,
       HandlerReturn, HandlerPanic, Respond, DispatchReturn, ConnClose, ConnUntrack
  <2>2. conn[c] # "none" /\ \E to : conn' = [conn EXCEPT ![c] = to]
    BY <1>3, Zenon DEF ConnStep, ConnGoto, ConnAuthenticated, ConnFail, ConnReadExec,
       Dispatch, HandlerReturn, HandlerPanic, Respond, DispatchReturn, ConnClose, ConnUntrack
  <2>3. \A d \in Conns : d # c => conn'[d] = conn[d]
    BY <1>0, <2>2 DEF TypeOK
  <2> QED
    BY <1>0, <2>1, <2>2, <2>3, Zenon DEF CtxInv, Cancelled
<1>4. ASSUME NEW s \in Stoppers, StopBegin(s) \/ StopStep(s) PROVE CtxInv'
  <2>1. CASE StopBegin(s)
    BY <1>0, <2>1, Zenon DEF TypeOK, CtxInv, Cancelled, StopGoto, StopBegin
  <2>2. CASE StopLock(s)
    BY <1>0, <2>2 DEF TypeOK, CtxInv, Cancelled, StopGoto, StopLock
  <2>3. CASE StopCloseListener(s) \/ StopCloseConn(s)
    BY <1>0, <2>3 DEF CtxInv, Cancelled, StopCloseListener, StopCloseConn
  <2>4. CASE ShutdownCancel(s)
    BY <1>0, <2>4 DEF TypeOK, CtxInv, Cancelled, StopGoto, ShutdownCancel, CancelRead
  <2>5. CASE CloseListenersDone(s)
    BY <1>0, <2>5 DEF TypeOK, CtxInv, Cancelled, StopGoto, CloseListenersDone
  <2>6. CASE ShutdownListenersDone(s)
    BY <1>0, <2>6, Zenon DEF TypeOK, CtxInv, Cancelled, StopGoto, ShutdownListenersDone
  <2>7. CASE ShutdownSelect(s)
    BY <1>0, <2>7, Zenon DEF TypeOK, CtxInv, Cancelled, StopGoto, ShutdownSelect
  <2>8. CASE ShutdownRelock(s)
    BY <1>0, <2>8, Zenon DEF TypeOK, CtxInv, Cancelled, StopGoto, ShutdownRelock
  <2>9. CASE StopReturn(s)
    BY <1>0, <2>9, Zenon DEF TypeOK, CtxInv, Cancelled, StopGoto, StopReturn
  <2> QED
    BY <1>4, <2>1, <2>2, <2>3, <2>4, <2>5, <2>6, <2>7, <2>8, <2>9, Zenon DEF StopStep
<1>5. ASSUME NEW s \in Stoppers, WaiterStep(s) PROVE CtxInv'
  BY <1>0, <1>5 DEF CtxInv, Cancelled, WaiterStep, WGWait, WGWake
<1>6. CASE UNCHANGED vars
  BY <1>0, <1>6, Zenon DEF CtxInv, Cancelled, vars
<1> QED
  BY <1>1, <1>2, <1>3, <1>4, <1>5, <1>6 DEF Next

(* The counter of handlerWG stays the number of handlers in flight, and it *)
(* reaches zero only when the last of them is done.                        *)
LEMMA WaitStep == IInv /\ [Next]_vars => WaitInv'
<1> SUFFICES ASSUME IInv, [Next]_vars PROVE WaitInv'
  OBVIOUS
<1> USE ServerAssumption DEF srvVars, lnVars, connVars, stopVars, wgVars
<1>0. TypeOK /\ WaitInv
  BY Zenon DEF IInv
<1>1. ASSUME UNCHANGED wgVars, InFlight' = InFlight, Unanswered' = Unanswered, UNCHANGED <<stop, timedOut>>
      PROVE WaitInv'
  BY <1>0, <1>1, Zenon DEF WaitInv
<1>2. ASSUME UNCHANGED conn PROVE InFlight' = InFlight /\ Unanswered' = Unanswered
  BY <1>2, Zenon DEF InFlight, Unanswered
<1>3. ASSUME NEW c \in Conns, NEW l \in Listeners, Connect(c, l) PROVE WaitInv'
  BY <1>1, <1>2, <1>3, Zenon DEF Connect
<1>4. ASSUME NEW l \in Listeners, ServeStep(l) PROVE WaitInv'
  <2>1. InFlight' = InFlight /\ Unanswered' = Unanswered
    <3>1. CASE ServeTrackConn(l)
      <4>1. hand[l] \in Conns /\ conn[hand[l]] = "none"
        BY <3>1, Zenon DEF IInv, ConnInv, ServeTrackConn
      <4> QED
        BY <1>0, <3>1, <4>1 DEF TypeOK, InFlight, Unanswered, ServeTrackConn
    <3>2. CASE ~ServeTrackConn(l)
      <4>1. UNCHANGED conn
        BY <1>4, <3>2, Zenon DEF ServeStep, ServeInit, ServeTrackListener, ServeAccept,
           ServeAcceptError, ServeUntrackListener, ServeCloseListener
      <4> QED
        BY <1>2, <4>1, Zenon
    <3> QED
      BY <3>1, <3>2, Zenon
  <2> QED
    BY <1>1, <1>4, <2>1, Zenon DEF ServeStep, ServeInit, ServeTrackListener, ServeAccept,
       ServeAcceptError, ServeTrackConn, ServeUntrackListener, ServeCloseListener
<1>5. ASSUME NEW c \in Conns, ConnStep(c) PROVE WaitInv'
  <2>1. CASE \/ ConnAuthenticated(c) \/ ConnFail(c) \/ ConnReadExec(c)
             \/ ConnClose(c) \/ ConnUntrack(c) \/ HandlerReturn(c)
    <3>1. InFlight' = InFlight /\ Unanswered' = Unanswered
      <4>1. CASE ConnAuthenticated(c) \/ ConnFail(c) \/ ConnReadExec(c)
        BY <1>0, <4>1 DEF TypeOK, InFlight, Unanswered, ConnGoto, ConnAuthenticated, ConnFail,
           ConnReadExec
      <4>2. CASE ConnClose(c) \/ ConnUntrack(c) \/ HandlerReturn(c)
        BY <1>0, <4>2 DEF TypeOK, InFlight, Unanswered, ConnGoto, ConnClose, ConnUntrack,
           HandlerReturn
      <4> QED
        BY <2>1, <4>1, <4>2, Zenon
    <3> QED
      BY <1>1, <2>1, <3>1, Zenon DEF ConnAuthenticated, ConnFail, ConnReadExec, ConnClose,
         ConnUntrack, HandlerReturn
  <2>2. CASE Dispatch(c)
    <3>1. c \notin InFlight /\ InFlight' = InFlight \cup {c}
      BY <1>0, <2>2 DEF TypeOK, InFlight, ConnGoto, Dispatch
    <3>2. Cardinality(InFlight') = Cardinality(InFlight) + 1
      BY <3>1, InFlightFinite, FS_AddElement, Zenon
    <3>3. Unanswered \subseteq Unanswered'
      BY <1>0, <2>2 DEF TypeOK, Unanswered, ConnGoto, Dispatch
    <3> QED
      BY <1>0, <2>2, <3>1, <3>2, <3>3, Zenon DEF WaitInv, Dispatch, WGAdd
  <2>3. CASE HandlerPanic(c) \/ Respond(c)
    <3>1. InFlight' = InFlight /\ Unanswered \ {c} \subseteq Unanswered'
      BY <1>0, <2>3 DEF TypeOK, InFlight, Unanswered, ConnGoto, HandlerPanic, Respond
    <3>2. Answered(c) /\ UNCHANGED <<stop, timedOut>>
      BY <2>3, Zenon DEF HandlerPanic, Respond
    <3> QED
      BY <1>0, <3>1, <3>2, Zenon DEF WaitInv, Answered
  <2>4. CASE DispatchReturn(c)
    <3>1. /\ c \in InFlight /\ InFlight' = InFlight \ {c}
          /\ c \notin Unanswered /\ Unanswered' = Unanswered
      BY <1>0, <2>4 DEF TypeOK, InFlight, Unanswered, ConnGoto, DispatchReturn
    <3>2. Cardinality(InFlight') = Cardinality(InFlight) - 1
      BY <3>1, InFlightFinite, FS_RemoveElement, Zenon
    <3>3. WGDone /\ UNCHANGED <<stop, timedOut>>
      BY <2>4, Zenon DEF DispatchReturn
    <3>4. wg' = Cardinality(InFlight')
      BY <1>0, <3>2, <3>3, Zenon DEF WaitInv, WGDone
    <3>5. ASSUME wg = 1 PROVE Unanswered = {}
      <4>1. Cardinality(InFlight \ {c}) = 0
        BY <1>0, <3>1, <3>2, <3>5 DEF WaitInv
      <4>2. InFlight \ {c} = {}
        BY <4>1, InFlightFinite, FS_Subset, FS_EmptySet, Zenon
      <4>3. Unanswered \subseteq InFlight
        BY Zenon DEF Unanswered, InFlight
      <4> QED
        BY <3>1, <4>2, <4>3, Zenon
    <3>6. \A s \in Stoppers : waiter'[s] = "woken" => wg = 1 \/ waiter[s] = "woken"
      BY <1>0, <3>3, Zenon DEF TypeOK, WGDone
    <3> QED
      BY <1>0, <3>1, <3>3, <3>4, <3>5, <3>6 DEF TypeOK, WaitInv, WGDone
  <2> QED
    BY <1>5, <2>1, <2>2, <2>3, <2>4, Zenon DEF ConnStep
<1>6. ASSUME NEW s \in Stoppers, StopBegin(s) \/ StopStep(s) PROVE WaitInv'
  <2>0. InFlight' = InFlight /\ Unanswered' = Unanswered
    BY <1>2, <1>6, Zenon DEF StopStep, StopBegin, StopLock, StopCloseListener,
       CloseListenersDone, ShutdownListenersDone, ShutdownCancel, ShutdownSelect,
       ShutdownRelock, StopCloseConn, StopReturn
  <2>1. CASE \/ StopBegin(s) \/ StopLock(s) \/ CloseListenersDone(s)
             \/ ShutdownListenersDone(s) \/ ShutdownRelock(s) \/ StopReturn(s)
    <3>1. UNCHANGED <<wgVars, timedOut>>
      BY <2>1, Zenon DEF StopBegin, StopLock, CloseListenersDone, ShutdownListenersDone,
         ShutdownRelock, StopReturn
    <3>2. /\ \A t \in Stoppers : t # s => stop'[t] = stop[t]
          /\ s \in Shutters /\ stop'[s] \in {"relock", "conns", "returned"} =>
               stop[s] \in {"relock", "conns", "returned"}
      <4>1. CASE StopBegin(s) \/ StopLock(s) \/ CloseListenersDone(s)
        BY <1>0, <4>1 DEF TypeOK, StopGoto, StopBegin, StopLock, CloseListenersDone
      <4>2. CASE ShutdownListenersDone(s) \/ ShutdownRelock(s) \/ StopReturn(s)
        BY <1>0, <4>2 DEF TypeOK, StopGoto, ShutdownListenersDone, ShutdownRelock,
           StopReturn
      <4> QED
        BY <2>1, <4>1, <4>2, Zenon
    <3> QED
      BY <1>0, <2>0, <3>1, <3>2, Zenon DEF WaitInv
  <2>2. CASE StopCloseListener(s) \/ StopCloseConn(s)
    BY <1>1, <2>0, <2>2, Zenon DEF StopCloseListener, StopCloseConn
  <2>3. CASE ShutdownCancel(s)
    BY <1>0, <2>0, <2>3 DEF TypeOK, WaitInv, StopGoto, ShutdownCancel
  <2>4. CASE ShutdownSelect(s)
    BY <1>0, <2>0, <2>4 DEF TypeOK, WaitInv, StopGoto, ShutdownSelect, WaitDone
  <2> QED
    BY <1>6, <2>1, <2>2, <2>3, <2>4, Zenon DEF StopStep
<1>7. ASSUME NEW s \in Stoppers, WaiterStep(s) PROVE WaitInv'
  <2>0. InFlight' = InFlight /\ Unanswered' = Unanswered /\ UNCHANGED <<stop, timedOut>>
    BY <1>2, <1>7, Zenon DEF WaiterStep, WGWait, WGWake
  <2>1. CASE WGWait(s)
    <3>1. wg = 0 => InFlight = {}
      BY <1>0, InFlightFinite, FS_EmptySet, Zenon DEF WaitInv
    <3>2. wg = 0 => Unanswered = {}
      BY <3>1, Zenon DEF InFlight, Unanswered
    <3> QED
      BY <1>0, <2>0, <2>1, <3>2 DEF TypeOK, WaitInv, WGWait
  <2>2. CASE WGWake(s)
    BY <1>0, <2>0, <2>2 DEF TypeOK, WaitInv, WGWake
  <2> QED
    BY <1>7, <2>1, <2>2, Zenon DEF WaiterStep
<1>8. CASE UNCHANGED vars
  BY <1>1, <1>2, <1>8, Zenon DEF vars
<1> QED
  BY <1>3, <1>4, <1>5, <1>6, <1>7, <1>8 DEF Next

-----------------------------------------------------------------------------
(* The properties.                                                         *)

(* IInv holds in every reachable state. *)
LEMMA Inductive == Spec => []IInv
<1>1. IInv /\ [Next]_vars => IInv'
  BY TypeStep, LockStep, ConnInvStep, CloseConnsStep, ListenerStep, CtxStep, WaitStep, Zenon
     DEF IInv
<1> QED
  BY <1>1, InitIInv, PTL DEF Spec

(* Every variable keeps its type; in particular handlerWG never goes       *)
(* negative, whatever handlers panic and whatever writes fail (dispatch).  *)
THEOREM TypeCorrect == Spec => []TypeOK
<1>1. IInv => TypeOK
  BY Zenon DEF IInv
<1> QED
  BY <1>1, Inductive, PTL

(* No connection outlives Close or Shutdown: what trackConn promises of a  *)
(* connection accepted while the server stops.                             *)
THEOREM ConnsNeverLeak == Spec => []NoLeakedConn
<1>1. IInv => NoLeakedConn
  BY Zenon DEF IInv, ConnInv, CloseConnsInv, NoLeakedConn
<1> QED
  BY <1>1, Inductive, PTL

(* No Serve accepts on an open listener after Close or Shutdown: what      *)
(* trackListener promises.                                                 *)
THEOREM ListenersNeverLeak == Spec => []NoLeakedListener
<1>1. IInv => NoLeakedListener
  BY Zenon DEF IInv, ListenerInv, NoLeakedListener
<1> QED
  BY <1>1, Inductive, PTL

(* Shutdown closes no connection before dispatch has written the response  *)
(* of every handler that had begun when it called Wait, unless its context *)
(* expires.                                                                *)
THEOREM ShutdownDrains == Spec => []GracefulDrain
<1>1. IInv => GracefulDrain
  BY Zenon DEF IInv, WaitInv, GracefulDrain
<1> QED
  BY <1>1, Inductive, PTL

(* The unlocked read of s.cancel in Shutdown never leaves a handler with a *)
(* live context.                                                           *)
THEOREM CancelReachesHandlers == Spec => []HandlersCancelled
<1>1. IInv => HandlersCancelled
  BY Zenon DEF IInv, CtxInv, Cancelled, HandlersCancelled, InFlight
<1> QED
  BY <1>1, Inductive, PTL

(* Serve blames a stopped server on the stop: ErrServerClosed.  The flag   *)
(* is stored before the first listener is closed (Close, Shutdown).        *)
THEOREM StopIsReported == Spec => StopReportsServerClosed
<1> DEFINE A == \A l \in Listeners :
      ret[l] = "none" /\ ret'[l] = "err" => ln[l] = "open"
<1>1. IInv /\ [Next]_vars => [A]_vars
  <2> SUFFICES ASSUME IInv, Next, NEW l \in Listeners, ret[l] = "none", ret'[l] = "err"
               PROVE  ln[l] = "open"
    BY Zenon DEF vars
  <2> USE DEF srvVars, lnVars, connVars, stopVars, wgVars
  <2>1. ASSUME NEW k \in Listeners, ServeStep(k) PROVE ln[l] = "open"
    <3>0. ret \in [Listeners -> {"none", "ErrServerClosed", "err"}]
      BY Zenon DEF IInv, TypeOK
    <3>1. ServeAcceptError(l)
      <4>1. CASE ServeTrackListener(k) \/ ServeTrackConn(k)
        BY <3>0, <4>1, Zenon DEF ServeTrackListener, ServeTrackConn
      <4>2. CASE ServeAcceptError(k)
        BY <3>0, <4>2, Zenon DEF ServeAcceptError
      <4>3. CASE \/ ServeInit(k) \/ ServeAccept(k) \/ ServeUntrackListener(k)
                 \/ ServeCloseListener(k)
        BY <4>3, Zenon DEF ServeInit, ServeAccept, ServeUntrackListener, ServeCloseListener
      <4> QED
        BY <2>1, <4>1, <4>2, <4>3, Zenon DEF ServeStep
    <3> QED
      BY <3>1 DEF IInv, TypeOK, ListenerInv, ServeAcceptError, AcceptError
  <2>2. ASSUME NEW c \in Conns, NEW k \in Listeners, Connect(c, k) PROVE FALSE
    BY <2>2, Zenon DEF Connect
  <2>3. ASSUME NEW c \in Conns, ConnStep(c) PROVE FALSE
    BY <2>3, Zenon DEF ConnStep, ConnAuthenticated, ConnFail, ConnReadExec, Dispatch,
       HandlerReturn, HandlerPanic, Respond, DispatchReturn, ConnClose, ConnUntrack
  <2>4. ASSUME NEW s \in Stoppers, StopBegin(s) \/ StopStep(s) PROVE FALSE
    BY <2>4, Zenon DEF StopStep, StopBegin, StopLock, StopCloseListener, CloseListenersDone,
       ShutdownListenersDone, ShutdownCancel, ShutdownSelect, ShutdownRelock,
       StopCloseConn, StopReturn
  <2>5. ASSUME NEW s \in Stoppers, WaiterStep(s) PROVE FALSE
    BY <2>5, Zenon DEF WaiterStep, WGWait, WGWake
  <2> QED
    BY <2>1, <2>2, <2>3, <2>4, <2>5, Zenon DEF Next
<1> QED
  BY <1>1, Inductive, PTL DEF Spec, StopReportsServerClosed
=============================================================================
