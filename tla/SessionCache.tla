---------------------------- MODULE SessionCache ----------------------------
(***************************************************************************)
(* The session cache of rconhttp.Handler: HTTP requests that run their     *)
(* command on the session of a backend, the reaper that evicts idle        *)
(* entries, and Close.                                                     *)
(*                                                                         *)
(* The state has two levels of lock.  c.mu guards the map and lastUsed and *)
(* is never held while anything blocks, so a critical section of it is one *)
(* step.  The mutex of an entry guards its session and is held by a        *)
(* request from before Dial until its command has ended.  An entry, and a  *)
(* session, is named after the request that created it.                    *)
(***************************************************************************)
EXTENDS Integers, ClientErrors

CONSTANTS
    Requests,   \* HTTP requests
    Backends,   \* what the Resolver can answer: an address and a password each
    NoOne,      \* no entry, no session, no holder
    Reaper,     \* the goroutine of startReaper
    Closer,     \* the goroutine that calls Handler.Close
    Idle,       \* c.idle, 0 if there is no reaper
    Prompt,     \* every request ends within c.idle of the last get of its entry
    MaxTime     \* bound: the last value of the clock

ASSUME CacheAssumption ==
    /\ Reaper # Closer /\ NoOne \notin {Reaper, Closer}
    /\ {NoOne, Reaper, Closer} \cap Requests = {}
    /\ Backends \subseteq [Addr : STRING, Password : STRING]
    /\ Idle \in Nat /\ Prompt \in BOOLEAN /\ MaxTime \in Nat

Sweepers == {Reaper, Closer}

(* cacheKey, which joins the two with a NUL.  That tells backends apart    *)
(* like the pair does for an Addr without one, as every host:port is.      *)
KeyOfAddr(b) == <<b.Addr>>
Key(b) == <<b.Addr, b.Password>>
Keys == {Key(b) : b \in Backends}

VARIABLES
    now,        \* the clock
    entries,    \* c.entries: the entry of each key, or NoOne
    lastUsed,   \* cacheEntry.lastUsed
    emu,        \* who holds cacheEntry.mu
    session,    \* cacheEntry.session
    live,       \* the sessions whose Conn is not closed
    backend,    \* the backend of each request, and so of what it created
    pc, ent,    \* where each request is, and the entry it got
    sweep,      \* where the Reaper and the Closer are
    todo, at,   \* the entries they took from the map, the one they wait for
    cutoff,     \* the local variable of reap
    done        \* c.done is closed

mapVars   == <<entries, lastUsed>>
entryVars == <<emu, session, live>>
reqVars   == <<backend, pc, ent>>
sweepVars == <<sweep, todo, at, cutoff, done>>
vars      == <<now, mapVars, entryVars, reqVars, sweepVars>>

Active == {r \in Requests : pc[r] \in {"lock", "dial", "run"}}

TypeOK ==
    /\ now \in 0..MaxTime
    /\ entries \in [Keys -> Requests \cup {NoOne}]
    /\ lastUsed \in [Requests -> 0..MaxTime]
    /\ emu \in [Requests -> Requests \cup {NoOne}]
    /\ session \in [Requests -> Requests \cup {NoOne}]
    /\ live \subseteq Requests
    /\ backend \in [Requests -> Backends \cup {NoOne}]
    /\ pc \in [Requests -> {"new", "lock", "dial", "run", "done"}]
    /\ ent \in [Requests -> Requests \cup {NoOne}]
    /\ sweep \in [Sweepers -> {"wait", "collect", "next", "evict", "ended"}]
    /\ todo \in [Sweepers -> SUBSET Requests]
    /\ at \in [Sweepers -> Requests \cup {NoOne}]
    /\ cutoff \in Int
    /\ done \in BOOLEAN

Init ==
    /\ now = 0 /\ cutoff = 0 /\ done = FALSE /\ live = {}
    /\ entries = [k \in Keys |-> NoOne]
    /\ lastUsed = [e \in Requests |-> 0]
    /\ emu = [e \in Requests |-> NoOne]
    /\ session = [e \in Requests |-> NoOne]
    /\ backend = [r \in Requests |-> NoOne]
    /\ pc = [r \in Requests |-> "new"]
    /\ ent = [r \in Requests |-> NoOne]
    /\ sweep = [w \in Sweepers |-> IF w = Reaper /\ Idle = 0 THEN "ended" ELSE "wait"]
    /\ todo = [w \in Sweepers |-> {}]
    /\ at = [w \in Sweepers |-> NoOne]

-----------------------------------------------------------------------------
(* What a command on a session can come to: an error, or "nil", and        *)
(* whether the Conn of the session is still open afterwards.               *)

DialErrors == ReadErrs \cup
              {"net", "timeout", "dialer", "ErrInvalidAuthResponse", "ErrAuthFailed"}

ConnExecute(open) ==
    IF open THEN ReadErrs \cup
                 {"nil", "net", "timeout", "ErrResponseMismatch", "ErrCommandTooLong"}
            ELSE {"ErrClosed"}

(* Session.Execute: after a retryable error the Conn is closed, a new one  *)
(* dialed, and the command run once more.                                  *)
SessionExecute(open) ==
    UNION {IF IsRetryable(err)
             THEN {[err |-> e, open |-> FALSE] : e \in DialErrors} \cup
                  {[err |-> e, open |-> TRUE] : e \in ConnExecute(TRUE)}
             ELSE {[err |-> err, open |-> open]} : err \in ConnExecute(open)}

-----------------------------------------------------------------------------
(* A request.                                                              *)

Goto(r, from, to) ==
    /\ pc[r] = from
    /\ pc' = [pc EXCEPT ![r] = to]

(* ServeHTTP ends early: the method, the backend or the body is refused. *)
Refuse(r) ==
    /\ Goto(r, "new", "done")
    /\ UNCHANGED <<now, mapVars, entryVars, backend, ent, sweepVars>>

(* get marks the entry e, which it may have created, as used. *)
UsedExpiry(e, new) == [lastUsed EXCEPT ![e] = now + Idle]
UsedSinceNew(e, new) == [lastUsed EXCEPT ![e] = IF new THEN now ELSE @]
Used(e, new) == [lastUsed EXCEPT ![e] = now]

(* get.  Close expects that no request is in flight or comes later. *)
Get(r, b) ==
    /\ sweep[Closer] = "wait"
    /\ Goto(r, "new", "lock")
    /\ LET new == entries[Key(b)] = NoOne
           e   == IF new THEN r ELSE entries[Key(b)]
       IN  /\ entries' = [entries EXCEPT ![Key(b)] = e]
           /\ lastUsed' = Used(e, new)
           /\ ent' = [ent EXCEPT ![r] = e]
    /\ backend' = [backend EXCEPT ![r] = b]
    /\ UNCHANGED <<now, entryVars, sweepVars>>

(* execute takes the mutex of the entry and looks at its session. *)
FreeAlways(e) == TRUE
Free(e) == emu[e] = NoOne

Lock(r) ==
    /\ Goto(r, "lock", IF session[ent[r]] = NoOne THEN "dial" ELSE "run")
    /\ Free(ent[r])
    /\ emu' = [emu EXCEPT ![ent[r]] = r]
    /\ UNCHANGED <<now, mapVars, session, live, backend, ent, sweepVars>>

Dialed(r) ==
    /\ Goto(r, "dial", "run")
    /\ session' = [session EXCEPT ![ent[r]] = r]
    /\ live' = live \cup {r}
    /\ UNCHANGED <<now, mapVars, emu, backend, ent, sweepVars>>

DialFailed(r) ==
    /\ Goto(r, "dial", "done")
    /\ emu' = [emu EXCEPT ![ent[r]] = NoOne]
    /\ UNCHANGED <<now, mapVars, session, live, backend, ent, sweepVars>>

(* e.session.Execute runs.  The deferred Unlock comes after the decision   *)
(* whether the session is still of use.                                    *)
Executed(r) ==
    /\ Goto(r, "run", "done")
    /\ LET s == session[ent[r]]
       IN  \E o \in SessionExecute(s \in live) :
             IF IsConnError(o.err)
               THEN /\ live' = live \ {s}
                    /\ session' = [session EXCEPT ![ent[r]] = NoOne]
               ELSE /\ live' = IF o.open THEN live ELSE live \ {s}
                    /\ UNCHANGED session
    /\ emu' = [emu EXCEPT ![ent[r]] = NoOne]
    /\ UNCHANGED <<now, mapVars, backend, ent, sweepVars>>

-----------------------------------------------------------------------------
(* The Reaper and the Closer take entries from the map, then visit each.   *)

SweepGoto(w, from, to) ==
    /\ sweep[w] = from
    /\ sweep' = [sweep EXCEPT ![w] = to]

(* The ticker fires; reap computes the cutoff before it locks c.mu. *)
ReapTick ==
    /\ SweepGoto(Reaper, "wait", "collect")
    /\ cutoff' = now - Idle
    /\ UNCHANGED <<now, mapVars, entryVars, reqVars, todo, at, done>>

ReaperStops ==
    /\ done
    /\ SweepGoto(Reaper, "wait", "ended")
    /\ UNCHANGED <<now, mapVars, entryVars, reqVars, todo, at, cutoff, done>>

StaleAtCutoff(k) == entries[k] # NoOne /\ lastUsed[entries[k]] <= cutoff
Stale(k) == entries[k] # NoOne /\ lastUsed[entries[k]] < cutoff

ReapCollect ==
    /\ SweepGoto(Reaper, "collect", "next")
    /\ todo' = [todo EXCEPT ![Reaper] = {entries[k] : k \in {j \in Keys : Stale(j)}}]
    /\ entries' = [k \in Keys |-> IF Stale(k) THEN NoOne ELSE entries[k]]
    /\ UNCHANGED <<now, lastUsed, entryVars, reqVars, at, cutoff, done>>

(* close: closeOnce closes c.done, then closeAll takes the whole map. *)
CloseBegin ==
    /\ Active = {}
    /\ SweepGoto(Closer, "wait", "collect")
    /\ done' = TRUE
    /\ UNCHANGED <<now, mapVars, entryVars, reqVars, todo, at, cutoff>>

CloseCollect ==
    /\ SweepGoto(Closer, "collect", "next")
    /\ todo' = [todo EXCEPT ![Closer] = {entries[k] : k \in Keys} \ {NoOne}]
    /\ entries' = [k \in Keys |-> NoOne]
    /\ UNCHANGED <<now, lastUsed, entryVars, reqVars, at, cutoff, done>>

SweepPick(w) == \E e \in todo[w] :
    /\ SweepGoto(w, "next", "evict")
    /\ at' = [at EXCEPT ![w] = e]
    /\ todo' = [todo EXCEPT ![w] = @ \ {e}]
    /\ UNCHANGED <<now, mapVars, entryVars, reqVars, cutoff, done>>

(* Under the mutex of the entry its session is closed and forgotten. *)
EvictUnlocked(w) ==
    /\ SweepGoto(w, "evict", "next")
    /\ live' = live \ {session[at[w]]}
    /\ session' = [session EXCEPT ![at[w]] = NoOne]
    /\ at' = [at EXCEPT ![w] = NoOne]
    /\ UNCHANGED <<now, mapVars, emu, reqVars, todo, cutoff, done>>
EvictForgets(w) ==
    /\ SweepGoto(w, "evict", "next")
    /\ Free(at[w])
    /\ session' = [session EXCEPT ![at[w]] = NoOne]
    /\ at' = [at EXCEPT ![w] = NoOne]
    /\ UNCHANGED <<now, mapVars, emu, live, reqVars, todo, cutoff, done>>
Evict(w) ==
    /\ SweepGoto(w, "evict", "next")
    /\ Free(at[w])
    /\ live' = live \ {session[at[w]]}
    /\ session' = [session EXCEPT ![at[w]] = NoOne]
    /\ at' = [at EXCEPT ![w] = NoOne]
    /\ UNCHANGED <<now, mapVars, emu, reqVars, todo, cutoff, done>>

(* The reaper waits for its next tick; close returns. *)
SweepEnd(w) ==
    /\ todo[w] = {}
    /\ SweepGoto(w, "next", IF w = Reaper THEN "wait" ELSE "ended")
    /\ UNCHANGED <<now, mapVars, entryVars, reqVars, todo, at, cutoff, done>>

(* c.idle is long: it does not pass while a request is about to take a     *)
(* mutex that is free nor, when Prompt, while a request is in flight.      *)
Tick ==
    /\ now < MaxTime
    /\ \A r \in Active :
         Prompt \/ (pc[r] = "lock" /\ Free(ent[r])) => now < lastUsed[ent[r]] + Idle
    /\ now' = now + 1
    /\ UNCHANGED <<mapVars, entryVars, reqVars, sweepVars>>

-----------------------------------------------------------------------------
RequestStep(r) == Lock(r) \/ Dialed(r) \/ DialFailed(r) \/ Executed(r)

SweepStep(w) == SweepPick(w) \/ Evict(w) \/ SweepEnd(w)

Next ==
    \/ \E r \in Requests : Refuse(r)
    \/ \E r \in Requests, b \in Backends : Get(r, b)
    \/ \E r \in Requests : RequestStep(r)
    \/ ReapTick \/ ReaperStops \/ ReapCollect \/ CloseBegin \/ CloseCollect
    \/ \E w \in Sweepers : SweepStep(w)
    \/ Tick

Spec == Init /\ [][Next]_vars

(* Every goroutine that can run does: a request ends because the Client    *)
(* bounds its Dial and its command, and a sweep goes on once it has begun. *)
FairSpec ==
    /\ Spec
    /\ \A r \in Requests : WF_vars(RequestStep(r))
    /\ WF_vars(ReapCollect) /\ WF_vars(CloseCollect)
    /\ \A w \in Sweepers : WF_vars(SweepStep(w))

-----------------------------------------------------------------------------
(* Properties.                                                             *)

Running(r) == pc[r] = "run"

(* A Session is not safe for concurrent use: no two requests ever run a    *)
(* command on the same one, evicted entries included (cacheEntry.mu).      *)
SessionExclusive ==
    \A r, q \in Requests :
        Running(r) /\ Running(q) /\ r # q => session[ent[r]] # session[ent[q]]

(* A session is only ever closed by the request that runs on it or while   *)
(* none does: neither the reaper nor Close pulls it away from a command    *)
(* (reap and closeAll lock the entry first).                               *)
NeverClosedInUse ==
    [][\A r \in Requests : Running(r) /\ pc'[r] = "run" =>
          LET s == session[ent[r]]
          IN  session'[ent[r]] = s /\ (s \in live => s \in live')]_vars

(* A command runs on a connection that was opened to the address and with  *)
(* the password of its own request, whoever dialed it (cacheKey).          *)
RightBackend ==
    \A r \in Requests : Running(r) =>
        session[ent[r]] # NoOne /\ backend[session[ent[r]]] = backend[r]

(* Requests to the same backend serialize, as the comment on Handler says. *)
(* It holds as long as every request is Prompt and not otherwise: reap     *)
(* evicts an entry that a request still uses, because lastUsed is the time *)
(* of the last get, and the next request makes an entry of its own.        *)
BackendSerialized ==
    \A r, q \in Requests :
        pc[r] \in {"dial", "run"} /\ pc[q] \in {"dial", "run"} /\ backend[r] = backend[q] => r = q

(* If requests are Prompt, every open connection can still be found by a   *)
(* sweep: its entry is in the map or in the hands of reap or closeAll.     *)
NoOrphan ==
    \A e \in Requests : session[e] \in live =>
        \/ \E k \in Keys : entries[k] = e
        \/ \E w \in Sweepers : e \in todo[w] \cup {at[w]}

(* "Call Close to release them", says the comment on New: after Close,     *)
(* every session is closed, those reap had taken from the map included.    *)
(* If requests are not Prompt it does not hold: one that waits for the     *)
(* mutex of an evicted entry may get it after reap and dial a session that *)
(* nothing can find any more.                                              *)
CloseReleases == sweep[Closer] = "ended" ~> live = {}
=============================================================================
