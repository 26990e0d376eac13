------------------------- MODULE SessionCacheProofs -------------------------
(***************************************************************************)
(* The safety properties of SessionCache for any set of requests and       *)
(* backends, any idle timeout and any bound of the clock.                  *)
(***************************************************************************)
EXTENDS SessionCache, TLAPS

(* Who is between Lock and the deferred Unlock holds the mutex of its      *)
(* entry, and a request that runs has a session.                           *)
LockInv == \A r \in Requests :
    /\ pc[r] \in {"lock", "dial", "run"} => ent[r] \in Requests
    /\ pc[r] \in {"dial", "run"} => emu[ent[r]] = r
    /\ Running(r) => session[ent[r]] # NoOne

(* A session belongs to the entry for which the request it is named after  *)
(* dialed it.                                                              *)
OriginInv == \A e \in Requests : session[e] # NoOne =>
    pc[session[e]] \in {"run", "done"} /\ ent[session[e]] = e

(* An entry serves the requests for one backend, the one of its key. *)
BackendInv ==
    /\ \A r \in Requests : ent[r] # NoOne =>
         ent[ent[r]] = ent[r] /\ backend[r] \in Backends /\ backend[ent[r]] = backend[r]
    /\ \A r \in Requests : pc[r] = "new" => ent[r] = NoOne
    /\ \A k \in Keys : entries[k] # NoOne =>
         ent[entries[k]] = entries[k] /\ Key(backend[entries[k]]) = k

(* A sweep holds entries only while it visits them.  Close is called with  *)
(* no request in flight, and none comes later.                             *)
SweepInv ==
    /\ \A w \in Sweepers :
         /\ sweep[w] \notin {"next", "evict"} => todo[w] = {}
         /\ sweep[w] = "evict" <=> at[w] # NoOne
    /\ sweep[Closer] # "wait" => Active = {}
    /\ sweep[Reaper] = "collect" => cutoff <= now - Idle

(* The entry of a prompt request is too young for reap and so in the map. *)
PromptInv == Prompt => \A r \in Active :
    now <= lastUsed[ent[r]] + Idle /\ entries[Key(backend[r])] = ent[r]

IInv == TypeOK /\ LockInv /\ OriginInv /\ BackendInv /\ SweepInv /\ PromptInv

-----------------------------------------------------------------------------
(* The initial state satisfies the inductive invariant. *)
LEMMA InitIInv == Init => IInv
<1> SUFFICES ASSUME Init PROVE IInv
  BY Zenon
<1> USE CacheAssumption DEF Init
<1>1. TypeOK
  <2>1. now \in 0..MaxTime /\ lastUsed \in [Requests -> 0..MaxTime] /\ cutoff \in Int
    OBVIOUS
  <2>2. sweep \in [Sweepers -> {"wait", "collect", "next", "evict", "ended"}]
    BY Zenon DEF Sweepers
  <2> QED
    BY <2>1, <2>2, Zenon DEF TypeOK
<1>2. LockInv /\ OriginInv /\ BackendInv
  BY Zenon DEF LockInv, OriginInv, BackendInv, Running
<1>3. SweepInv
  BY Zenon DEF SweepInv, Active, Sweepers
<1>4. PromptInv
  BY Zenon DEF PromptInv, Active
<1> QED
  BY <1>1, <1>2, <1>3, <1>4, Zenon DEF IInv

(* A step keeps the types. *)
LEMMA TypeStep == TypeOK /\ LockInv /\ [Next]_vars => TypeOK'
<1> SUFFICES ASSUME TypeOK, LockInv, [Next]_vars PROVE TypeOK'
  BY Zenon
<1> USE CacheAssumption DEF TypeOK
<1>1. CASE UNCHANGED vars
  BY <1>1, Zenon DEF vars, mapVars, entryVars, reqVars, sweepVars
<1>2. ASSUME NEW r \in Requests, Refuse(r) PROVE TypeOK'
  BY <1>2, Zenon DEF Refuse, Goto, mapVars, entryVars, sweepVars
<1>3. ASSUME NEW r \in Requests, NEW b \in Backends, Get(r, b) PROVE TypeOK'
  <2>1. Key(b) \in Keys
    BY Zenon DEF Keys
  <2>2. entries[Key(b)] \in Requests \cup {NoOne}
    BY <2>1, Zenon
  <2> QED
    BY <1>3, <2>1, <2>2, Zenon DEF Get, Goto, Used, entryVars, sweepVars
<1>4. ASSUME NEW r \in Requests, Lock(r) PROVE TypeOK'
  BY <1>4, Zenon DEF Lock, Goto, mapVars, sweepVars
<1>5. ASSUME NEW r \in Requests, Dialed(r) PROVE TypeOK'
  BY <1>5, Zenon DEF Dialed, Goto, mapVars, sweepVars
<1>6. ASSUME NEW r \in Requests, DialFailed(r) PROVE TypeOK'
  BY <1>6, Zenon DEF DialFailed, Goto, mapVars, sweepVars
<1>7. ASSUME NEW r \in Requests, Executed(r) PROVE TypeOK'
  <2>1. live' \subseteq Requests /\ session' \in [Requests -> Requests \cup {NoOne}]
    BY <1>7 DEF Executed
  <2> QED
    BY <1>7, <2>1, Zenon DEF Executed, Goto, mapVars, sweepVars
<1>8. CASE ReapTick
  <2>1. cutoff' \in Int
    BY <1>8 DEF ReapTick
  <2> QED
    BY <1>8, <2>1, Zenon DEF ReapTick, SweepGoto, mapVars, entryVars, reqVars, Sweepers
<1>15. CASE ReaperStops \/ CloseBegin
  <2>1. done' \in BOOLEAN
    BY <1>15, Zenon DEF ReaperStops, CloseBegin
  <2>2. sweep' \in [Sweepers -> {"wait", "collect", "next", "evict", "ended"}]
    BY <1>15, Zenon DEF ReaperStops, CloseBegin, SweepGoto
  <2> QED
    BY <1>15, <2>1, <2>2 DEF ReaperStops, CloseBegin, mapVars, entryVars, reqVars
<1>9. CASE ReapCollect
  BY <1>9 DEF ReapCollect, SweepGoto, Stale, entryVars, reqVars, Sweepers
<1>10. CASE CloseCollect
  BY <1>10 DEF CloseCollect, SweepGoto, entryVars, reqVars, Sweepers
<1>11. ASSUME NEW w \in Sweepers, SweepPick(w) PROVE TypeOK'
  BY <1>11 DEF SweepPick, SweepGoto, mapVars, entryVars, reqVars
<1>12. ASSUME NEW w \in Sweepers, Evict(w) PROVE TypeOK'
  BY <1>12, Zenon DEF Evict, SweepGoto, mapVars, reqVars
<1>13. ASSUME NEW w \in Sweepers, SweepEnd(w) PROVE TypeOK'
  BY <1>13, Zenon DEF SweepEnd, SweepGoto, mapVars, entryVars, reqVars
<1>14. CASE Tick
  BY <1>14 DEF Tick, mapVars, entryVars, reqVars, sweepVars
<1> QED
  BY <1>1, <1>2, <1>3, <1>4, <1>5, <1>6, <1>7, <1>8, <1>9, <1>10, <1>11, <1>12, <1>13, <1>14, <1>15, Zenon
     DEF Next, RequestStep, SweepStep

(* Steps of a sweep, of the clock and refused requests leave the requests  *)
(* and the mutexes of entries alone.                                       *)
Aside ==
    \/ UNCHANGED vars \/ Tick \/ ReapTick \/ ReaperStops \/ ReapCollect \/ CloseBegin
    \/ CloseCollect \/ \E w \in Sweepers : SweepPick(w) \/ SweepEnd(w)

(* No request and no mutex of an entry is touched by them. *)
LEMMA AsideStep == Aside => UNCHANGED <<reqVars, entryVars>>
  BY Zenon DEF Aside, vars, Tick, ReapTick, ReaperStops, ReapCollect, CloseBegin, CloseCollect,
         SweepPick, SweepEnd, reqVars, entryVars

(* The steps, grouped by what they touch. *)
LEMMA NextCases ==
    [Next]_vars <=>
        \/ Aside
        \/ \E r \in Requests : Refuse(r) \/ RequestStep(r)
        \/ \E r \in Requests, b \in Backends : Get(r, b)
        \/ \E w \in Sweepers : Evict(w)
  BY Zenon DEF Next, Aside, SweepStep

(* A request has the mutex of its entry from Lock to the deferred Unlock,  *)
(* and nobody takes its session from the entry in between.                 *)
LEMMA LockStep == IInv /\ [Next]_vars => LockInv'
<1> SUFFICES ASSUME IInv, [Next]_vars PROVE LockInv'
  BY Zenon
<1> USE CacheAssumption DEF IInv, TypeOK, LockInv, Running
<1>1. CASE Aside
  BY <1>1, AsideStep, Zenon DEF reqVars, entryVars
<1>2. ASSUME NEW r \in Requests, Refuse(r) PROVE LockInv'
  BY <1>2 DEF Refuse, Goto, entryVars
<1>3. ASSUME NEW r \in Requests, NEW b \in Backends, Get(r, b) PROVE LockInv'
  <2>1. entries[Key(b)] \in Requests \cup {NoOne}
    BY DEF Keys
  <2>2. ent'[r] \in Requests /\ pc'[r] = "lock"
    BY <1>3, <2>1 DEF Get, Goto
  <2>3. \A q \in Requests : q # r => ent'[q] = ent[q] /\ pc'[q] = pc[q]
    BY <1>3, Zenon DEF Get, Goto
  <2> QED
    BY <1>3, <2>2, <2>3 DEF Get, entryVars
<1>4. ASSUME NEW r \in Requests, Lock(r) PROVE LockInv'
  BY <1>4 DEF Lock, Goto, Free
<1>5. ASSUME NEW r \in Requests, Dialed(r) PROVE LockInv'
  BY <1>5 DEF Dialed, Goto
<1>6. ASSUME NEW r \in Requests, DialFailed(r) PROVE LockInv'
  BY <1>6 DEF DialFailed, Goto
<1>7. ASSUME NEW r \in Requests, Executed(r) PROVE LockInv'
  <2>1. \A e \in Requests : e # ent[r] => session'[e] = session[e]
    BY <1>7 DEF Executed
  <2>2. /\ emu' = [emu EXCEPT ![ent[r]] = NoOne]
        /\ pc[r] = "run" /\ pc' = [pc EXCEPT ![r] = "done"] /\ ent' = ent
    BY <1>7, Zenon DEF Executed, Goto
  <2> QED
    BY <2>1, <2>2
<1>8. ASSUME NEW w \in Sweepers, Evict(w) PROVE LockInv'
  BY <1>8, Zenon DEF Evict, Free, reqVars
<1> QED
  BY <1>1, <1>2, <1>3, <1>4, <1>5, <1>6, <1>7, <1>8, NextCases, Zenon DEF RequestStep

(* Sessions stay with the entry they were dialed for. *)
LEMMA OriginStep == IInv /\ [Next]_vars => OriginInv'
<1> SUFFICES ASSUME IInv, [Next]_vars PROVE OriginInv'
  OBVIOUS
<1> USE CacheAssumption DEF IInv, TypeOK, LockInv, OriginInv
<1>1. CASE Aside
  BY <1>1, AsideStep, Zenon DEF reqVars, entryVars
<1>2. ASSUME NEW r \in Requests, Refuse(r) PROVE OriginInv'
  BY <1>2 DEF Refuse, Goto, entryVars
<1>3. ASSUME NEW r \in Requests, NEW b \in Backends, Get(r, b) PROVE OriginInv'
  <2>1. pc[r] = "new" /\ session' = session
    BY <1>3, Zenon DEF Get, Goto, entryVars
  <2>2. \A q \in Requests : q # r => ent'[q] = ent[q] /\ pc'[q] = pc[q]
    BY <1>3 DEF Get, Goto
  <2> QED
    BY <2>1, <2>2
<1>4. ASSUME NEW r \in Requests, Lock(r) PROVE OriginInv'
  BY <1>4 DEF Lock, Goto
<1>5. ASSUME NEW r \in Requests, Dialed(r) PROVE OriginInv'
  BY <1>5 DEF Dialed, Goto
<1>6. ASSUME NEW r \in Requests, DialFailed(r) PROVE OriginInv'
  BY <1>6 DEF DialFailed, Goto
<1>7. ASSUME NEW r \in Requests, Executed(r) PROVE OriginInv'
  <2>1. \A e \in Requests : session'[e] \in {session[e], NoOne}
    BY <1>7 DEF Executed
  <2>2. pc[r] = "run" /\ pc' = [pc EXCEPT ![r] = "done"] /\ ent' = ent
    BY <1>7, Zenon DEF Executed, Goto
  <2> QED
    BY <2>1, <2>2
<1>8. ASSUME NEW w \in Sweepers, Evict(w) PROVE OriginInv'
  BY <1>8 DEF Evict, reqVars
<1> QED
  BY <1>1, <1>2, <1>3, <1>4, <1>5, <1>6, <1>7, <1>8, NextCases, Zenon DEF RequestStep

(* cacheKey tells backends apart by everything they have. *)
LEMMA KeyInjective ==
    ASSUME NEW b \in Backends, NEW c \in Backends, Key(b) = Key(c) PROVE b = c
<1>1. b.Addr = c.Addr /\ b.Password = c.Password
  BY Zenon DEF Key
<1> QED
  BY <1>1, CacheAssumption

(* A sweep only takes entries out of the map. *)
LEMMA AsideEntries ==
    ASSUME TypeOK, Aside, NEW k \in Keys PROVE entries'[k] \in {entries[k], NoOne}
  BY DEF Aside, vars, mapVars, Tick, ReapTick, ReaperStops, ReapCollect, CloseBegin, CloseCollect,
         SweepPick, SweepEnd, TypeOK

(* An entry stays with one backend. *)
LEMMA BackendStep == IInv /\ [Next]_vars => BackendInv'
<1> SUFFICES ASSUME IInv, [Next]_vars PROVE BackendInv'
  OBVIOUS
<1> USE CacheAssumption DEF IInv, TypeOK, BackendInv
<1>1. CASE Aside
  BY <1>1, AsideStep, AsideEntries DEF reqVars
<1>2. ASSUME NEW r \in Requests, Refuse(r) PROVE BackendInv'
  BY <1>2, Zenon DEF Refuse, Goto, mapVars
<1>3. ASSUME NEW r \in Requests, NEW b \in Backends, Get(r, b) PROVE BackendInv'
  <2> DEFINE k == Key(b)
             e == IF entries[k] = NoOne THEN r ELSE entries[k]
  <2>1. k \in Keys /\ e \in Requests /\ pc[r] = "new" /\ ent[r] = NoOne
    BY <1>3 DEF Get, Goto, Keys
  <2>2. /\ entries' = [entries EXCEPT ![k] = e]
        /\ ent' = [ent EXCEPT ![r] = e] /\ backend' = [backend EXCEPT ![r] = b]
        /\ pc' = [pc EXCEPT ![r] = "lock"]
    BY <1>3, Zenon DEF Get, Goto
  <2>3. \A q \in Requests : ent[q] # r
    BY <2>1
  <2>4. \A j \in Keys : entries[j] # r
    BY <2>1
  <2>5. backend'[e] = b
    <3>1. CASE entries[k] = NoOne
      BY <2>2, <3>1, Zenon
    <3>2. CASE entries[k] # NoOne
      <4>1. e \in Requests /\ ent[e] = e /\ Key(backend[e]) = Key(b) /\ e # r
        BY <2>1, <2>4, <3>2, Zenon
      <4>2. backend[e] \in Backends
        BY <4>1, Zenon
      <4>3. backend[e] = b
        BY <4>1, <4>2, KeyInjective, Zenon
      <4> QED
        BY <2>2, <4>1, <4>3, Zenon
    <3> QED
      BY <3>1, <3>2, Zenon
  <2>6. ent'[e] = e
    BY <2>1, <2>2, <2>4, Zenon
  <2> HIDE DEF k, e
  <2>7. \A q \in Requests : ent'[q] # NoOne =>
          /\ ent'[ent'[q]] = ent'[q]
          /\ backend'[q] \in Backends /\ backend'[ent'[q]] = backend'[q]
    BY <2>1, <2>2, <2>3, <2>5, <2>6
  <2>8. \A j \in Keys : entries'[j] # NoOne =>
          ent'[entries'[j]] = entries'[j] /\ Key(backend'[entries'[j]]) = j
    <3> TAKE j \in Keys
    <3>1. CASE j = k
      BY <2>1, <2>2, <2>5, <2>6, <3>1, Zenon DEF k
    <3>2. CASE j # k
      BY <2>1, <2>2, <2>4, <3>2
    <3> QED
      BY <3>1, <3>2, Zenon
  <2> QED
    BY <2>1, <2>2, <2>7, <2>8
<1>4. ASSUME NEW r \in Requests, RequestStep(r) PROVE BackendInv'
  <2>1. UNCHANGED <<mapVars, backend, ent>> /\ pc[r] # "new" /\ \E to \in {"run", "dial", "done"} : pc' = [pc EXCEPT ![r] = to]
    BY <1>4, Zenon DEF RequestStep, Lock, Dialed, DialFailed, Executed, Goto
  <2> QED
    BY <2>1 DEF mapVars
<1>5. ASSUME NEW w \in Sweepers, Evict(w) PROVE BackendInv'
  BY <1>5, Zenon DEF Evict, reqVars, mapVars
<1> QED
  BY <1>1, <1>2, <1>3, <1>4, <1>5, NextCases, Zenon

(* Sweeps are empty-handed between two rounds, and Close comes last. *)
LEMMA SweepInvStep == IInv /\ [Next]_vars => SweepInv'
<1> SUFFICES ASSUME IInv, [Next]_vars PROVE SweepInv'
  OBVIOUS
<1> USE CacheAssumption DEF IInv, TypeOK, SweepInv, Sweepers
<1>2. ASSUME NEW r \in Requests, Refuse(r) \/ RequestStep(r) PROVE SweepInv'
  <2>1. UNCHANGED <<now, sweepVars>> /\ Active' \subseteq Active
    <3>2. \A q \in Requests : q # r => pc'[q] = pc[q]
      BY <1>2 DEF Refuse, RequestStep, Lock, Dialed, DialFailed, Executed, Goto
    <3>3. Refuse(r) => pc'[r] = "done"
      BY Zenon DEF Refuse, Goto
    <3>4. RequestStep(r) => pc[r] \in {"lock", "dial", "run"}
      BY Zenon DEF RequestStep, Lock, Dialed, DialFailed, Executed, Goto
    <3>5. UNCHANGED <<now, sweepVars>>
      BY <1>2, Zenon DEF Refuse, RequestStep, Lock, Dialed, DialFailed, Executed
    <3> QED
      BY <1>2, <3>2, <3>3, <3>4, <3>5, Zenon DEF Active
  <2> QED
    BY <2>1, Zenon DEF sweepVars
<1>3. ASSUME NEW r \in Requests, NEW b \in Backends, Get(r, b) PROVE SweepInv'
  BY <1>3, Zenon DEF Get, sweepVars
<1>4. CASE ReapTick
  BY <1>4 DEF ReapTick, SweepGoto, reqVars, Active
<1>5. CASE ReaperStops
  BY <1>5, Zenon DEF ReaperStops, SweepGoto, reqVars, Active
<1>6. CASE ReapCollect
  BY <1>6, Zenon DEF ReapCollect, SweepGoto, reqVars, Active
<1>7. CASE CloseBegin
  BY <1>7, Zenon DEF CloseBegin, SweepGoto, reqVars, Active
<1>8. CASE CloseCollect
  BY <1>8, Zenon DEF CloseCollect, SweepGoto, reqVars, Active
<1>9. ASSUME NEW w \in Sweepers, SweepPick(w) PROVE SweepInv'
  BY <1>9 DEF SweepPick, SweepGoto, reqVars, Active
<1>10. ASSUME NEW w \in Sweepers, Evict(w) PROVE SweepInv'
  BY <1>10, Zenon DEF Evict, SweepGoto, reqVars, Active
<1>11. ASSUME NEW w \in Sweepers, SweepEnd(w) PROVE SweepInv'
  BY <1>11, Zenon DEF SweepEnd, SweepGoto, reqVars, Active
<1>12. CASE Tick
  BY <1>12 DEF Tick, reqVars, sweepVars, Active
<1>13. CASE UNCHANGED vars
  BY <1>13, Zenon DEF vars, reqVars, sweepVars, Active
<1> QED
  BY <1>2, <1>3, <1>4, <1>5, <1>6, <1>7, <1>8, <1>9, <1>10, <1>11, <1>12, <1>13, Zenon
     DEF Next, SweepStep

(* Reap never takes the entry of a prompt request from the map. *)
LEMMA PromptStep == IInv /\ [Next]_vars => PromptInv'
<1> SUFFICES ASSUME IInv, [Next]_vars, Prompt PROVE PromptInv'
  BY Zenon DEF PromptInv
<1> USE CacheAssumption DEF IInv, TypeOK, PromptInv
<1>0. \A r \in Active : /\ r \in Requests /\ ent[r] \in Requests
                        /\ backend[r] \in Backends /\ Key(backend[r]) \in Keys
  BY DEF Active, LockInv, BackendInv, Keys
<1>1. ASSUME UNCHANGED <<now, mapVars, ent, backend>>, Active' \subseteq Active PROVE PromptInv'
  BY <1>1, <1>0, Zenon DEF mapVars
<1>2. ASSUME NEW r \in Requests, Refuse(r) \/ RequestStep(r) PROVE PromptInv'
  <2>1. \A q \in Requests : q # r => pc'[q] = pc[q]
    BY <1>2, Zenon DEF Refuse, RequestStep, Lock, Dialed, DialFailed, Executed, Goto
  <2>2. pc'[r] = "done" \/ pc[r] \in {"lock", "dial", "run"}
    BY <1>2, Zenon DEF Refuse, RequestStep, Lock, Dialed, DialFailed, Executed, Goto
  <2>3. UNCHANGED <<now, mapVars, ent, backend>>
    BY <1>2, Zenon DEF Refuse, RequestStep, Lock, Dialed, DialFailed, Executed
  <2> QED
    BY <1>1, <2>1, <2>2, <2>3, Zenon DEF Active
<1>3. ASSUME NEW r \in Requests, NEW b \in Backends, Get(r, b) PROVE PromptInv'
  <2> DEFINE k == Key(b)
             e == IF entries[k] = NoOne THEN r ELSE entries[k]
  <2>1. k \in Keys /\ e \in Requests /\ pc[r] = "new"
    BY <1>3, Zenon DEF Get, Goto, Keys
  <2>2. /\ entries' = [entries EXCEPT ![k] = e] /\ lastUsed' = [lastUsed EXCEPT ![e] = now]
        /\ ent' = [ent EXCEPT ![r] = e] /\ backend' = [backend EXCEPT ![r] = b]
        /\ pc' = [pc EXCEPT ![r] = "lock"] /\ now' = now
    BY <1>3, Zenon DEF Get, Goto, Used
  <2>3. ASSUME NEW q \in Active', q # r
        PROVE  now' <= lastUsed'[ent'[q]] + Idle /\ entries'[Key(backend'[q])] = ent'[q]
    <3>1. q \in Active
      BY <2>2, <2>3, Zenon DEF Active
    <3>2. /\ ent'[q] = ent[q] /\ backend'[q] = backend[q] /\ ent[q] \in Requests
          /\ Key(backend[q]) \in Keys /\ entries[Key(backend[q])] = ent[q]
          /\ now <= lastUsed[ent[q]] + Idle
      BY <1>0, <2>2, <2>3, <3>1, Zenon
    <3>3. entries'[Key(backend[q])] = ent[q]
      BY <2>1, <2>2, <3>2, Zenon
    <3>4. now <= lastUsed'[ent[q]] + Idle
      BY <2>1, <2>2, <3>2
    <3> QED
      BY <2>2, <3>2, <3>3, <3>4, Zenon
  <2>4. now' <= lastUsed'[ent'[r]] + Idle /\ entries'[Key(backend'[r])] = ent'[r]
    BY <2>1, <2>2
  <2> QED
    BY <2>3, <2>4, Zenon
<1>4. CASE ReapCollect
  <2>1. ASSUME NEW q \in Active PROVE ~Stale(Key(backend[q]))
    <3>1. lastUsed[ent[q]] \in Int /\ now <= lastUsed[ent[q]] + Idle /\ cutoff <= now - Idle
      BY <1>0, <1>4 DEF ReapCollect, SweepGoto, SweepInv
    <3> QED
      BY <1>0, <3>1 DEF Stale
  <2>2. UNCHANGED <<pc, now, lastUsed, ent, backend>>
    BY <1>4, Zenon DEF ReapCollect, reqVars
  <2>3. \A q \in Active : entries'[Key(backend[q])] = ent[q]
    BY <1>0, <1>4, <2>1, Zenon DEF ReapCollect
  <2> QED
    BY <1>0, <2>2, <2>3, Zenon DEF Active
<1>5. CASE CloseCollect
  <2>1. Active = {} /\ pc' = pc
    BY <1>5, Zenon DEF CloseCollect, SweepGoto, SweepInv, reqVars
  <2> QED
    BY <2>1, Zenon DEF Active
<1>6. CASE Tick
  BY <1>0, <1>6 DEF Tick, mapVars, reqVars, Active
<1>7. CASE ReapTick \/ ReaperStops \/ CloseBegin \/ UNCHANGED vars
  BY <1>1, <1>7, Zenon DEF ReapTick, ReaperStops, CloseBegin, vars, reqVars, Active
<1>8. ASSUME NEW w \in Sweepers, SweepPick(w) \/ Evict(w) \/ SweepEnd(w) PROVE PromptInv'
  BY <1>1, <1>8, Zenon DEF SweepPick, Evict, SweepEnd, reqVars, Active
<1> QED
  BY <1>2, <1>3, <1>4, <1>5, <1>6, <1>7, <1>8, Zenon DEF Next, SweepStep

(* IInv holds in every reachable state. *)
LEMMA Inductive == Spec => []IInv
<1>1. IInv /\ [Next]_vars => IInv'
  BY TypeStep, LockStep, OriginStep, BackendStep, SweepInvStep, PromptStep, Zenon DEF IInv
<1> QED
  BY <1>1, InitIInv, PTL DEF Spec

-----------------------------------------------------------------------------
(* Every variable keeps its type. *)
THEOREM TypeCorrect == Spec => []TypeOK
<1>1. IInv => TypeOK
  BY Zenon DEF IInv
<1> QED
  BY <1>1, Inductive, PTL

(* cacheEntry.mu keeps a Session to one request at a time, also in entries *)
(* that reap has taken from the map.                                       *)
THEOREM SessionsNeverShared == Spec => []SessionExclusive
<1>1. IInv => SessionExclusive
  BY DEF IInv, TypeOK, LockInv, OriginInv, SessionExclusive, Running
<1> QED
  BY <1>1, Inductive, PTL

(* A command never runs with the address or the password of another        *)
(* request's backend (get, cacheKey).                                      *)
THEOREM CommandsReachTheirBackend == Spec => []RightBackend
<1>1. IInv => RightBackend
  <2> SUFFICES ASSUME IInv, NEW r \in Requests, Running(r)
               PROVE  session[ent[r]] # NoOne /\ backend[session[ent[r]]] = backend[r]
    BY Zenon DEF RightBackend
  <2>1. ent[r] \in Requests /\ ent[r] # NoOne /\ session[ent[r]] # NoOne
    BY CacheAssumption, Zenon DEF IInv, LockInv, Running
  <2>2. session[ent[r]] \in Requests /\ ent[session[ent[r]]] = ent[r]
    BY <2>1 DEF IInv, TypeOK, OriginInv
  <2> QED
    BY <2>1, <2>2 DEF IInv, BackendInv
<1> QED
  BY <1>1, Inductive, PTL

(* Neither reap nor Close takes a session from a running command, and no   *)
(* other request closes it.                                                *)
THEOREM SessionsNeverClosedInUse == Spec => NeverClosedInUse
<1> DEFINE Kept(r) == Running(r) /\ pc'[r] = "run" =>
              LET s == session[ent[r]]
              IN  session'[ent[r]] = s /\ (s \in live => s \in live')
<1>1. ASSUME IInv, [Next]_vars, NEW r \in Requests PROVE Kept(r)
  <2> SUFFICES ASSUME Running(r), pc'[r] = "run" PROVE Kept(r)
    BY Zenon
  <2> DEFINE e == ent[r]
             s == session[e]
  <2>1. e \in Requests /\ pc[r] = "run" /\ emu[e] = r /\ s # NoOne
    BY <1>1, Zenon DEF IInv, LockInv, Running
  <2>2. \A f \in Requests : session[f] = s => f = e
    BY <1>1, <2>1 DEF IInv, OriginInv
  <2>3. emu \in [Requests -> Requests \cup {NoOne}] /\ session \in [Requests -> Requests \cup {NoOne}]
    BY <1>1, Zenon DEF IInv, TypeOK
  <2> HIDE DEF e, s
  <2>4. SUFFICES session'[e] = s /\ (s \in live => s \in live')
    BY Zenon DEF e, s
  <2>5. CASE UNCHANGED entryVars
    BY <2>5, Zenon DEF entryVars, s
  <2>6. ASSUME NEW q \in Requests, Lock(q) \/ DialFailed(q) PROVE session' = session /\ live' = live
    BY <2>6, Zenon DEF Lock, DialFailed
  <2>7. ASSUME NEW q \in Requests, q # r, ent[q] \in Requests, emu[ent[q]] = q PROVE ent[q] # e
    BY <2>1, <2>7, Zenon
  <2>8. ASSUME NEW q \in Requests, Dialed(q) \/ Executed(q)
        PROVE  q # r /\ ent[q] \in Requests /\ emu[ent[q]] = q
    <3>1. pc[q] \in {"dial", "run"} /\ (pc[q] = "run" => pc'[q] = "done")
      BY <1>1, <2>8, Zenon DEF Dialed, Executed, Goto, IInv, TypeOK
    <3> QED
      BY <1>1, <2>1, <2>8, <3>1, Zenon DEF IInv, LockInv, Dialed, Goto
  <2>9. ASSUME NEW q \in Requests, Dialed(q) PROVE session'[e] = s /\ live \subseteq live'
    BY <2>1, <2>3, <2>7, <2>8, <2>9, Zenon DEF Dialed, s
  <2>10. ASSUME NEW q \in Requests, Executed(q) PROVE session'[e] = s /\ (s \in live => s \in live')
    <3>1. ent[q] \in Requests /\ ent[q] # e /\ session[ent[q]] # s
      BY <2>2, <2>7, <2>8, <2>10, Zenon
    <3>2. live' \in {live, live \ {session[ent[q]]}} /\ session'[e] = session[e]
      BY <2>1, <2>3, <2>10, <3>1, Zenon DEF Executed
    <3> QED
      BY <3>1, <3>2, Zenon DEF s
  <2>11. ASSUME NEW w \in Sweepers, Evict(w) PROVE session'[e] = s /\ (s \in live => s \in live')
    <3>1. at[w] \in Requests /\ emu[at[w]] = NoOne
      BY <1>1, <2>11 DEF Evict, Free, SweepGoto, IInv, SweepInv, TypeOK
    <3>2. at[w] # e /\ session[at[w]] # s
      BY <2>1, <2>2, <3>1, CacheAssumption, Zenon
    <3> QED
      BY <2>1, <2>3, <2>11, <3>2, Zenon DEF Evict, s
  <2>12. Aside => UNCHANGED entryVars
    BY AsideStep, Zenon
  <2>13. \A q \in Requests : Refuse(q) => UNCHANGED entryVars
    BY Zenon DEF Refuse
  <2>14. \A q \in Requests, b \in Backends : Get(q, b) => UNCHANGED entryVars
    BY Zenon DEF Get
  <2>15. session[e] = s
    BY Zenon DEF s
  <2> QED
    BY <1>1, <2>5, <2>6, <2>9, <2>10, <2>11, <2>12, <2>13, <2>14, <2>15, NextCases, Zenon DEF RequestStep
<1>2. IInv /\ [Next]_vars => [\A r \in Requests : Kept(r)]_vars
  BY <1>1, Zenon
<1> QED
  BY <1>2, Inductive, PTL DEF Spec, NeverClosedInUse

(* As long as requests are prompt, those for one backend run one after the *)
(* other, which is what the comment on Handler says of all requests.       *)
THEOREM PromptBackendsSerialize == Prompt => (Spec => []BackendSerialized)
<1> SUFFICES ASSUME Prompt PROVE Spec => []BackendSerialized
  BY Zenon
<1>1. IInv => BackendSerialized
  <2> SUFFICES ASSUME IInv, NEW r \in Requests, NEW q \in Requests, backend[r] = backend[q],
                      pc[r] \in {"dial", "run"}, pc[q] \in {"dial", "run"}
               PROVE  r = q
    BY Zenon DEF BackendSerialized
  <2>1. emu[ent[r]] = r /\ emu[ent[q]] = q
    BY Zenon DEF IInv, LockInv
  <2>2. r \in Active /\ q \in Active
    BY Zenon DEF Active
  <2>3. ent[r] = entries[Key(backend[r])] /\ ent[q] = entries[Key(backend[q])]
    BY <2>2, Zenon DEF IInv, PromptInv
  <2> QED
    BY <2>1, <2>3, Zenon
<1> QED
  BY <1>1, Inductive, PTL

(* Every open session of a prompt request is where a sweep will find it,   *)
(* so that Close can release it (reap, closeAll).                          *)
THEOREM PromptNeverOrphans == Prompt => (Spec => []NoOrphan)
<1> SUFFICES ASSUME Prompt PROVE Spec => []NoOrphan
  OBVIOUS
<1> USE CacheAssumption DEF TypeOK
<1> DEFINE Found(e) == \/ \E k \in Keys : entries[k] = e
                       \/ \E w \in Sweepers : e \in todo[w] \cup {at[w]}
<1>1. Init => NoOrphan
  BY Zenon DEF Init, NoOrphan
<1>2. ASSUME IInv, NoOrphan, [Next]_vars PROVE NoOrphan'
  <2> USE <1>2 DEF IInv
  <2>1. ASSUME \A e \in Requests : session'[e] \in live' => session[e] \in live,
               \A e \in Requests : Found(e) => Found(e)'
        PROVE  NoOrphan'
    BY <2>1, Zenon DEF NoOrphan
  <2>2. ASSUME NEW r \in Requests, Refuse(r) \/ Lock(r) \/ DialFailed(r) PROVE NoOrphan'
    BY <2>1, <2>2 DEF Refuse, Lock, DialFailed, mapVars, entryVars, sweepVars
  <2>3. ASSUME NEW r \in Requests, Dialed(r) PROVE NoOrphan'
    <3>1. pc[r] = "dial" /\ ent[r] \in Requests /\ Key(backend[r]) \in Keys
          /\ entries[Key(backend[r])] = ent[r]
      BY <2>3 DEF Dialed, Goto, LockInv, BackendInv, PromptInv, Active, Keys
    <3>2. \A e \in Requests : e # ent[r] => session'[e] = session[e]
      BY <2>3, Zenon DEF Dialed
    <3>3. \A e \in Requests : session[e] # r
      BY <3>1, Zenon DEF OriginInv
    <3> QED
      BY <2>3, <3>1, <3>2, <3>3 DEF Dialed, NoOrphan, mapVars, sweepVars
  <2>4. ASSUME NEW r \in Requests, Executed(r) PROVE NoOrphan'
    <3>1. live' \subseteq live /\ \A e \in Requests : session'[e] \in {session[e], NoOne}
      BY <2>4 DEF Executed
    <3> QED
      BY <2>1, <2>4, <3>1, Zenon DEF Executed, mapVars, sweepVars
  <2>5. ASSUME NEW r \in Requests, NEW b \in Backends, Get(r, b) PROVE NoOrphan'
    <3>1. Key(b) \in Keys /\ UNCHANGED <<entryVars, sweepVars>>
      BY <2>5, Zenon DEF Get, Keys
    <3>2. \A k \in Keys : entries[k] # NoOne => entries'[k] = entries[k]
      BY <2>5, Zenon DEF Get
    <3> QED
      BY <2>1, <3>1, <3>2, Zenon DEF entryVars, sweepVars
  <2>6. CASE ReapCollect
    <3>1. \A k \in Keys : entries'[k] = entries[k] \/ entries[k] \in todo'[Reaper]
      BY <2>6 DEF ReapCollect, Sweepers
    <3>2. todo[Reaper] = {} /\ todo'[Closer] = todo[Closer] /\ UNCHANGED <<at, entryVars>>
      BY <2>6, Zenon DEF ReapCollect, SweepGoto, SweepInv, Sweepers
    <3> QED
      BY <2>1, <3>1, <3>2 DEF entryVars, Sweepers
  <2>7. CASE CloseCollect
    <3>1. \A k \in Keys : entries[k] = NoOne \/ entries[k] \in todo'[Closer]
      BY <2>7 DEF CloseCollect, Sweepers
    <3>2. todo[Closer] = {} /\ todo'[Reaper] = todo[Reaper] /\ UNCHANGED <<at, entryVars>>
      BY <2>7, Zenon DEF CloseCollect, SweepGoto, SweepInv, Sweepers
    <3> QED
      BY <2>1, <3>1, <3>2 DEF entryVars, Sweepers
  <2>8. ASSUME NEW w \in Sweepers, SweepPick(w) PROVE NoOrphan'
    <3>1. at[w] = NoOne /\ todo[w] \subseteq todo'[w] \cup {at'[w]}
      BY <2>8 DEF SweepPick, SweepGoto, SweepInv
    <3>2. \A v \in Sweepers : v # w => todo'[v] = todo[v] /\ at'[v] = at[v]
      BY <2>8 DEF SweepPick
    <3> QED
      BY <2>1, <2>8, <3>1, <3>2, Zenon DEF SweepPick, mapVars, entryVars
  <2>9. ASSUME NEW w \in Sweepers, Evict(w) PROVE NoOrphan'
    <3>1. at[w] \in Requests /\ session'[at[w]] = NoOne /\ live' \subseteq live
      BY <2>9, Zenon DEF Evict, SweepGoto, SweepInv
    <3>2. \A e \in Requests : e # at[w] => session'[e] = session[e]
      BY <2>9, Zenon DEF Evict
    <3>3. \A v \in Sweepers : todo'[v] = todo[v] /\ (v # w => at'[v] = at[v])
      BY <2>9, Zenon DEF Evict
    <3> QED
      BY <2>9, <3>1, <3>2, <3>3 DEF Evict, NoOrphan, mapVars
  <2>10. CASE UNCHANGED <<mapVars, entryVars, todo, at>>
    BY <2>1, <2>10, Zenon DEF mapVars, entryVars
  <2> QED
    BY <2>2, <2>3, <2>4, <2>5, <2>6, <2>7, <2>8, <2>9, <2>10, Zenon
       DEF Next, RequestStep, SweepStep, SweepEnd, ReapTick, ReaperStops, CloseBegin, Tick, vars,
           sweepVars
<1> QED
  BY <1>1, <1>2, Inductive, PTL DEF Spec
=============================================================================
