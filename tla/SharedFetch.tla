------------------------------ MODULE SharedFetch ------------------------------
(***************************************************************************)
(* Fetching in the web console (frontend/lib/queries.ts, refresh-context): *)
(* every component that calls useApi is a hook with a path and a counter   *)
(* of refetches; all share the tick of the 30 s poll and of refresh().     *)
(* Requests and answers are shared by the key path#tick#bump.              *)
(* What the server holds is a version that every write raises.             *)
(* The maps inflight and cache belong to the JavaScript module: a login    *)
(* mounts everything anew, with tick 0, and finds them as they were.       *)
(* A hook always watches the tick and has a path.                          *)
(* The lemmas at the end carry WaitsForSomething from step to step; they   *)
(* stand here because ConsoleMonitorProofs needs them of two instances.    *)
(***************************************************************************)
EXTENDS Naturals, FiniteSets, TLAPS

CONSTANTS
    Hooks,    \* components with a useApi hook
    Paths,    \* URLs, filters and page numbers included
    Nothing,  \* no data, no request
    MaxTick, MaxBump, MaxWrites, MaxLogins,  \* bounds of what may happen
    MaxInFlight, MaxCached                   \* bounds of the two maps

VARIABLES
    tick,      \* RefreshContext
    hook,      \* the React state of each hook
    inflight,  \* requests sent and not settled
    cache,     \* answers that are younger than CACHE_TTL_MS
    version,   \* what the server holds
    since,     \* the version when the tick began
    logins     \* times the provider has been mounted again

vars == <<tick, hook, inflight, cache, version, since, logins>>

Versions == 0..MaxWrites
Keys == [path : Paths, tick : 0..MaxTick, bump : 0..MaxBump]

\* shown and of: the version of the data and the path it was asked for; a hook
\* that waits or failed keeps its data, but only of says which.  old: asked for
\* before the last login.
Hook == [on : BOOLEAN, path : Paths \cup {Nothing}, bump : 0..MaxBump, waiting : BOOLEAN, error : BOOLEAN,
         shown : Versions \cup {Nothing}, of : Paths \cup {Nothing}, old : BOOLEAN]

TypeOK ==
    /\ tick \in 0..MaxTick
    /\ hook \in [Hooks -> Hook]
    /\ \A r \in inflight : r.key \in Keys /\ r.read \in Versions \cup {Nothing} /\ r.old \in BOOLEAN
    /\ \A c \in cache : c.key \in Keys /\ c.read \in Versions /\ c.old \in BOOLEAN
    /\ version \in Versions /\ since \in 0..version
    /\ logins \in 0..MaxLogins

Unmounted == [on |-> FALSE, path |-> Nothing, bump |-> 0, waiting |-> FALSE, error |-> FALSE,
                 shown |-> Nothing, of |-> Nothing, old |-> FALSE]

Init ==
    /\ tick = 0 /\ inflight = {} /\ cache = {} /\ logins = 0
    /\ hook = [h \in Hooks |-> Unmounted]
    /\ version = 0 /\ since = 0

KeyOf(h, k) == [path |-> h.path, tick |-> k, bump |-> h.bump]

Shows(h, e) == [h EXCEPT !.waiting = FALSE, !.error = FALSE, !.shown = e.read, !.of = e.key.path, !.old = e.old]

\* The effect of the hooks H, whose key has changed, on the hooks hs: from the
\* cache at once, or waiting for a request, which is sent unless one is in
\* flight.  The request a hook waited for before is cancelled by this.
Effect(H, hs, k) ==
    LET Hit(h) == {c \in cache : c.key = KeyOf(hs[h], k)}
        missed == {KeyOf(hs[h], k) : h \in {g \in H : Hit(g) = {}}}
    IN  /\ hook' = [h \in Hooks |->
                      IF h \notin H THEN hs[h]
                      ELSE IF Hit(h) # {} THEN Shows(hs[h], CHOOSE c \in Hit(h) : TRUE)
                      ELSE [hs[h] EXCEPT !.waiting = TRUE, !.error = FALSE,
                                         !.shown = Nothing, !.old = FALSE]]
        /\ inflight' = inflight \cup
             {[key |-> key, read |-> Nothing, old |-> FALSE] :
                key \in {q \in missed : \A r \in inflight : r.key # q}}
        /\ Cardinality(inflight') <= MaxInFlight

Mounted == {h \in Hooks : hook[h].on}

Mount(h, p) ==
    /\ ~hook[h].on
    /\ Effect({h}, [hook EXCEPT ![h].on = TRUE, ![h].path = p], tick)
    /\ UNCHANGED <<tick, cache, version, since, logins>>

Unmount(h) ==
    /\ hook[h].on
    /\ hook' = [hook EXCEPT ![h] = Unmounted]
    /\ UNCHANGED <<tick, inflight, cache, version, since, logins>>

\* Another page, filter or channel: the data of the old path stays.
SetPath(h, p) ==
    /\ hook[h].on /\ hook[h].path # p
    /\ Effect({h}, [hook EXCEPT ![h].path = p], tick)
    /\ UNCHANGED <<tick, cache, version, since, logins>>

Refetch(h) ==
    /\ hook[h].on /\ hook[h].bump < MaxBump
    /\ Effect({h}, [hook EXCEPT ![h].bump = @ + 1], tick)
    /\ UNCHANGED <<tick, cache, version, since, logins>>

\* The poll, or refresh(): all hooks that are mounted fetch again.
Tick ==
    /\ tick < MaxTick
    /\ tick' = tick + 1
    /\ Effect(Mounted, hook, tick')
    /\ since' = version
    /\ UNCHANGED <<cache, version, logins>>

\* AuthGate unmounts everything; the next login mounts a new RefreshProvider.
Login ==
    /\ logins < MaxLogins
    /\ logins' = logins + 1
    /\ tick' = 0 /\ since' = version
    /\ hook' = [h \in Hooks |-> Unmounted]
    /\ inflight' = {[r EXCEPT !.old = TRUE] : r \in inflight}
    /\ cache' = {[c EXCEPT !.old = TRUE] : c \in cache}
    /\ UNCHANGED version

Write ==
    /\ version < MaxWrites
    /\ version' = version + 1
    /\ UNCHANGED <<tick, hook, inflight, cache, since, logins>>

\* The server reads its data, the answer is on its way.
Read(r) ==
    /\ r.read = Nothing
    /\ inflight' = (inflight \ {r}) \cup {[r EXCEPT !.read = version]}
    /\ UNCHANGED <<tick, hook, cache, version, since, logins>>

Waits(h, r) == hook[h].on /\ hook[h].waiting /\ KeyOf(hook[h], tick) = r.key

\* An answer replaces what the map holds under its key.
Cached(r) ==
    /\ cache' = {c \in cache : c.key # r.key} \cup {[key |-> r.key, read |-> r.read, old |-> r.old]}
    /\ Cardinality(cache') <= MaxCached

\* Variant: an effect that has been cleaned up still takes its answer.
Answered_NotCancelled(r) ==
    /\ r.read # Nothing
    /\ hook' = [h \in Hooks |-> IF hook[h].on /\ hook[h].waiting THEN Shows(hook[h], r) ELSE hook[h]]
    /\ inflight' = inflight \ {r}
    /\ Cached(r)
    /\ UNCHANGED <<tick, version, since, logins>>

Answered(r) ==
    /\ r.read # Nothing
    /\ hook' = [h \in Hooks |-> IF Waits(h, r) THEN Shows(hook[h], r) ELSE hook[h]]
    /\ inflight' = inflight \ {r}
    /\ Cached(r)
    /\ UNCHANGED <<tick, version, since, logins>>

\* Variant: loading is not reset when the request fails.
Failed_StaysLoading(r) ==
    /\ inflight' = inflight \ {r}
    /\ UNCHANGED <<tick, hook, cache, version, since, logins>>

Failed(r) ==
    /\ hook' = [h \in Hooks |->
                  IF Waits(h, r) THEN [hook[h] EXCEPT !.waiting = FALSE, !.error = TRUE] ELSE hook[h]]
    /\ inflight' = inflight \ {r}
    /\ UNCHANGED <<tick, cache, version, since, logins>>

\* 800 ms later; the entry stays in the map but is not used again.
Expire(c) ==
    /\ cache' = cache \ {c}
    /\ UNCHANGED <<tick, hook, inflight, version, since, logins>>

Next ==
    \/ \E h \in Hooks : Unmount(h) \/ Refetch(h) \/ \E p \in Paths : Mount(h, p) \/ SetPath(h, p)
    \/ Tick \/ Login \/ Write
    \/ \E r \in inflight : Read(r) \/ Answered(r) \/ Failed(r)
    \/ \E c \in cache : Expire(c)

(***************************************************************************)
(* Properties.                                                             *)
(***************************************************************************)

\* A hook that shows the data of another path (the page or channel left) waits
\* for its own or reports an error: a late answer is never left standing.
ForeignDataIsPassing ==
    \A h \in Mounted : hook[h].of \notin {hook[h].path, Nothing} => hook[h].waiting \/ hook[h].error

\* A hook that waits has a request in flight that will wake it.
WaitsForSomething ==
    \A h \in Mounted : hook[h].waiting => \E r \in inflight : Waits(h, r)

\* After refresh() or a poll, data that has settled is at least as new as what
\* the server held at that moment; only an answer that was asked for before the
\* last login may be older, because the login starts the ticks again at 0.
RefreshSeesWrites ==
    \A h \in Mounted :
        ~hook[h].waiting /\ ~hook[h].error /\ ~hook[h].old => hook[h].shown >= since

Spec == Init /\ [][Next]_vars

\* What carries WaitsForSomething from step to step.
IsHook(h) == h \in [on : BOOLEAN, path : {h.path}, bump : {h.bump}, waiting : BOOLEAN, error : BOOLEAN,
                    shown : {h.shown}, of : {h.of}, old : BOOLEAN]
IsRequest(r) == r \in [key : {r.key}, read : {r.read}, old : BOOLEAN]
WakeInv ==
    /\ hook \in [Hooks -> {hook[h] : h \in Hooks}] /\ \A h \in Hooks : IsHook(hook[h])
    /\ \A r \in inflight : IsRequest(r)
    /\ \A c \in cache : IsRequest(c)
    /\ WaitsForSomething

-----------------------------------------------------------------------------
(* Proofs *)

\* What is drawn from an answer waits no more; a hook that begins to wait keeps its key.
LEMMA ShowsAnswer ==
    ASSUME NEW h, IsHook(h), NEW e, IsRequest(e)
    PROVE  /\ IsHook(Shows(h, e)) /\ ~Shows(h, e).waiting
<1> DEFINE new == Shows(h, e)
<1>1. new \in [on : {h.on}, path : {h.path}, bump : {h.bump}, waiting : {FALSE}, error : {FALSE},
               shown : {e.read}, of : {e.key.path}, old : {e.old}]
  BY DEF Shows, IsHook
<1>2. h.on \in BOOLEAN /\ e.old \in BOOLEAN
  BY DEF IsHook, IsRequest
<1> HIDE DEF new
<1>3. IsHook(new) /\ ~new.waiting
  BY <1>1, <1>2 DEF IsHook
<1> QED
  BY <1>3 DEF new

LEMMA BeginsToWait ==
    ASSUME NEW h, IsHook(h), NEW new, NEW k,
           new = [h EXCEPT !.waiting = TRUE, !.error = FALSE, !.shown = Nothing, !.old = FALSE]
    PROVE  IsHook(new) /\ KeyOf(new, k) = KeyOf(h, k)
<1>1. new \in [on : {h.on}, path : {h.path}, bump : {h.bump}, waiting : {TRUE}, error : {FALSE},
               shown : {Nothing}, of : {h.of}, old : {FALSE}]
  BY DEF IsHook
<1> QED
  BY <1>1 DEF IsHook, KeyOf

\* The effect: whoever is left waiting has a request with its key.
LEMMA EffectWakes ==
    ASSUME WakeInv, NEW H, NEW hs, NEW k, Effect(H, hs, k), \A h \in Hooks : IsHook(hs[h])
    PROVE  /\ hook' \in [Hooks -> {hook'[h] : h \in Hooks}] /\ \A h \in Hooks : IsHook(hook'[h])
           /\ \A r \in inflight' : IsRequest(r)
           /\ inflight \subseteq inflight'
           /\ \A h \in Hooks \ H : hook'[h] = hs[h]
           /\ \A h \in Hooks \cap H : hook'[h].waiting => \E r \in inflight' : r.key = KeyOf(hook'[h], k)
<1> DEFINE Hit(h) == {c \in cache : c.key = KeyOf(hs[h], k)}
           missed == {KeyOf(hs[h], k) : h \in {g \in H : Hit(g) = {}}}
           New(key) == [key |-> key, read |-> Nothing, old |-> FALSE]
           Waiting(h) == [hs[h] EXCEPT !.waiting = TRUE, !.error = FALSE, !.shown = Nothing, !.old = FALSE]
<1>1. inflight' = inflight \cup {New(key) : key \in {q \in missed : \A r \in inflight : r.key # q}}
  BY DEF Effect
<1>2. hook' = [h \in Hooks |-> IF h \notin H THEN hs[h]
                               ELSE IF Hit(h) # {} THEN Shows(hs[h], CHOOSE c \in Hit(h) : TRUE)
                               ELSE Waiting(h)]
  BY DEF Effect
<1>3. \A key : IsRequest(New(key)) /\ New(key).key = key
  BY DEF IsRequest
<1>4. \A h \in Hooks : IsHook(Waiting(h)) /\ KeyOf(Waiting(h), k) = KeyOf(hs[h], k)
  BY BeginsToWait
<1>5. ASSUME NEW h \in Hooks, Hit(h) # {}
      PROVE  LET s == Shows(hs[h], CHOOSE c \in Hit(h) : TRUE) IN IsHook(s) /\ ~s.waiting
  <2>1. PICK e : e = (CHOOSE c \in Hit(h) : TRUE)
    OBVIOUS
  <2>2. e \in cache
    BY <1>5, <2>1
  <2> QED
    BY <2>1, <2>2, ShowsAnswer DEF WakeInv
<1> HIDE DEF New, Waiting
<1>6. \A r \in inflight' : IsRequest(r)
  BY <1>1, <1>3 DEF WakeInv
<1>7. \A q \in missed : \E r \in inflight' : r.key = q
  BY <1>1, <1>3
<1>8. \A h \in Hooks : IsHook(hook'[h])
  BY <1>2, <1>4, <1>5
<1>9. ASSUME NEW h \in Hooks \cap H, hook'[h].waiting
      PROVE  \E r \in inflight' : r.key = KeyOf(hook'[h], k)
  <2>1. Hit(h) = {}
    BY <1>2, <1>5, <1>9
  <2>2. hook'[h] = Waiting(h)
    BY <1>2, <2>1
  <2>3. KeyOf(hs[h], k) \in missed
    BY <2>1
  <2> QED
    BY <1>4, <1>7, <2>2, <2>3
<1>10. hook' \in [Hooks -> {hook'[h] : h \in Hooks}] /\ \A h \in Hooks \ H : hook'[h] = hs[h]
  BY <1>2
<1> QED
  BY <1>1, <1>6, <1>8, <1>9, <1>10

\* One hook has changed its key.
LEMMA OneEffect ==
    ASSUME WakeInv, NEW g \in Hooks, NEW new, IsHook(new), Effect({g}, [hook EXCEPT ![g] = new], tick),
           UNCHANGED <<tick, cache>>
    PROVE  WakeInv'
<1> DEFINE hs == [hook EXCEPT ![g] = new]
<1>1. \A h \in Hooks : IsHook(hs[h])
  BY DEF WakeInv
<1>2. \A h \in Hooks \ {g} : hs[h] = hook[h]
  BY DEF WakeInv
<1>3. Effect({g}, hs, tick)
  OBVIOUS
<1> HIDE DEF hs
<1>4. /\ hook' \in [Hooks -> {hook'[h] : h \in Hooks}] /\ \A h \in Hooks : IsHook(hook'[h])
      /\ \A r \in inflight' : IsRequest(r)
      /\ inflight \subseteq inflight'
      /\ \A h \in Hooks \ {g} : hook'[h] = hs[h]
      /\ \A h \in Hooks \cap {g} : hook'[h].waiting => \E r \in inflight' : r.key = KeyOf(hook'[h], tick)
  BY <1>1, <1>3, EffectWakes
<1>5. WaitsForSomething'
  <2> SUFFICES ASSUME NEW h \in Hooks, hook'[h].on, hook'[h].waiting
               PROVE  \E r \in inflight' : KeyOf(hook'[h], tick) = r.key
    BY DEF WaitsForSomething, Waits, Mounted
  <2>1. CASE h = g
    BY <1>4, <2>1
  <2>2. CASE h # g
    BY <1>2, <1>4, <2>2 DEF WakeInv, WaitsForSomething, Waits, Mounted
  <2> QED
    BY <2>1, <2>2
<1> QED
  BY <1>4, <1>5 DEF WakeInv

\* A hook keeps waiting only for a request that is still on its way.
LEMMA RequestMoves ==
    ASSUME WakeInv, NEW r \in inflight, Read(r) \/ Answered(r) \/ Failed(r)
    PROVE  WakeInv'
<1>1. IsRequest(r) /\ tick' = tick
  BY DEF WakeInv, Read, Answered, Failed
<1>2. CASE Read(r)
  <2>1. PICK v : v = version
    OBVIOUS
  <2> DEFINE d == [r EXCEPT !.read = v]
  <2>2. IsRequest(d) /\ d.key = r.key
    BY <1>1 DEF IsRequest
  <2>3. inflight' = (inflight \ {r}) \cup {d} /\ UNCHANGED <<tick, hook, cache>>
    BY <1>2, <2>1 DEF Read
  <2> HIDE DEF d
  <2> QED
    BY <2>2, <2>3 DEF WakeInv, WaitsForSomething, Waits, Mounted
<1>3. CASE Answered(r) \/ Failed(r)
  <2>1. \A h \in Hooks : Waits(h, r) => IsHook(hook'[h]) /\ ~hook'[h].waiting
    <3>1. CASE Answered(r)
      BY <1>1, <3>1, ShowsAnswer DEF Answered, WakeInv
    <3>2. CASE Failed(r)
      <4> SUFFICES ASSUME NEW h \in Hooks, Waits(h, r)
                   PROVE  IsHook(hook'[h]) /\ ~hook'[h].waiting
        OBVIOUS
      <4> DEFINE new == [hook[h] EXCEPT !.waiting = FALSE, !.error = TRUE]
      <4>1. hook[h] \in [on : BOOLEAN, path : {hook[h].path}, bump : {hook[h].bump}, waiting : BOOLEAN,
                         error : BOOLEAN, shown : {hook[h].shown}, of : {hook[h].of}, old : BOOLEAN]
        BY DEF WakeInv, IsHook
      <4>2. new \in [on : BOOLEAN, path : {hook[h].path}, bump : {hook[h].bump}, waiting : {FALSE},
                     error : {TRUE}, shown : {hook[h].shown}, of : {hook[h].of}, old : BOOLEAN]
        BY <4>1
      <4>3. hook'[h] = new
        BY <3>2 DEF Failed
      <4> HIDE DEF new
      <4> QED
        BY <4>2, <4>3 DEF IsHook
    <3> QED
      BY <1>3, <3>1, <3>2
  <2>2. \A h \in Hooks : ~Waits(h, r) => hook'[h] = hook[h]
    BY <1>3 DEF Answered, Failed
  <2>3. hook' \in [Hooks -> {hook'[h] : h \in Hooks}]
    BY <1>3 DEF Answered, Failed
  <2>4. inflight' = inflight \ {r}
    BY <1>3 DEF Answered, Failed
  <2>5. \A c \in cache' : IsRequest(c)
    <3>1. CASE Answered(r)
      <4> DEFINE d == [key |-> r.key, read |-> r.read, old |-> r.old]
      <4>1. IsRequest(d)
        BY <1>1 DEF IsRequest
      <4>2. cache' \subseteq cache \cup {d}
        BY <3>1 DEF Answered, Cached
      <4> HIDE DEF d
      <4> QED
        BY <4>1, <4>2 DEF WakeInv
    <3>2. CASE Failed(r)
      BY <3>2 DEF Failed, WakeInv
    <3> QED
      BY <1>3, <3>1, <3>2
  <2>6. WaitsForSomething'
    <3> SUFFICES ASSUME NEW h \in Hooks, hook'[h].on, hook'[h].waiting
                 PROVE  \E q \in inflight' : KeyOf(hook'[h], tick') = q.key
      BY DEF WaitsForSomething, Waits, Mounted
    <3>1. ~Waits(h, r) /\ hook'[h] = hook[h]
      BY <2>1, <2>2
    <3>2. PICK q \in inflight : Waits(h, q)
      BY <3>1 DEF WakeInv, WaitsForSomething, Mounted
    <3> QED
      BY <1>1, <2>4, <3>1, <3>2 DEF Waits
  <2>7. \A h \in Hooks : IsHook(hook'[h])
    BY <2>1, <2>2 DEF WakeInv
  <2> QED
    BY <2>3, <2>4, <2>5, <2>6, <2>7 DEF WakeInv
<1> QED
  BY <1>2, <1>3

LEMMA UnmountedHook == IsHook(Unmounted) /\ ~Unmounted.on
BY DEF IsHook, Unmounted

\* A waiting hook is woken by a request for its key, whatever changes keys, hooks and
\* requests: poll, paths, refetches, logins, answers and failures.
LEMMA WakeStep ==
    ASSUME WakeInv, Next PROVE WakeInv'
<1>1. ASSUME NEW h \in Hooks, NEW p \in Paths, Mount(h, p) \/ SetPath(h, p)
      PROVE  WakeInv'
  <2>1. IsHook(hook[h])
    BY DEF WakeInv
  <2>2. PICK on \in BOOLEAN : Effect({h}, [hook EXCEPT ![h] = [hook[h] EXCEPT !.on = on, !.path = p]], tick)
    <3>1. CASE Mount(h, p)
      <4>1. [hook EXCEPT ![h].on = TRUE, ![h].path = p]
               = [hook EXCEPT ![h] = [hook[h] EXCEPT !.on = TRUE, !.path = p]]
        BY DEF WakeInv
      <4> QED
        BY <3>1, <4>1 DEF Mount
    <3>2. CASE SetPath(h, p)
      <4>1. [hook EXCEPT ![h].path = p]
               = [hook EXCEPT ![h] = [hook[h] EXCEPT !.on = hook[h].on, !.path = p]]
        BY <2>1 DEF IsHook, WakeInv
      <4> QED
        BY <2>1, <3>2, <4>1 DEF SetPath, IsHook
    <3> QED
      BY <1>1, <3>1, <3>2
  <2>3. IsHook([hook[h] EXCEPT !.on = on, !.path = p])
    BY <2>1 DEF IsHook
  <2> QED
    BY <1>1, <2>2, <2>3, OneEffect DEF Mount, SetPath
<1>2. ASSUME NEW h \in Hooks, Refetch(h)
      PROVE  WakeInv'
  <2>1. IsHook(hook[h])
    BY DEF WakeInv
  <2>2. PICK b : Effect({h}, [hook EXCEPT ![h] = [hook[h] EXCEPT !.bump = b]], tick)
    BY <1>2 DEF Refetch
  <2>3. IsHook([hook[h] EXCEPT !.bump = b])
    BY <2>1 DEF IsHook
  <2> QED
    BY <1>2, <2>2, <2>3, OneEffect DEF Refetch
<1>3. ASSUME NEW h \in Hooks, Unmount(h)
      PROVE  WakeInv'
  <2>1. hook' = [hook EXCEPT ![h] = Unmounted] /\ UNCHANGED <<tick, inflight, cache>>
    BY <1>3 DEF Unmount
  <2>2. \A g \in Hooks : hook'[g] = IF g = h THEN Unmounted ELSE hook[g]
    BY <2>1 DEF WakeInv
  <2>3. hook' \in [Hooks -> {hook'[g] : g \in Hooks}]
    BY <2>1 DEF WakeInv
  <2> QED
    BY <2>1, <2>2, <2>3, UnmountedHook DEF WakeInv, WaitsForSomething, Waits, Mounted
<1>4. CASE Tick
  <2>1. Effect(Mounted, hook, tick') /\ cache' = cache
    BY <1>4 DEF Tick
  <2>2. /\ hook' \in [Hooks -> {hook'[h] : h \in Hooks}] /\ \A h \in Hooks : IsHook(hook'[h])
        /\ \A r \in inflight' : IsRequest(r)
        /\ \A h \in Hooks \ Mounted : hook'[h] = hook[h]
        /\ \A h \in Hooks \cap Mounted : hook'[h].waiting => \E r \in inflight' : r.key = KeyOf(hook'[h], tick')
    BY <2>1, EffectWakes DEF WakeInv
  <2>3. WaitsForSomething'
    BY <2>2 DEF WaitsForSomething, Waits, Mounted
  <2> QED
    BY <2>1, <2>2, <2>3 DEF WakeInv
<1>5. CASE Login
  <2> DEFINE Old(r) == [r EXCEPT !.old = TRUE]
  <2>1. \A r : IsRequest(r) => IsRequest(Old(r))
    BY DEF IsRequest
  <2>2. /\ hook' = [h \in Hooks |-> Unmounted] /\ inflight' = {Old(r) : r \in inflight}
        /\ cache' = {Old(c) : c \in cache}
    BY <1>5 DEF Login
  <2> HIDE DEF Old
  <2> QED
    BY <2>1, <2>2, UnmountedHook DEF WakeInv, WaitsForSomething, Mounted
<1>6. CASE Write
  BY <1>6 DEF Write, WakeInv, WaitsForSomething, Waits, Mounted
<1>7. ASSUME NEW c \in cache, Expire(c)
      PROVE  WakeInv'
  BY <1>7 DEF Expire, WakeInv, WaitsForSomething, Waits, Mounted
<1> QED
  BY <1>1, <1>2, <1>3, <1>4, <1>5, <1>6, <1>7, RequestMoves DEF Next

LEMMA WakeStarts == Init => WakeInv
BY UnmountedHook DEF Init, WakeInv, WaitsForSomething, Mounted
=============================================================================
