------------------------------ MODULE EnsureKeys ------------------------------
(***************************************************************************)
(* EnsureRouteKeys (backend/gateway/admin_routes.go): every route of a     *)
(* gateway group gets an upstream API key, named after its source group,   *)
(* that all routes of that source group share.  One goroutine per route    *)
(* searches, renames or creates the key at the upstream and then stores it *)
(* in the route; a mutex per key name, made anew for every call, keeps the *)
(* goroutines of a call that want the same key apart.                      *)
(*                                                                         *)
(* Abstractions: one channel, since names and keys of different channels   *)
(* never meet; the stable name of a source group is the group itself, the  *)
(* name of an old per-route key is the route; the secret is the key's id;  *)
(* lists of the upstream are complete (the code reads one page of 100).    *)
(* Calls may overlap, for one gateway group or for several: nothing but    *)
(* the upstream is common to them.                                         *)
(***************************************************************************)
EXTENDS Integers, FiniteSets

CONSTANTS
    Groups,       \* source groups of the channel
    Routes,
    Calls,        \* calls of EnsureRouteKeys that may run at a time
    RoutesOf,     \* the routes of the gateway group each call is for
    Concurrency,  \* RouteBatchConcurrency
    MaxCalls,     \* bound of the calls begun
    MaxEdits,     \* bound of the changes of a route's source group
    MaxErrors     \* bound of the failing requests to the upstream

EnsureAssumption ==
    /\ IsFiniteSet(Routes) /\ IsFiniteSet(Calls) /\ Groups \cap Routes = {}
    /\ RoutesOf \in [Calls -> SUBSET Routes]
    /\ Concurrency \in Nat \ {0}
    /\ {MaxCalls, MaxEdits, MaxErrors} \subseteq Nat

VARIABLES
    remote,    \* the upstream: id -> name and group of a key
    bound,     \* the key columns and the source group of each route
    running,   \* calls under way
    work,      \* the goroutine of each call and route
    most,      \* a witness: the most calls that were at a name at a time
    begun, edits, errors

vars == <<remote, bound, running, work, most, begun, edits, errors>>

NoKey == 0
KeyIds == DOMAIN remote

Stages == {"wait", "lock", "search", "list", "update", "create", "reveal", "bind", "done"}
Done == [pc |-> "done", group |-> "none", key |-> NoKey, old |-> NoKey, found |-> NoKey]

\* A route may still hold a key of the old scheme, which has the route's name and
\* was made for the source group the route had then.
Init ==
    /\ \E grp \in [Routes -> Groups], made \in [Routes -> Groups], legacy \in SUBSET Routes,
          id \in [Routes -> 1..Cardinality(Routes)] :
          /\ \A a, b \in legacy : id[a] = id[b] => a = b
          /\ {id[rt] : rt \in legacy} = 1..Cardinality(legacy)
          /\ \A rt \in Routes \ legacy : id[rt] = 1 /\ made[rt] = grp[rt]
          /\ remote = [k \in 1..Cardinality(legacy) |->
                         LET rt == CHOOSE a \in legacy : id[a] = k
                         IN  [name |-> rt, group |-> made[rt]]]
          /\ bound = [rt \in Routes |->
                        [group |-> grp[rt],
                         key |-> IF rt \in legacy THEN id[rt] ELSE NoKey,
                         name |-> rt]]
    /\ running = {}
    /\ work = [c \in Calls |-> [rt \in Routes |-> Done]]
    /\ most = [g \in Groups |-> 0]
    /\ begun = 0 /\ edits = 0 /\ errors = 0

-----------------------------------------------------------------------------
(* The goroutine of one route *)

\* ListByGroupID: every goroutine gets its route as it is now.
BeginCall(c) ==
    /\ c \notin running /\ begun < MaxCalls
    /\ running' = running \cup {c}
    /\ begun' = begun + 1
    /\ work' = [work EXCEPT ![c] = [rt \in Routes |->
                  IF rt \in RoutesOf[c]
                  THEN [pc |-> "wait", group |-> bound[rt].group, key |-> bound[rt].key,
                        old |-> bound[rt].name, found |-> NoKey]
                  ELSE Done]]
    /\ UNCHANGED <<remote, bound, most, edits, errors>>

At(c, stages) == {rt \in Routes : work[c][rt].pc \in stages}
Critical == {"search", "list", "update", "create", "reveal", "bind"}

Moves(c, rt, stage) == work' = [work EXCEPT ![c][rt].pc = stage]
Finds(c, rt, k, stage) == work' = [work EXCEPT ![c][rt].pc = stage, ![c][rt].found = k]

\* The semaphore first, or the request's context if the caller has left.
Admit(c, rt) ==
    /\ work[c][rt].pc = "wait"
    /\ \/ Cardinality(At(c, Critical \cup {"lock"})) < Concurrency /\ Moves(c, rt, "lock")
       \/ Moves(c, rt, "done")
    /\ UNCHANGED <<remote, bound, running, most, begun, edits, errors>>

\* Variant: the mutex is asked for by the route's name.
Locked_ByRoute(c, rt) == \E other \in At(c, Critical) : other = rt

\* Variant: who waits for the mutex counts as holding it.
Locked_ByWaiter(c, rt) == \E other \in At(c, Critical \cup {"lock"}) \ {rt} :
                             work[c][other].group = work[c][rt].group

\* The mutex of the stable name is held by another goroutine of this call.
Locked(c, rt) == \E other \in At(c, Critical) : work[c][other].group = work[c][rt].group

\* The calls that have a goroutine between lock and unlock of a name.
AtName(g) == {c \in Calls : \E rt \in At(c, Critical) : work[c][rt].group = g}

\* A mutex of this call, which says nothing of the others at the name.
Lock(c, rt) ==
    LET g == work[c][rt].group
        n == Cardinality(AtName(g) \cup {c})
    IN  /\ work[c][rt].pc = "lock" /\ ~Locked(c, rt)
        /\ Moves(c, rt, "search")
        /\ most' = [most EXCEPT ![g] = IF n > @ THEN n ELSE @]
        /\ UNCHANGED <<remote, bound, running, begun, edits, errors>>

Named(name) == {k \in KeyIds : remote[k].name = name}

\* Search by the stable name.
Search(c, rt) ==
    LET hits == Named(work[c][rt].group) IN
    /\ work[c][rt].pc = "search"
    /\ IF hits = {} THEN Moves(c, rt, "list")
       ELSE \E k \in hits : Finds(c, rt, k, "update")
    /\ UNCHANGED <<remote, bound, running, most, begun, edits, errors>>

\* The order of the search in the whole list: stable name, stored id, old name.
Match(w) ==
    IF Named(w.group) # {} THEN Named(w.group)
    ELSE IF w.key \in KeyIds THEN {w.key} ELSE Named(w.old)

ListAll(c, rt) ==
    LET hits == Match(work[c][rt]) IN
    /\ work[c][rt].pc = "list"
    /\ IF hits = {} THEN Moves(c, rt, "create")
       ELSE \E k \in hits : Finds(c, rt, k, "update")
    /\ UNCHANGED <<remote, bound, running, most, begun, edits, errors>>

\* What UpdateAPIKey and CreateAPIKey make of the key: stable name, source group.
Ensured(w) == [name |-> w.group, group |-> w.group]

\* Variant: the key is renamed but stays in the group it was made for.
Update_NameOnly(c, rt) ==
    LET w == work[c][rt] IN
    /\ w.pc = "update"
    /\ remote' = [remote EXCEPT ![w.found].name = w.group]
    /\ Moves(c, rt, "reveal")
    /\ UNCHANGED <<bound, running, most, begun, edits, errors>>

Update(c, rt) ==
    LET w == work[c][rt] IN
    /\ w.pc = "update"
    /\ remote' = [remote EXCEPT ![w.found] = Ensured(w)]
    /\ Moves(c, rt, "reveal")
    /\ UNCHANGED <<bound, running, most, begun, edits, errors>>

NewId == Cardinality(KeyIds) + 1
Added(w) == [k \in KeyIds \cup {NewId} |-> IF k = NewId THEN Ensured(w) ELSE remote[k]]

Create(c, rt) ==
    /\ work[c][rt].pc = "create"
    /\ remote' = Added(work[c][rt])
    /\ Finds(c, rt, NewId, "reveal")
    /\ UNCHANGED <<bound, running, most, begun, edits, errors>>

Reveal(c, rt) ==
    /\ work[c][rt].pc = "reveal"
    /\ Moves(c, rt, "bind")
    /\ UNCHANGED <<remote, bound, running, most, begun, edits, errors>>

\* UpdateSourceKey; the deferred unlock follows.
Bind(c, rt) ==
    LET w == work[c][rt] IN
    /\ w.pc = "bind"
    /\ bound' = [bound EXCEPT ![rt].key = w.found, ![rt].name = w.group]
    /\ work' = [work EXCEPT ![c][rt] = Done]
    /\ UNCHANGED <<remote, running, most, begun, edits, errors>>

\* A request to the upstream fails, perhaps after a key was created there; the
\* other routes go on.
Fail(c, rt) ==
    /\ work[c][rt].pc \in Critical \ {"bind"} /\ errors < MaxErrors
    /\ errors' = errors + 1
    /\ remote' \in IF work[c][rt].pc = "create" THEN {remote, Added(work[c][rt])} ELSE {remote}
    /\ work' = [work EXCEPT ![c][rt] = Done]
    /\ UNCHANGED <<bound, running, most, begun, edits>>

\* wg.Wait.
EndCall(c) ==
    /\ c \in running /\ At(c, Stages \ {"done"}) = {}
    /\ running' = running \ {c}
    /\ UNCHANGED <<remote, bound, work, most, begun, edits, errors>>

RouteStep(c, rt) ==
    \/ Admit(c, rt) \/ Lock(c, rt) \/ Search(c, rt) \/ ListAll(c, rt) \/ Update(c, rt)
    \/ Create(c, rt) \/ Reveal(c, rt) \/ Bind(c, rt)

\* SaveRoutes moves a route to another source group of the channel: the source is
\* the same for SaveForGroup, so the key columns stay.
ChangeGroup(rt, g) ==
    /\ edits < MaxEdits /\ bound[rt].group # g
    /\ edits' = edits + 1
    /\ bound' = [bound EXCEPT ![rt].group = g]
    /\ UNCHANGED <<remote, running, work, most, begun, errors>>

Next ==
    \/ \E c \in Calls : BeginCall(c) \/ EndCall(c)
    \/ \E c \in Calls, rt \in Routes : RouteStep(c, rt) \/ Fail(c, rt)
    \/ \E rt \in Routes, g \in Groups : ChangeGroup(rt, g)

Spec == Init /\ [][Next]_vars

\* Requests to the upstream return, and a goroutine that nobody keeps out goes on.
Fairness ==
    /\ \A c \in Calls : WF_vars(EndCall(c))
    /\ \A c \in Calls : \A rt \in RoutesOf[c] : WF_vars(RouteStep(c, rt))

-----------------------------------------------------------------------------
(* Properties *)

\* The variables have their types: in particular a goroutine only ever holds ids
\* that the upstream has given out, and the counters keep their bounds.
TypeOK ==
    /\ \A k \in KeyIds : remote[k] \in [name : Groups \cup Routes, group : Groups]
    /\ bound \in [Routes -> [group : Groups, key : KeyIds \cup {NoKey}, name : Groups \cup Routes]]
    /\ running \in SUBSET Calls
    /\ \A c \in Calls : work[c] \in
          [Routes -> [pc : Stages, group : Groups \cup {Done.group}, key : KeyIds \cup {NoKey},
                      old : Groups \cup Routes \cup {NoKey}, found : KeyIds \cup {NoKey}]]
    /\ most \in [Groups -> 0..Cardinality(Calls)]
    /\ begun \in 0..MaxCalls /\ edits \in 0..MaxEdits /\ errors \in 0..MaxErrors

\* "Ensure of keys of one name is serial": there are never more keys of a name at the
\* upstream than calls that have been at the name at a time, so one key as long as calls
\* do not meet there, whatever fails in between and however routes move.  (The mutexes
\* are made anew by each call, so calls that do meet may make a key each.)
KeysPerName == \A g \in Groups : Cardinality(Named(g)) <= most[g]

\* The key a route has been given for a source group belongs to that group at the
\* upstream, whatever calls do meanwhile, as long as no route has moved to another
\* group (a route that moves takes a shared key along).
KeyServesItsGroup ==
    edits = 0 => \A rt \in Routes : bound[rt].name \in Groups =>
        bound[rt].key \in KeyIds /\ remote[bound[rt].key].group = bound[rt].name

\* No more keys of a name than calls made, and each serves the group of its routes.
KeysAreSound == KeysPerName /\ KeyServesItsGroup

\* A call ends, whoever waits for whom and whatever fails.
CallEnds == \A c \in Calls : c \in running ~> c \notin running
=============================================================================
