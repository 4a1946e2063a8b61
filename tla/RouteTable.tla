------------------------------ MODULE RouteTable ------------------------------
(***************************************************************************)
(* The rows of gateway_routes that belong to one group, and everybody who  *)
(* writes them:                                                            *)
(*   - administrators load the list, edit a form and save the whole list   *)
(*     (ListRoutes, SaveRoutes);                                           *)
(*   - resorters read the list, fetch ratios from upstreams and save the   *)
(*     list in its new order (reorderRoutesPersisted, which a rate scan    *)
(*     and a change of the group call);                                    *)
(*   - ensurers provide a route with an upstream key (ensureSourceAPIKey); *)
(*   - requests pause routes and note their recovery.                      *)
(* SaveForGroup is one transaction and the default database has a single   *)
(* connection, so it is one step; RouteSave.tla has its statements.        *)
(*                                                                         *)
(* Abstractions: of the form's fields only the source is kept; the pause   *)
(* columns are one flag; a key is the source it was issued by; the ratios  *)
(* fetched arrange the list in any way, so positions are left to RouteSave *)
(* and a list is a set of items here.                                      *)
(***************************************************************************)
EXTENDS Integers, FiniteSets, Functions

CONSTANTS
    Sources,    \* monitored channels and providers
    Admins, Resorters, Ensurers,
    MaxId,      \* bound of the ids given out
    Deletion    \* whether the group is deleted in this instance

VARIABLES
    rows,       \* id -> row
    nextId,     \* the auto-increment counter
    exists,     \* the row of the group
    job,        \* what an administrator or resorter holds
    ensure      \* what an ensurer holds

vars == <<rows, nextId, exists, job, ensure>>

NoKey == "none"
NoRows == [id \in {} |-> id]

TableAssumption ==
    /\ MaxId \in Nat /\ MaxId >= 2    \* the rows of Init
    /\ NoKey \notin Sources
    /\ Deletion \in BOOLEAN
    /\ Admins \cap Resorters = {}

Row  == [src : Sources, key : Sources \cup {NoKey}, pause : BOOLEAN]
Item == [id : Nat, src : Sources]    \* id 0: added in the form

Writers == Admins \cup Resorters
Ids     == DOMAIN rows

Init ==
    /\ \E s \in [1..2 -> Sources] :
          rows = [i \in 1..2 |-> [src |-> s[i], key |-> s[i], pause |-> FALSE]]
    /\ nextId = 3
    /\ exists = TRUE
    /\ job = [w \in Writers |-> [pc |-> "idle", items |-> {}]]
    /\ ensure = [e \in Ensurers |-> [id |-> 0, src |-> NoKey]]

-----------------------------------------------------------------------------
(* SaveForGroup *)

\* Variant: an item without an id is taken for an existing row.
New_Missing(items) == {it \in items : it.id \notin Ids /\ it.id # 0}

\* An id that is not in the group (any more) makes the item a new row.
New(items) == {it \in items : it.id \notin Ids}

SameSource(it) == it.id \in Ids /\ rows[it.id].src = it.src

Blank(it) == [src |-> it.src, key |-> NoKey, pause |-> FALSE]

\* Variant: the key is kept whatever happens to the source.
SavedRow_KeepsKey(it) ==
    IF it.id \in Ids THEN [rows[it.id] EXCEPT !.src = it.src] ELSE Blank(it)

\* Variant: a saved row starts without a pause.
SavedRow_DropsPause(it) ==
    IF SameSource(it) THEN [rows[it.id] EXCEPT !.pause = FALSE] ELSE Blank(it)

\* The row an item becomes.  The key and the pause are those of the row as the
\* transaction finds it.
SavedRow(it) == IF SameSource(it) THEN rows[it.id] ELSE Blank(it)

\* The transaction, after OrderRoutesByRate.  Rows that no item names are gone.
SaveForGroup(w) ==
    LET items == job[w].items
        fresh == nextId .. nextId + Cardinality(New(items)) - 1
    IN
    /\ job[w].pc = "save"
    /\ nextId' = nextId + Cardinality(New(items))
    /\ nextId' <= MaxId + 1
    /\ \E number \in Bijection(fresh, New(items)) :
          rows' = [id \in fresh \cup {it.id : it \in items \ New(items)} |->
                     SavedRow(IF id \in fresh THEN number[id]
                              ELSE CHOOSE it \in items : it.id = id)]
    /\ job' = [job EXCEPT ![w] = [pc |-> "idle", items |-> {}]]
    /\ UNCHANGED <<exists, ensure>>

\* The transaction fails and is rolled back; the caller reports or logs it.
SaveFails(w) ==
    /\ job[w].pc = "save"
    /\ job' = [job EXCEPT ![w] = [pc |-> "idle", items |-> {}]]
    /\ UNCHANGED <<rows, nextId, exists, ensure>>

-----------------------------------------------------------------------------
(* Administrators and resorters *)

\* ListByGroupID.
Listed == {[id |-> id, src |-> rows[id].src] : id \in Ids}

OpenForm(a) ==
    /\ job[a].pc = "idle" /\ exists
    /\ job' = [job EXCEPT ![a] = [pc |-> "form", items |-> Listed]]
    /\ UNCHANGED <<rows, nextId, exists, ensure>>

\* One change an administrator makes before saving.
Edited(items) ==
    {items} \cup {(items \ {it}) \cup {[it EXCEPT !.src = s]} : it \in items, s \in Sources}
    \cup {items \ {it} : it \in items}
    \cup {items \cup {[id |-> 0, src |-> s]} : s \in Sources}

\* SaveRoutes up to the fetch of the ratios: the group must exist.
SaveRoutes(a) ==
    /\ job[a].pc = "form"
    /\ IF exists
       THEN \E items \in Edited(job[a].items) :
               job' = [job EXCEPT ![a] = [pc |-> "save", items |-> items]]
       ELSE job' = [job EXCEPT ![a] = [pc |-> "idle", items |-> {}]]
    /\ UNCHANGED <<rows, nextId, exists, ensure>>

\* reorderRoutesPersisted up to the fetch of the ratios: nothing to do without rows.
BeginReorder(r) ==
    /\ job[r].pc = "idle" /\ Ids # {}
    /\ job' = [job EXCEPT ![r] = [pc |-> "save", items |-> Listed]]
    /\ UNCHANGED <<rows, nextId, exists, ensure>>

\* DeleteGroup: routes, keys and the group in one transaction.
DeleteGroup ==
    /\ Deletion /\ exists
    /\ exists' = FALSE
    /\ rows' = NoRows
    /\ UNCHANGED <<nextId, job, ensure>>

-----------------------------------------------------------------------------
(* Keys and pauses *)

\* EnsureRouteKeys reads the route and asks its source for a key ...
BeginEnsure(e, id) ==
    /\ ensure[e].id = 0 /\ id \in Ids
    /\ ensure' = [ensure EXCEPT ![e] = [id |-> id, src |-> rows[id].src]]
    /\ UNCHANGED <<rows, nextId, exists, job>>

\* ... and UpdateSourceKey stores it, if the source has given one.
EndEnsure(e) ==
    LET id == ensure[e].id IN
    /\ id # 0
    /\ \/ rows' = IF id \in Ids THEN [rows EXCEPT ![id].key = ensure[e].src] ELSE rows
       \/ UNCHANGED rows
    /\ ensure' = [ensure EXCEPT ![e] = [id |-> 0, src |-> NoKey]]
    /\ UNCHANGED <<nextId, exists, job>>

\* SetTempUnschedulable, and the statements that take it back.
Pause(id) ==
    /\ id \in Ids
    /\ rows' = [rows EXCEPT ![id].pause = ~@]
    /\ UNCHANGED <<nextId, exists, job, ensure>>

Next ==
    \/ \E a \in Admins : OpenForm(a) \/ SaveRoutes(a)
    \/ \E r \in Resorters : BeginReorder(r)
    \/ \E w \in Writers : SaveForGroup(w) \/ SaveFails(w)
    \/ DeleteGroup
    \/ \E e \in Ensurers : EndEnsure(e) \/ \E id \in Ids : BeginEnsure(e, id)
    \/ \E id \in Ids : Pause(id)

Spec == Init /\ [][Next]_vars

-----------------------------------------------------------------------------
(* Properties *)

\* The variables have their types.
TypeOK ==
    /\ Ids \subseteq 1..MaxId /\ \A id \in Ids : rows[id] \in Row
    /\ nextId \in 1..MaxId + 1 /\ \A id \in Ids : id < nextId
    /\ exists \in BOOLEAN
    /\ job \in [Writers -> [pc : {"idle", "form", "save"}, items : SUBSET Item]]
    /\ ensure \in [Ensurers -> [id : 0..MaxId, src : Sources \cup {NoKey}]]

Matches(row) == row.key \in {NoKey, row.src}

\* A route gets the key of another source only from an ensurer that had read it
\* before it moved: forms and reorders that know different sources of it may
\* overtake each other in any way.
OnlyEnsureMisplacesKeys ==
    [][\A id \in DOMAIN rows' :
         ~Matches(rows'[id]) /\ (id \in Ids => Matches(rows[id])) =>
            \E e \in Ensurers : ensure[e].id = id /\ ensure'[e].id = 0]_vars

Saves(w) == job[w].pc = "save" /\ job'[w].pc = "idle"

\* "Kept if the source is unchanged": a save overwrites neither a key nor a pause
\* that was written after the saved list had been read.
SaveKeepsKeyAndPause ==
    [][\A w \in Writers : Saves(w) =>
         \A id \in Ids \cap DOMAIN rows' : rows'[id].src = rows[id].src =>
            rows'[id].key = rows[id].key /\ rows'[id].pause = rows[id].pause]_vars

\* Saves lose no key and no pause, and only an ensurer puts a key in the wrong place.
RowsAreKept == OnlyEnsureMisplacesKeys /\ SaveKeepsKeyAndPause

\* A reorder "rewrites position and billing ratio": it adds and removes no route
\* and reverts nothing that was written while it fetched the ratios.
ResortOnlyReorders ==
    [][\A r \in Resorters : Saves(r) => rows' = rows]_vars
=============================================================================
