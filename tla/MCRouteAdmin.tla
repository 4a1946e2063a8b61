---------------------------- MODULE MCRouteAdmin ----------------------------
(***************************************************************************)
(* The machines around the rows of a group, one run for all: the initial   *)
(* state chooses which of them runs, and the others stay where they are.   *)
(* They share no state.                                                    *)
(***************************************************************************)
EXTENDS KeyQuota, TLC

CONSTANTS
    Sources, Savers, Resorters, Ensurers, MaxId, Deletion,       \* RouteTable
    MaxRows, MaxNew, TmpBase,                                    \* RouteSave
    Routes, Rate, Position, Submitted, Descending                \* WeightedDraw

VARIABLES
    part,                                                         \* who runs
    rows, nextId, exists, job, ensure,                            \* RouteTable
    pos, list, phase, moved, next,                                \* RouteSave
    cands, seg, start                                             \* WeightedDraw

SourceSymmetry == Permutations(Sources)

\* A block of four, two of them meant as fallbacks, between two single prices,
\* and positions against the ids.
MCRate == <<1, 2, 2, 2, 2, 3>>
MCPosition == <<0, 4, 3, 2, 1, 0>>
MCSubmitted == <<0, 3, 0, 2, -1, 1>>

Table == INSTANCE RouteTable WITH Admins <- Savers

Save == INSTANCE RouteSave

Draw == INSTANCE WeightedDraw
          WITH Weight <- [rt \in Routes |-> IF Submitted[rt] <= 0 THEN 1 ELSE Submitted[rt]]

ASSUME AdminAssumption ==
    /\ Table!TableAssumption /\ Save!SaveAssumption /\ Draw!WeightAssumption
    /\ Routes \subseteq Nat /\ IsFiniteSet(Routes)
    /\ Rate \in [Routes -> Int] /\ Position \in [Routes -> Int] /\ Descending \in BOOLEAN

tableVars == <<rows, nextId, exists, job, ensure>>
saveVars == <<pos, list, phase, moved, next>>
drawVars == <<cands, seg, start>>
allVars == <<part, vars, tableVars, saveVars, drawVars>>

\* One initial state of each machine, in which it waits for the others.
QuotaIdle == Init /\ key.quota = MaxQuota
TableIdle == Table!Init /\ rows[1].src = rows[2].src
SaveIdle == list = <<>> /\ Save!Init /\ \A id \in Save!Existing : pos[id] = id - 1
DrawIdle == cands = {} /\ Draw!Init

MCInit ==
    \/ part = "quota" /\ Init /\ TableIdle /\ SaveIdle /\ DrawIdle
    \/ part = "table" /\ QuotaIdle /\ Table!Init /\ SaveIdle /\ DrawIdle
    \/ part = "save" /\ QuotaIdle /\ TableIdle /\ Save!Init /\ DrawIdle
    \/ part = "draw" /\ QuotaIdle /\ TableIdle /\ SaveIdle /\ Draw!Init

MCNext ==
    /\ UNCHANGED part
    /\ \/ part = "quota" /\ Next /\ UNCHANGED <<tableVars, saveVars, drawVars>>
       \/ part = "table" /\ Table!Next /\ UNCHANGED <<vars, saveVars, drawVars>>
       \/ part = "save" /\ Save!Next /\ UNCHANGED <<vars, tableVars, drawVars>>
       \/ part = "draw" /\ Draw!Next /\ UNCHANGED <<vars, tableVars, saveVars>>

MCSpec == MCInit /\ [][MCNext]_allVars

\* The properties, as the modules of the parts state and explain them.
TypesOK ==
    /\ TypeOK
    /\ Table!TypeOK
    /\ part = "save" => Save!TypeOK
    /\ part = "draw" => Draw!TypeOK

\* The order of the routes, from the list a form sends over the statements that
\* store it to the order of attempts: no step collides, the list is what is
\* committed, cheaper routes come first and equal ones in proportion to weight.
OrderIsSound ==
    /\ part = "save" => Save!UniqueIndexHolds /\ Save!CommitsTheList
    /\ part = "draw" => Draw!RateOrderKept /\ Draw!DrawIsProportional

\* Saves lose no key and no pause; only an ensurer puts a key in the wrong place; and
\* of a gateway key only an edit loses a bill.
RowsAreKept == Table!RowsAreKept /\ OnlyEditsLoseBills
=============================================================================
