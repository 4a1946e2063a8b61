------------------------------- MODULE RouteSave -------------------------------
(***************************************************************************)
(* The statements inside one SaveForGroup transaction                      *)
(* (backend/storage/gateway.go).  (group, position) is a unique index, and *)
(* the database checks it after every statement; the rows change places    *)
(* by way of temporary positions.  A statement that broke the index would  *)
(* fail and take the whole save with it.                                   *)
(***************************************************************************)
EXTENDS Integers, Sequences, FiniteSets, SequencesExt

CONSTANTS
    MaxRows,    \* rows in the group before the save
    MaxNew,     \* items the form has added
    TmpBase     \* the offset of the temporary positions

SaveAssumption ==
    /\ MaxRows \in Nat /\ MaxNew \in Nat
    /\ TmpBase \in Nat /\ TmpBase >= MaxRows + MaxNew

VARIABLES
    pos,        \* id -> position, the table as the transaction sees it
    list,       \* the ids of the list to be saved, in order; 0 for a new item
    phase,      \* which of the three loops runs
    moved,      \* existing rows the first loop has moved away
    next        \* index of the item the second loop saves next

vars == <<pos, list, phase, moved, next>>

Existing == 1..MaxRows

\* Any order of some of the rows and of new items: ordered lists arrive with the
\* positions of the last save, 0, 1, ..., but in the order of new ratios.
Init ==
    /\ pos \in {p \in [Existing -> 0..MaxRows - 1] :
                  \A i, j \in Existing : p[i] = p[j] => i = j}
    /\ list \in UNION {[1..n -> Existing \cup {0}] : n \in 0..MaxRows + MaxNew}
    /\ \A i, j \in DOMAIN list : list[i] = list[j] /\ list[i] # 0 => i = j
    /\ Cardinality({i \in DOMAIN list : list[i] = 0}) <= MaxNew
    /\ phase = "move" /\ moved = {} /\ next = 1

\* Variant: rows that stay are left where they are.
MustMove_OnlyDropped == {id \in Existing : id \notin ToSet(list)} \ moved

\* The rows the first loop still has to move.
MustMove == Existing \ moved

\* Phase 1: out of the way.
MoveAway ==
    /\ phase = "move"
    /\ IF MustMove = {}
       THEN phase' = "save" /\ UNCHANGED <<pos, moved>>
       ELSE \E id \in MustMove :
              /\ pos' = [pos EXCEPT ![id] = TmpBase + id]
              /\ moved' = moved \cup {id}
              /\ UNCHANGED phase
    /\ UNCHANGED <<list, next>>

\* The auto-increment id of the next new row: above all that exist.
FreshId == MaxRows + 1 + Cardinality({i \in 1..next - 1 : list[i] = 0})
ItemId == IF list[next] = 0 THEN FreshId ELSE list[next]

\* Variant: positions count from the id.
FinalPos_ById == ItemId - 1

FinalPos == next - 1

\* Save or Create of one item.
SaveItem ==
    /\ phase = "save" /\ next <= Len(list)
    /\ pos' = [id \in DOMAIN pos \cup {ItemId} |-> IF id = ItemId THEN FinalPos ELSE pos[id]]
    /\ next' = next + 1
    /\ UNCHANGED <<list, phase, moved>>

Kept == {list[i] : i \in DOMAIN list} \ {0}

\* The last loop, in the order of a Go map: rows the list does not name.
DeleteRest ==
    /\ phase = "save" /\ next > Len(list)
    /\ \/ \E id \in (Existing \cap DOMAIN pos) \ Kept :
             pos' = [k \in DOMAIN pos \ {id} |-> pos[k]] /\ UNCHANGED phase
       \/ /\ Existing \cap DOMAIN pos \subseteq Kept
          /\ phase' = "commit" /\ UNCHANGED pos
    /\ UNCHANGED <<list, moved, next>>

Next == MoveAway \/ SaveItem \/ DeleteRest

Spec == Init /\ [][Next]_vars

-----------------------------------------------------------------------------
(* Properties *)

\* The variables have their types: positions are those of a list or temporary.
TypeOK ==
    /\ DOMAIN pos \subseteq 1..MaxRows + MaxNew
    /\ \A id \in DOMAIN pos : pos[id] \in 0..MaxRows + MaxNew - 1 \cup {TmpBase + k : k \in Existing}
    /\ list \in Seq(0..MaxRows)
    /\ phase \in {"move", "save", "commit"}
    /\ moved \subseteq Existing /\ next \in 1..Len(list) + 1

\* "Temporary positions first, to avoid conflicts when rows change places": the
\* unique index holds after every statement.
UniqueIndexHolds == \A i, j \in DOMAIN pos : pos[i] = pos[j] => i = j

\* The rows that are committed are those of the list, in its order from 0 on, and
\* every row the list names still has its id.
CommitsTheList ==
    phase = "commit" =>
        /\ \A i \in DOMAIN list : list[i] # 0 => list[i] \in DOMAIN pos /\ pos[list[i]] = i - 1
        /\ {pos[id] : id \in DOMAIN pos} = 0..Len(list) - 1
        /\ Cardinality(DOMAIN pos) = Len(list)
=============================================================================
