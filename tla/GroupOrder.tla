------------------------------ MODULE GroupOrder ------------------------------
(***************************************************************************)
(* The order of the groups in the sidebar of the gateway page.  A drag     *)
(* shows the new order at once and sends the whole list (reorderGroups);   *)
(* the answer replaces the list, and a failure puts back the list that was *)
(* shown when the drag began.  Nothing disables a second drag meanwhile.   *)
(*                                                                         *)
(* The server keeps a position per group, sorts by position and then by    *)
(* the newer id, and rewrites the positions of the ids it is sent.         *)
(***************************************************************************)
EXTENDS Naturals, FiniteSets, SequencesExt

CONSTANTS
    Ids,       \* ids of groups, numbers in the order of creation
    MaxCalls,  \* bound of the requests under way
    MaxClicks  \* bound of what the user does

IdsAssumption == Ids \subseteq Nat /\ IsFiniteSet(Ids)

VARIABLES
    position, \* of each group in the database; NoPosition once deleted
    shown,    \* groups: the list of the page
    calls,    \* requests under way
    doubt,    \* two requests overlapped or an answer got lost, and no
              \* undisturbed answer has arrived since
    clicks

vars == <<position, shown, calls, doubt, clicks>>

NoPosition == 99
Alive == {g \in Ids : position[g] # NoPosition}

\* GatewayGroups.List
Before(g, h) == position[g] < position[h] \/ (position[g] = position[h] /\ g > h)
Places == 1..Cardinality(Alive)
List == CHOOSE list \in [Places -> Alive] : \A i, j \in Places : i < j => Before(list[i], list[j])

Lists == UNION {[1..n -> Ids] : n \in 0..Cardinality(Ids)}
Call == [op : {"reorder", "delete", "list"}, ids : Lists, prev : Lists, items : Lists,
         served : BOOLEAN, alone : BOOLEAN]

TypeOK ==
    /\ position \in [Ids -> 0..Cardinality(Ids) \cup {NoPosition}]
    /\ shown \in Lists
    /\ calls \subseteq Call
    /\ doubt \in BOOLEAN /\ clicks \in 0..MaxClicks

\* Groups of before the positions were introduced have position 0.
Init ==
    /\ position \in {[g \in Ids |-> 0], [g \in Ids |-> Cardinality({h \in Ids : h < g})]}
    /\ shown = List
    /\ calls = {} /\ doubt = FALSE /\ clicks = 0

Start(op, ids) ==
    /\ clicks < MaxClicks /\ clicks' = clicks + 1
    /\ Cardinality(calls) < MaxCalls
    /\ calls' = {[c EXCEPT !.alone = FALSE] : c \in calls} \cup
                {[op |-> op, ids |-> ids, prev |-> shown, items |-> <<>>,
                  served |-> FALSE, alone |-> calls = {}]}
    /\ doubt' = (doubt \/ calls # {})
    /\ UNCHANGED position

\* moveGroup: take one out and insert it at the place of another.
Moved(from, to) == InsertAt(RemoveAt(shown, from), to, shown[from])

Drag ==
    \E from, to \in DOMAIN shown :
        /\ from # to
        /\ Start("reorder", Moved(from, to))
        /\ shown' = Moved(from, to)

DeleteGroup == \E i \in DOMAIN shown : Start("delete", <<shown[i]>>) /\ UNCHANGED shown
Refresh == Start("list", <<>>) /\ UNCHANGED shown

-----------------------------------------------------------------------------
Serve(c) ==
    /\ c \in calls /\ ~c.served
    /\ position' = CASE c.op = "reorder" ->
                          [g \in Ids |-> IF g \in Alive /\ Contains(c.ids, g)
                                         THEN SelectInSeq(c.ids, LAMBDA x : x = g) - 1
                                         ELSE position[g]]
                     [] c.op = "delete" -> [position EXCEPT ![c.ids[1]] = NoPosition]
                     [] OTHER -> position
    /\ calls' = (calls \ {c}) \cup {[c EXCEPT !.served = TRUE, !.items = List']}
    /\ UNCHANGED <<shown, doubt, clicks>>

Answered(c) ==
    /\ c \in calls /\ c.served
    /\ IF c.op = "delete"
       THEN /\ calls' = (calls \ {c}) \cup
                        {[c EXCEPT !.op = "list", !.served = FALSE, !.items = <<>>]}
            /\ UNCHANGED <<shown, doubt>>
       ELSE /\ shown' = c.items
            /\ doubt' = (doubt /\ ~c.alone)
            /\ calls' = calls \ {c}
    /\ UNCHANGED <<position, clicks>>

\* Variant: the order of the drag stays on the page.
Failed_KeepsDrag(c) ==
    /\ c \in calls
    /\ shown' = shown
    /\ calls' = calls \ {c}
    /\ doubt' = (doubt \/ c.served \/ (c.op = "list" /\ c.ids # <<>>))
    /\ UNCHANGED <<position, clicks>>

\* The request does not reach the server, or its answer does not come back.
\* A deletion whose list did not come back leaves the group on the page.
Failed(c) ==
    /\ c \in calls
    /\ shown' = IF c.op = "reorder" THEN c.prev ELSE shown
    /\ calls' = calls \ {c}
    /\ doubt' = (doubt \/ c.served \/ (c.op = "list" /\ c.ids # <<>>))
    /\ UNCHANGED <<position, clicks>>

Next ==
    \/ Drag \/ DeleteGroup \/ Refresh
    \/ \E c \in calls : Serve(c) \/ Answered(c) \/ Failed(c)

Spec == Init /\ [][Next]_vars

-----------------------------------------------------------------------------
(* Properties *)

\* With nothing under way the page shows the order that the gateway keeps,
\* unless requests overlapped or an answer was lost (then until the next
\* undisturbed answer): a refused drag is taken back, and the positions the
\* server wrote give the order that was dragged.
SettledOrderIsServers == (calls = {} /\ ~doubt) => shown = List

\* A drag does not lose or double a group, whatever overlaps with it.
NoGroupTwice == IsInjective(shown)

-----------------------------------------------------------------------------
\* What carries it from step to step: a request that nothing has overlapped is the only
\* one, and until it is served it knows, or the page shows, what the server has.
IsCall(c) == c \in [op : {c.op}, ids : {c.ids}, prev : {c.prev}, items : {c.items},
                   served : BOOLEAN, alone : BOOLEAN]
Undisturbed(c) ==
    /\ calls = {c}
    /\ c.served /\ c.op # "delete" => c.items = List
    /\ ~doubt /\ ~c.served =>
          CASE c.op = "reorder" -> c.prev = List
            [] c.op = "delete"  -> c.ids # <<>> /\ shown = List
            [] c.op = "list"    -> c.ids = <<>> => shown = List
OrderInv ==
    /\ doubt \in BOOLEAN
    /\ \A c \in calls : IsCall(c) /\ c.op \in {"reorder", "delete", "list"}
    /\ \A c \in calls : (c.op = "delete" => c.ids # <<>>) /\ (c.alone => Undisturbed(c))
    /\ ~doubt => IF calls = {} THEN shown = List ELSE \E c \in calls : c.alone
=============================================================================
