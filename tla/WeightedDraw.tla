---------------------------- MODULE WeightedDraw -----------------------------
(***************************************************************************)
(* One call of SortRoutes (backend/gateway/select.go): the schedulable     *)
(* routes are sorted, then the loop of weightedPermute draws inside every  *)
(* block of equal rates, without replacement, by weight.  One action is    *)
(* one iteration of one of the two loops.  A route is its database id.     *)
(***************************************************************************)
EXTENDS Integers, Sequences, SequencesExt

CONSTANTS
    Routes,      \* ids of the routes of the group
    Rate,        \* effective rate of each route (RateForRoute), in some unit
    Position,    \* stored list position of each route
    Weight,      \* stored weight
    Submitted,   \* the weight the administrator's form had for each route
    Descending   \* the group sorts "desc" instead of "asc"

\* normalizeGatewayRoute: what SaveForGroup stores for a submitted weight.
StoredWeight(w) == IF w <= 0 THEN 1 ELSE w

WeightAssumption ==
    /\ Submitted \in [Routes -> Int]
    /\ Weight = [rt \in Routes |-> StoredWeight(Submitted[rt])]

VARIABLES
    cands,   \* the schedulable routes of the call
    seg,     \* out: the routes in the order reached so far
    start    \* weightedPermute's position; Len(seg) + 1 when SortRoutes returns

vars == <<cands, seg, start>>

\* One rate is preferred to another in the direction of the group.
Better(x, y) == IF Descending THEN x > y ELSE x < y

\* routeRateLess: the rate first, the position second, the id last.
RouteRateLess(a, b) ==
    \/ Better(Rate[a], Rate[b])
    \/ /\ Rate[a] = Rate[b]
       /\ \/ Position[a] < Position[b]
          \/ Position[a] = Position[b] /\ a < b

\* sort.SliceStable over RouteRateLess; ids make the order total.
Sorted(S) == CHOOSE s \in [1..Cardinality(S) -> S] :
    \A i, j \in DOMAIN s : i < j => RouteRateLess(s[i], s[j])

\* The last index of the block of equal rates that index i lies in.
BlockEnd(s, i) == CHOOSE j \in i..Len(s) :
    /\ Rate[s[j]] = Rate[s[i]]
    /\ \A k \in j+1..Len(s) : Rate[s[k]] # Rate[s[i]]

\* What a route contributes to the sum of its block.
Share(rt) == IF Weight[rt] > 0 THEN Weight[rt] ELSE 0

\* acc: the weights of s[i], ..., s[k].
Acc(s, i, k) == FoldLeft(LAMBDA acc, rt : acc + Share(rt), 0, SubSeq(s, i, k))
Total(s, i) == Acc(s, i, BlockEnd(s, i))

\* Variant: the draw is compared with "<=".
Pick_AtMost(s, i, n) == CHOOSE k \in i..BlockEnd(s, i) :
    Share(s[k]) > 0 /\ n <= Acc(s, i, k) /\ \A m \in i..k-1 : Share(s[m]) = 0 \/ n > Acc(s, i, m)

\* The index drawn for n: the first positive weight that takes acc beyond n.
Pick(s, i, n) == CHOOSE k \in i..BlockEnd(s, i) :
    n < Acc(s, i, k) /\ \A m \in i..k-1 : n >= Acc(s, i, m)

Swap(s, i, k) == [s EXCEPT ![i] = s[k], ![k] = s[i]]

Init ==
    /\ cands \in SUBSET Routes
    /\ seg = Sorted(cands)
    /\ start = 1

\* Variant: the drawn route overwrites the one in its place.
DrawOne_Overwrites ==
    /\ start \in 1..Len(seg) - 1
    /\ start < BlockEnd(seg, start) /\ Total(seg, start) > 0
    /\ \E n \in 0..Total(seg, start) - 1 :
          seg' = [seg EXCEPT ![start] = seg[Pick(seg, start, n)]]
    /\ start' = start + 1
    /\ UNCHANGED cands

\* One iteration of weightedPermute.
DrawOne ==
    /\ start \in 1..Len(seg) - 1
    /\ start < BlockEnd(seg, start) /\ Total(seg, start) > 0
    /\ \E n \in 0..Total(seg, start) - 1 :
          seg' = Swap(seg, start, Pick(seg, start, n))
    /\ start' = start + 1
    /\ UNCHANGED cands

\* weightedPermute returns: one route is left in the block, or no weight.
NextBlock ==
    /\ start \in 1..Len(seg)
    /\ start = BlockEnd(seg, start)
    /\ start' = BlockEnd(seg, start) + 1
    /\ UNCHANGED <<cands, seg>>

Next == DrawOne \/ NextBlock

Spec == Init /\ [][Next]_vars

-----------------------------------------------------------------------------
(* Properties *)

\* The variables have their types.
TypeOK == cands \subseteq Routes /\ seg \in Seq(cands) /\ start \in 1..Len(seg) + 1

\* Drawing never trades price: at every step the routes are a permutation of
\* the schedulable ones, in the order of their rates.
RateOrderKept ==
    /\ Len(seg) = Cardinality(cands) /\ ToSet(seg) = cands
    /\ \A i, j \in DOMAIN seg : i < j => ~Better(Rate[seg[j]], Rate[seg[i]])

\* Traffic is split by weight: out of the Total(seg, start) equally likely
\* draws exactly Weight[rt] choose the route rt.
DrawIsProportional ==
    start \in 1..Len(seg) /\ Total(seg, start) > 0 =>
        \A k \in start..BlockEnd(seg, start) :
            Cardinality({n \in 0..Total(seg, start) - 1 : Pick(seg, start, n) = k})
                = Weight[seg[k]]
=============================================================================
