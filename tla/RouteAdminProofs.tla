--------------------------- MODULE RouteAdminProofs ---------------------------
(***************************************************************************)
(* Theorems about the keys of the gateway (KeyQuota), the rows of a group  *)
(* (RouteTable), the statements that save them (RouteSave) and the order   *)
(* in which they are tried (WeightedDraw), for any number of handlers,     *)
(* administrators, forms, rows and routes, any quotas, prices, rates and   *)
(* weights.                                                                *)
(*                                                                         *)
(* In order: types of the keys; induction and sums; the ledger of a key;   *)
(* the overshoot of a quota; rows; saves; draws; the four side by side.    *)
(***************************************************************************)
EXTENDS MCRouteAdmin, Sequences, FiniteSetTheorems, SequenceTheorems, TLAPS

\* The types of what the program reads; LedgerInv adds those of the witness billed.
SlotRow == [pc : {"idle", "serving", "billing"}, cost : Nat]
EditRow == [open : BOOLEAN, reset : BOOLEAN, row : KeyRow]

TypeInv ==
    /\ key \in KeyRow /\ slot \in [Slots -> SlotRow] /\ edit \in [Admins -> EditRow]
    /\ \A s \in Slots : slot[s].cost <= MaxCost
    /\ raised \in 0..MaxRaised
    /\ key.quota \in Quotas /\ \A a \in Admins : edit[a].open => edit[a].row.quota \in Quotas

LEMMA InitTypeInv == Init => TypeInv
<1> SUFFICES ASSUME Init PROVE TypeInv
  OBVIOUS
<1>1. PICK n \in Quotas : key = [live |-> TRUE, active |-> TRUE, quota |-> n, used |-> 0]
  BY DEF Init
<1>2. n \in Nat BY QuotaAssumption
<1>3. key \in KeyRow BY <1>1, <1>2 DEF KeyRow
<1>4. slot \in [Slots -> SlotRow] /\ edit \in [Admins -> EditRow]
  BY <1>3 DEF Init, Idle, NoEdit, SlotRow, EditRow
<1>5. \A s \in Slots : slot[s].cost <= MaxCost BY QuotaAssumption DEF Init, Idle
<1>6. raised \in 0..MaxRaised BY QuotaAssumption DEF Init
<1> QED BY <1>1, <1>3, <1>4, <1>5, <1>6 DEF TypeInv, Init, NoEdit

LEMMA NextTypeInv == TypeInv /\ [Next]_vars => TypeInv'
<1> SUFFICES ASSUME TypeInv, [Next]_vars PROVE TypeInv'
  OBVIOUS
<1> USE DEF TypeInv, SlotRow, EditRow
<1>1. ASSUME NEW s \in Slots, Authenticate(s) PROVE TypeInv'
  BY <1>1 DEF Authenticate
<1>2. ASSUME NEW s \in Slots, RecordUsage(s) PROVE TypeInv'
  <2>1. PICK c \in Costs :
          /\ billed' = billed + c
          /\ slot' = [slot EXCEPT ![s] = IF c = 0 THEN Idle ELSE [pc |-> "billing", cost |-> c]]
    BY <1>2 DEF RecordUsage
  <2>2. c \in Nat /\ c <= MaxCost BY QuotaAssumption
  <2>3. slot' \in [Slots -> SlotRow] BY <2>1, <2>2 DEF Idle
  <2>4. \A t \in Slots : slot'[t].cost <= MaxCost BY <2>1, <2>2, QuotaAssumption DEF Idle
  <2> QED BY <1>2, <2>3, <2>4 DEF RecordUsage
<1>3. ASSUME NEW s \in Slots, AddQuotaUsed(s) PROVE TypeInv'
  <2>1. key.used + slot[s].cost \in Nat BY DEF KeyRow
  <2>2. key' \in KeyRow /\ key'.quota = key.quota BY <1>3, <2>1 DEF AddQuotaUsed, KeyRow
  <2>3. slot' \in [Slots -> SlotRow]
        /\ \A t \in Slots : slot'[t].cost <= MaxCost
    BY <1>3, QuotaAssumption DEF AddQuotaUsed, Idle
  <2> QED BY <1>3, <2>2, <2>3 DEF AddQuotaUsed
<1>4. ASSUME NEW a \in Admins, BeginUpdate(a) PROVE TypeInv'
  <2>1. PICK n \in Quotas, on \in BOOLEAN, reset \in BOOLEAN :
          edit' = [edit EXCEPT ![a] =
                     [open |-> TRUE, reset |-> reset,
                      row |-> [key EXCEPT !.quota = n, !.active = on,
                                          !.used = IF reset THEN 0 ELSE @]]]
    BY <1>4 DEF BeginUpdate
  <2> DEFINE copy == [key EXCEPT !.quota = n, !.active = on, !.used = IF reset THEN 0 ELSE @]
  <2>2. copy \in KeyRow /\ copy.quota = n
    <3>1. n \in Nat BY QuotaAssumption
    <3>2. (IF reset THEN 0 ELSE key.used) \in Nat BY DEF KeyRow
    <3> QED BY <3>1, <3>2 DEF KeyRow
  <2> HIDE DEF copy
  <2>3. edit' = [edit EXCEPT ![a] = [open |-> TRUE, reset |-> reset, row |-> copy]]
    BY <2>1 DEF copy
  <2> QED BY <1>4, <2>2, <2>3 DEF BeginUpdate
<1>5. ASSUME NEW a \in Admins, SaveUpdate(a) PROVE TypeInv'
  <2>1. key' \in KeyRow /\ key'.quota \in Quotas BY <1>5 DEF SaveUpdate
  <2>2. edit' = [edit EXCEPT ![a] = [open |-> FALSE, reset |-> FALSE, row |-> key']]
    BY <1>5 DEF SaveUpdate, NoEdit
  <2>3. edit' \in [Admins -> EditRow] BY <2>1, <2>2
  <2>4. \A b \in Admins : edit'[b].open => edit'[b].row.quota \in Quotas
    BY <2>2
  <2>5. raised' \in 0..MaxRaised BY <1>5, QuotaAssumption DEF SaveUpdate
  <2> QED BY <1>5, <2>1, <2>3, <2>4, <2>5 DEF SaveUpdate
<1>6. CASE DeleteKey BY <1>6 DEF DeleteKey, KeyRow
<1>7. CASE UNCHANGED vars BY <1>7 DEF vars
<1> QED BY <1>1, <1>2, <1>3, <1>4, <1>5, <1>6, <1>7 DEF Next

-----------------------------------------------------------------------------
(* Induction.  Well-foundedness of the naturals, from the library, yields   *)
(* least elements of sets of numbers and minimal elements of sets of sets;  *)
(* the facts below reason about the least counterexample.                   *)

Below == {ss \in Nat \X Nat : ss[1] < ss[2]}

LEMMA BelowIsWellFounded == IsWellFoundedOn(Below, Nat)
BY NatLessThanWellFounded DEF OpToRel, Below

LEMMA LeastNumber ==
    ASSUME NEW T \in SUBSET Nat, T # {}
    PROVE  \E m \in T : \A n \in T : m <= n
<1>1. PICK m \in T : \A n \in T : ~(<<n, m>> \in Below)
  BY BelowIsWellFounded, WFMin
<1>2. ASSUME NEW n \in T, n < m PROVE FALSE
  <2>1. <<n, m>> \in Below BY <1>2 DEF Below
  <2> QED BY <1>1, <2>1
<1> QED BY <1>2

LEMMA MinimalSet ==
    ASSUME NEW S, IsFiniteSet(S), NEW Bad \in SUBSET SUBSET S, Bad # {}
    PROVE  \E t \in Bad : \A x \in t : t \ {x} \notin Bad
<1> DEFINE sizes == {Cardinality(t) : t \in Bad}
<1>1. \A t \in Bad : IsFiniteSet(t) /\ Cardinality(t) \in Nat
  BY FS_Subset, FS_CardinalityType
<1>2. sizes \in SUBSET Nat /\ sizes # {} BY <1>1
<1> HIDE DEF sizes
<1>3. PICK m \in sizes : \A n \in sizes : m <= n BY <1>2, LeastNumber
<1>4. PICK t \in Bad : m = Cardinality(t) BY <1>3 DEF sizes
<1>5. ASSUME NEW x \in t, t \ {x} \in Bad PROVE FALSE
  <2>1. Cardinality(t \ {x}) = Cardinality(t) - 1 BY <1>1, FS_RemoveElement
  <2>2. Cardinality(t \ {x}) \in sizes BY <1>5 DEF sizes
  <2> QED BY <1>1, <1>3, <1>4, <2>1, <2>2
<1> QED BY <1>5

-----------------------------------------------------------------------------
(* Sums over a finite set, in the order in which the library folds it: c    *)
(* names the element of each set that is folded first.                      *)

Chooser(c, S) == \A t \in SUBSET S : t # {} => c[t] \in t

Adds(g, f, c, D) ==
    \A t \in D : g[t] = IF t = {} THEN 0 ELSE f[c[t]] + g[t \ {c[t]}]

\* Up to n elements at a time.
Small(S, n) == {t \in SUBSET S : Cardinality(t) <= n}

IsSum(g, S, f, c) ==
    g = [t \in SUBSET S |-> IF t = {} THEN 0 ELSE f[c[t]] + g[t \ {c[t]}]]

\* The fold is defined: the recursive equation has a solution.
LEMMA SumExists ==
    ASSUME NEW S, IsFiniteSet(S), NEW f \in [S -> Nat], NEW c, Chooser(c, S)
    PROVE  \E g : IsSum(g, S, f, c)
<1> DEFINE Known(n) == \E g : Adds(g, f, c, Small(S, n))
           unknown == {n \in Nat : ~Known(n)}
<1>0. \A t \in SUBSET S : IsFiniteSet(t) /\ Cardinality(t) \in Nat
  BY FS_Subset, FS_CardinalityType
<1>1. unknown = {}
  <2> SUFFICES ASSUME unknown # {} PROVE FALSE
    OBVIOUS
  <2>1. PICK m \in unknown : \A n \in unknown : m <= n
    <3>1. unknown \in SUBSET Nat OBVIOUS
    <3> HIDE DEF unknown
    <3> QED BY <3>1, LeastNumber
  <2>2. CASE m = 0
    <3>1. Small(S, 0) \subseteq {{}}
      BY <1>0, FS_EmptySet DEF Small
    <3>2. Adds([t \in {{}} |-> 0], f, c, Small(S, 0)) BY <3>1 DEF Adds
    <3> QED BY <2>2, <3>2
  <2>3. CASE m # 0
    <3>1. m - 1 \in Nat /\ m - 1 \notin unknown BY <2>1, <2>3
    <3>2. PICK g : Adds(g, f, c, Small(S, m - 1)) BY <3>1
    <3> DEFINE h == [t \in SUBSET S |-> IF t = {} THEN 0 ELSE f[c[t]] + g[t \ {c[t]}]]
    <3>3. \A t \in Small(S, m - 1) : h[t] = g[t] BY <3>2 DEF Adds, Small
    <3>4. ASSUME NEW t \in Small(S, m), t # {} PROVE t \ {c[t]} \in Small(S, m - 1)
      <4>1. c[t] \in t BY <3>4 DEF Chooser, Small
      <4>2. Cardinality(t \ {c[t]}) = Cardinality(t) - 1
        BY <1>0, <4>1, FS_RemoveElement DEF Small
      <4> QED BY <1>0, <2>1, <4>2 DEF Small
    <3>5. Adds(h, f, c, Small(S, m))
      <4> SUFFICES ASSUME NEW t \in Small(S, m)
                   PROVE  h[t] = IF t = {} THEN 0 ELSE f[c[t]] + h[t \ {c[t]}]
        BY DEF Adds
      <4>1. t \in SUBSET S BY DEF Small
      <4>2. h[t] = IF t = {} THEN 0 ELSE f[c[t]] + g[t \ {c[t]}] BY <4>1
      <4> HIDE DEF h
      <4>3. t # {} => h[t \ {c[t]}] = g[t \ {c[t]}] BY <3>3, <3>4
      <4> QED BY <4>2, <4>3
    <3> HIDE DEF h
    <3> QED BY <2>1, <3>5
  <2> QED BY <2>2, <2>3
<1>2. PICK g : Adds(g, f, c, Small(S, Cardinality(S)))
  <2>1. Cardinality(S) \in Nat BY FS_CardinalityType
  <2> QED BY <1>1, <2>1
<1>3. SUBSET S \subseteq Small(S, Cardinality(S)) BY FS_Subset DEF Small
<1> DEFINE h == [t \in SUBSET S |-> g[t]]
<1>4. h = [t \in SUBSET S |-> IF t = {} THEN 0 ELSE f[c[t]] + h[t \ {c[t]}]]
  <2>1. \A t \in SUBSET S : h[t] = IF t = {} THEN 0 ELSE f[c[t]] + h[t \ {c[t]}]
    <3> SUFFICES ASSUME NEW t \in SUBSET S
                 PROVE  h[t] = IF t = {} THEN 0 ELSE f[c[t]] + h[t \ {c[t]}]
      OBVIOUS
    <3>1. g[t] = IF t = {} THEN 0 ELSE f[c[t]] + g[t \ {c[t]}] BY <1>2, <1>3 DEF Adds
    <3>2. t \ {c[t]} \in SUBSET S OBVIOUS
    <3> QED BY <3>1, <3>2
  <2> HIDE DEF h
  <2>2. h = [t \in SUBSET S |-> h[t]] BY DEF h
  <2> QED BY <2>1, <2>2
<1> HIDE DEF h
<1> QED BY <1>4 DEF IsSum

\* Sums of numbers are numbers.
LEMMA SumType ==
    ASSUME NEW S, IsFiniteSet(S), NEW f \in [S -> Nat], NEW c, Chooser(c, S),
           NEW g, Adds(g, f, c, SUBSET S)
    PROVE  \A t \in SUBSET S : g[t] \in Nat
<1> DEFINE bad == {t \in SUBSET S : g[t] \notin Nat}
<1> SUFFICES ASSUME bad # {} PROVE FALSE
  OBVIOUS
<1>1. bad \in SUBSET SUBSET S OBVIOUS
<1> HIDE DEF bad
<1>2. PICK t \in bad : \A x \in t : t \ {x} \notin bad BY <1>1, MinimalSet
<1>3. t \in SUBSET S /\ g[t] \notin Nat BY DEF bad
<1>4. t # {}
  <2>1. g[t] = IF t = {} THEN 0 ELSE f[c[t]] + g[t \ {c[t]}] BY <1>3 DEF Adds
  <2> QED BY <1>3, <2>1
<1>5. c[t] \in t BY <1>3, <1>4 DEF Chooser
<1>6. g[t \ {c[t]}] \in Nat BY <1>2, <1>3, <1>5 DEF bad
<1>7. g[t] = f[c[t]] + g[t \ {c[t]}] BY <1>3, <1>4 DEF Adds
<1> QED BY <1>3, <1>5, <1>6, <1>7

\* One summand changes.
LEMMA SumStep ==
    ASSUME NEW S, IsFiniteSet(S), NEW e \in [S -> Nat], NEW f \in [S -> Nat], NEW s \in S,
           NEW c, Chooser(c, S),
           \A x \in S \ {s} : f[x] = e[x],
           NEW g, Adds(g, e, c, SUBSET S), NEW h, Adds(h, f, c, SUBSET S)
    PROVE  h[S] = g[S] + f[s] - e[s]
<1> DEFINE Moved(t) == IF s \in t THEN f[s] - e[s] ELSE 0
           bad == {t \in SUBSET S : h[t] # g[t] + Moved(t)}
<1>0. \A t \in SUBSET S : g[t] \in Nat /\ h[t] \in Nat BY SumType
<1>1. bad = {}
  <2> SUFFICES ASSUME bad # {} PROVE FALSE
    OBVIOUS
  <2>1. bad \in SUBSET SUBSET S OBVIOUS
  <2> HIDE DEF bad
  <2>2. PICK t \in bad : \A x \in t : t \ {x} \notin bad BY <2>1, MinimalSet
  <2>3. t \in SUBSET S /\ h[t] # g[t] + Moved(t) BY DEF bad
  <2>4. t # {}
    <3>1. /\ g[t] = IF t = {} THEN 0 ELSE e[c[t]] + g[t \ {c[t]}]
          /\ h[t] = IF t = {} THEN 0 ELSE f[c[t]] + h[t \ {c[t]}]
      BY <2>3 DEF Adds
    <3>2. t = {} => g[t] = 0 /\ h[t] = 0 /\ s \notin t BY <3>1
    <3> QED BY <2>3, <3>2
  <2>5. c[t] \in t BY <2>3, <2>4 DEF Chooser
  <2> DEFINE rest == t \ {c[t]}
  <2>6. h[rest] = g[rest] + Moved(rest) BY <2>2, <2>3, <2>5 DEF bad
  <2>7. h[t] = f[c[t]] + h[rest] /\ g[t] = e[c[t]] + g[rest]
    BY <2>3, <2>4 DEF Adds
  <2>8. g[rest] \in Nat /\ h[rest] \in Nat BY <1>0, <2>3
  <2>9. e[c[t]] \in Nat /\ f[c[t]] \in Nat /\ e[s] \in Nat /\ f[s] \in Nat BY <2>3, <2>5
  <2>10. CASE c[t] = s
    <3>1. s \notin rest /\ s \in t BY <2>5, <2>10
    <3> HIDE DEF rest
    <3> QED BY <2>3, <2>6, <2>7, <2>8, <2>9, <2>10, <3>1
  <2>11. CASE c[t] # s
    <3>1. f[c[t]] = e[c[t]] /\ (s \in rest <=> s \in t) BY <2>3, <2>5, <2>11
    <3> HIDE DEF rest
    <3> QED BY <2>3, <2>6, <2>7, <2>8, <2>9, <3>1
  <2> QED BY <2>10, <2>11
<1>2. h[S] = g[S] + Moved(S) BY <1>1
<1> QED BY <1>0, <1>2

\* A sum over 1..n that is folded from the end grows with n by the last summand.
FromEnd(g, f, c, n) ==
    /\ f \in [1..n -> Nat] /\ Adds(g, f, c, SUBSET (1..n))
    /\ Chooser(c, 1..n) /\ \A m \in 1..n : c[1..m] = m

\* It starts at 0, and the m-th summand is what it gains at m.
LEMMA PrefixSum ==
    ASSUME NEW n \in Nat, NEW f, NEW c, NEW g, FromEnd(g, f, c, n)
    PROVE  /\ \A m \in 0..n : g[1..m] \in Nat
           /\ g[1..0] = 0 /\ \A m \in 1..n : g[1..m] = g[1..m - 1] + f[m]
<1>1. IsFiniteSet(1..n) BY FS_Interval
<1> USE DEF FromEnd
<1>2. \A t \in SUBSET (1..n) : g[t] \in Nat BY <1>1, SumType
<1>3. \A m \in 0..n : 1..m \in SUBSET (1..n) OBVIOUS
<1>4. g[1..0] = 0
  <2> DEFINE t == 1..0
  <2>1. t \in SUBSET (1..n) /\ t = {} OBVIOUS
  <2> HIDE DEF t
  <2>2. g[t] = IF t = {} THEN 0 ELSE f[c[t]] + g[t \ {c[t]}] BY <2>1 DEF Adds
  <2>3. g[t] = 0 BY <2>1, <2>2
  <2> QED BY <2>3 DEF t
<1>5. ASSUME NEW m \in 1..n PROVE g[1..m] = g[1..m - 1] + f[m]
  <2> DEFINE t == 1..m
  <2>1. t \in SUBSET (1..n) BY <1>3
  <2>2. m \in t OBVIOUS
  <2>3. t \ {m} = 1..m - 1 OBVIOUS
  <2>4. c[t] = m OBVIOUS
  <2>5. g[1..m - 1] \in Nat /\ f[m] \in Nat
    <3>1. 1..m - 1 \in SUBSET (1..n) OBVIOUS
    <3> QED BY <1>2, <3>1
  <2>6. g[t] = f[m] + g[t \ {m}]
    <3> HIDE DEF t
    <3>1. g[t] = IF t = {} THEN 0 ELSE f[c[t]] + g[t \ {c[t]}] BY <2>1 DEF Adds
    <3> QED BY <2>2, <2>4, <3>1
  <2>7. g[t] = f[m] + g[1..m - 1] BY <2>3, <2>6
  <2> QED BY <2>5, <2>7
<1> QED BY <1>2, <1>3, <1>4, <1>5

\* Two such sums agree as far as their summands do.
LEMMA SamePrefix ==
    ASSUME NEW n \in Nat, NEW f, NEW c, NEW g, FromEnd(g, f, c, n),
           NEW k \in 0..n, NEW e, NEW d, NEW h, FromEnd(h, e, d, k),
           \A m \in 1..k : e[m] = f[m]
    PROVE  h[1..k] = g[1..k]
<1>0. /\ k \in Nat
      /\ g[1..0] = 0 /\ \A m \in 1..n : g[1..m] = g[1..m - 1] + f[m]
      /\ h[1..0] = 0 /\ \A m \in 1..k : h[1..m] = h[1..m - 1] + e[m]
  <2>1. k \in Nat OBVIOUS
  <2>2. g[1..0] = 0 /\ \A m \in 1..n : g[1..m] = g[1..m - 1] + f[m]
    BY PrefixSum
  <2>3. h[1..0] = 0 /\ \A m \in 1..k : h[1..m] = h[1..m - 1] + e[m]
    BY <2>1, PrefixSum
  <2> QED BY <2>1, <2>2, <2>3
<1> DEFINE bad == {m \in 0..k : h[1..m] # g[1..m]}
<1>1. bad = {}
  <2> SUFFICES ASSUME bad # {} PROVE FALSE
    OBVIOUS
  <2>1. bad \in SUBSET Nat OBVIOUS
  <2> HIDE DEF bad
  <2>2. PICK m \in bad : \A j \in bad : m <= j BY <2>1, LeastNumber
  <2>3. m \in 0..k /\ h[1..m] # g[1..m] BY DEF bad
  <2>5. m \in 1..k BY <1>0, <2>3
  <2>6. h[1..m - 1] = g[1..m - 1]
    <3>1. m - 1 \in 0..k /\ m - 1 \notin bad BY <2>2, <2>5
    <3> QED BY <3>1 DEF bad
  <2>7. g[1..m] = g[1..m - 1] + f[m] /\ h[1..m] = h[1..m - 1] + e[m] /\ e[m] = f[m]
    BY <1>0, <2>5
  <2> QED BY <2>3, <2>5, <2>6, <2>7
<1> QED BY <1>1

-----------------------------------------------------------------------------
(* The bills that are in the log and not in the counter *)

SlotSum(sl) == MapThenSumSet(LAMBDA s : sl[s].cost, Slots)
CostOf(sl) == [s \in Slots |-> sl[s].cost]
Firsts == [t \in SUBSET Slots |-> CHOOSE s \in t : TRUE]

LEMMA FirstsChoose == Chooser(Firsts, Slots)
BY DEF Chooser, Firsts

\* The library's fold, unfolded.
LEMMA SlotSumIs ==
    ASSUME NEW sl \in [Slots -> SlotRow]
    PROVE  \E g : Adds(g, CostOf(sl), Firsts, SUBSET Slots) /\ SlotSum(sl) = g[Slots]
<1> DEFINE Body(h) == [t \in SUBSET Slots |->
               IF t = {} THEN 0 ELSE sl[CHOOSE s \in t : TRUE].cost + h[t \ {CHOOSE s \in t : TRUE}]]
           g == CHOOSE h : h = Body(h)
<1>1. SlotSum(sl) = g[Slots] BY DEF SlotSum, MapThenSumSet, MapThenFoldSet
<1>2. CostOf(sl) \in [Slots -> Nat] BY DEF CostOf, SlotRow
<1>3. PICK h : IsSum(h, Slots, CostOf(sl), Firsts) BY <1>2, SumExists, FirstsChoose, QuotaAssumption
<1>4. \A t \in SUBSET Slots : t # {} =>
         /\ Firsts[t] = CHOOSE s \in t : TRUE
         /\ CostOf(sl)[Firsts[t]] = sl[CHOOSE s \in t : TRUE].cost
  BY DEF CostOf, Firsts
<1>5. h = Body(h) BY <1>3, <1>4 DEF IsSum
<1>6. g = Body(g) BY <1>5
<1> HIDE DEF g
<1>7. Adds(g, CostOf(sl), Firsts, SUBSET Slots)
  <2> SUFFICES ASSUME NEW t \in SUBSET Slots
               PROVE  g[t] = IF t = {} THEN 0
                             ELSE CostOf(sl)[Firsts[t]] + g[t \ {Firsts[t]}]
    BY DEF Adds
  <2>1. g[t] = IF t = {} THEN 0
               ELSE sl[CHOOSE s \in t : TRUE].cost + g[t \ {CHOOSE s \in t : TRUE}]
    BY <1>6
  <2> QED BY <1>4, <2>1
<1> QED BY <1>1, <1>7

LEMMA SlotSumType == ASSUME NEW sl \in [Slots -> SlotRow] PROVE SlotSum(sl) \in Nat
<1>1. PICK g : Adds(g, CostOf(sl), Firsts, SUBSET Slots) /\ SlotSum(sl) = g[Slots] BY SlotSumIs
<1>2. CostOf(sl) \in [Slots -> Nat] BY DEF CostOf, SlotRow
<1> QED BY <1>1, <1>2, SumType, FirstsChoose, QuotaAssumption

\* A sum over the requests changes by what one of them has changed.
LEMMA SlotSumStep ==
    ASSUME NEW sl \in [Slots -> SlotRow], NEW s \in Slots, NEW row \in SlotRow
    PROVE  SlotSum([sl EXCEPT ![s] = row]) = SlotSum(sl) + row.cost - sl[s].cost
<1> DEFINE sm == [sl EXCEPT ![s] = row]
<1>1. sm \in [Slots -> SlotRow] OBVIOUS
<1>2. /\ CostOf(sm)[s] = row.cost /\ CostOf(sl)[s] = sl[s].cost
      /\ \A x \in Slots \ {s} : CostOf(sm)[x] = CostOf(sl)[x]
  BY DEF CostOf
<1> HIDE DEF sm
<1>3. PICK g : Adds(g, CostOf(sl), Firsts, SUBSET Slots) /\ SlotSum(sl) = g[Slots] BY SlotSumIs
<1>4. PICK h : Adds(h, CostOf(sm), Firsts, SUBSET Slots) /\ SlotSum(sm) = h[Slots] BY <1>1, SlotSumIs
<1>5. CostOf(sl) \in [Slots -> Nat] /\ CostOf(sm) \in [Slots -> Nat] BY <1>1 DEF CostOf, SlotRow
<1>6. h[Slots] = g[Slots] + CostOf(sm)[s] - CostOf(sl)[s]
  <2>1. IsFiniteSet(Slots) /\ Chooser(Firsts, Slots) BY FirstsChoose, QuotaAssumption
  <2> DEFINE e == CostOf(sl)
             f == CostOf(sm)
  <2>2. e \in [Slots -> Nat] /\ f \in [Slots -> Nat] /\ \A x \in Slots \ {s} : f[x] = e[x] BY <1>2, <1>5
  <2>3. Adds(g, e, Firsts, SUBSET Slots) /\ Adds(h, f, Firsts, SUBSET Slots) BY <1>3, <1>4
  <2> HIDE DEF e, f
  <2>4. h[Slots] = g[Slots] + f[s] - e[s] BY <2>1, <2>2, <2>3, SumStep
  <2> QED BY <2>4 DEF e, f
<1> QED BY <1>2, <1>3, <1>4, <1>6 DEF sm

-----------------------------------------------------------------------------
(* What the log and the counter of a key say *)

\* Only a request that is being billed carries a cost.
LedgerInv ==
    /\ billed \in Nat
    /\ \A s \in Slots : slot[s].pc # "billing" => slot[s].cost = 0

\* Pending is this sum, before and after a step.
LEMMA PendingIs == Pending = SlotSum(slot) /\ Pending' = SlotSum(slot')
BY DEF Pending, SlotSum, MapThenSumSet, MapThenFoldSet

LEMMA InitLedger == Init => LedgerInv
BY DEF Init, LedgerInv, Idle

LEMMA NextLedger == TypeInv /\ LedgerInv /\ [Next]_vars => LedgerInv'
<1> SUFFICES ASSUME TypeInv, LedgerInv, [Next]_vars PROVE LedgerInv'
  OBVIOUS
<1> USE DEF LedgerInv
<1>0. slot \in [Slots -> SlotRow] BY DEF TypeInv
<1>1. ASSUME NEW s \in Slots, Authenticate(s) PROVE LedgerInv'
  BY <1>0, <1>1 DEF Authenticate, SlotRow
<1>2. ASSUME NEW s \in Slots, RecordUsage(s) PROVE LedgerInv'
  <2>1. PICK c \in Costs :
          /\ billed' = billed + c
          /\ slot' = [slot EXCEPT ![s] = IF c = 0 THEN Idle ELSE [pc |-> "billing", cost |-> c]]
    BY <1>2 DEF RecordUsage
  <2>2. c \in Nat BY QuotaAssumption
  <2> QED BY <1>0, <2>1, <2>2 DEF Idle
<1>3. ASSUME NEW s \in Slots, AddQuotaUsed(s) PROVE LedgerInv'
  BY <1>0, <1>3 DEF AddQuotaUsed, Idle
<1>4. ASSUME NEW a \in Admins, BeginUpdate(a) PROVE LedgerInv'
  BY <1>4 DEF BeginUpdate
<1>5. ASSUME NEW a \in Admins, SaveUpdate(a) PROVE LedgerInv'
  <2>1. Pending \in Nat BY <1>0, PendingIs, SlotSumType
  <2> QED BY <1>5, <2>1 DEF SaveUpdate
<1>6. CASE DeleteKey BY <1>6 DEF DeleteKey
<1>7. CASE UNCHANGED vars BY <1>7 DEF vars
<1> QED BY <1>1, <1>2, <1>3, <1>4, <1>5, <1>6, <1>7 DEF Next

LEMMA QuotaInvariant == Spec => [](TypeInv /\ LedgerInv)
<1>1. Init => TypeInv /\ LedgerInv BY InitTypeInv, InitLedger
<1>2. TypeInv /\ LedgerInv /\ [Next]_vars => (TypeInv /\ LedgerInv)' BY NextTypeInv, NextLedger
<1> QED BY <1>1, <1>2, PTL DEF Spec

\* The row of a key, what is billed, the requests and the copies of the forms
\* keep their types, for any number of handlers and administrators.
THEOREM QuotaTypes == Spec => []TypeOK
<1>1. TypeInv /\ LedgerInv => TypeOK BY DEF TypeInv, LedgerInv, TypeOK, SlotRow, EditRow
<1> QED BY <1>1, QuotaInvariant, PTL

\* A bill that enters the log is pending until the increment moves it to the
\* counter, so the three agree in every step but the one in which an edit saves
\* its copy of the row (recordUsage, AddQuotaUsed, UpdateKey).
THEOREM BillsAreLostByEdits == Spec => OnlyEditsLoseBills
<1> DEFINE Drift == key.live /\ Missing' # Missing
           Saved == \E a \in Admins : edit[a].open /\ ~edit'[a].open
<1>1. ASSUME TypeInv, LedgerInv, [Next]_vars, key.live, Missing' # Missing PROVE Saved
  <2> USE <1>1 DEF LedgerInv
  <2>0. /\ slot \in [Slots -> SlotRow] /\ billed \in Nat
        /\ key \in KeyRow /\ key.used \in Nat /\ edit \in [Admins -> EditRow]
    BY DEF TypeInv, KeyRow
  <2>1. SlotSum(slot) \in Nat BY <2>0, SlotSumType
  <2>2. Missing = billed - key.used - SlotSum(slot)
        /\ Missing' = billed' - key'.used - SlotSum(slot')
    BY PendingIs DEF Missing
  <2>3. ASSUME NEW s \in Slots, Authenticate(s) PROVE Saved
    <3> DEFINE row == [pc |-> "serving", cost |-> slot[s].cost]
    <3>1. row \in SlotRow /\ row.cost = slot[s].cost BY <2>0 DEF SlotRow
    <3>a. [slot[s] EXCEPT !.pc = "serving"] = row BY <2>0 DEF SlotRow
    <3>2. slot' = [slot EXCEPT ![s] = row] BY <2>3, <3>a DEF Authenticate
    <3> HIDE DEF row
    <3>3. SlotSum(slot') = SlotSum(slot) + row.cost - slot[s].cost BY <2>0, <3>1, <3>2, SlotSumStep
    <3>4. slot[s].cost \in Nat BY <2>0 DEF SlotRow
    <3>5. SlotSum(slot') = SlotSum(slot) BY <2>1, <3>1, <3>3, <3>4
    <3> QED BY <2>2, <2>3, <3>5 DEF Authenticate
  <2>4. ASSUME NEW s \in Slots, RecordUsage(s) PROVE Saved
    <3>1. PICK c \in Costs :
            /\ billed' = billed + c
            /\ slot' = [slot EXCEPT ![s] = IF c = 0 THEN Idle ELSE [pc |-> "billing", cost |-> c]]
      BY <2>4 DEF RecordUsage
    <3> DEFINE row == IF c = 0 THEN Idle ELSE [pc |-> "billing", cost |-> c]
    <3>2. c \in Nat BY QuotaAssumption
    <3>3. row \in SlotRow /\ row.cost = c BY <3>2 DEF SlotRow, Idle
    <3> HIDE DEF row
    <3>4. SlotSum(slot') = SlotSum(slot) + row.cost - slot[s].cost
      BY <2>0, <3>1, <3>3, SlotSumStep DEF row
    <3>5. slot[s].cost = 0 BY <2>4 DEF RecordUsage
    <3>6. SlotSum(slot') = SlotSum(slot) + c BY <2>1, <3>2, <3>3, <3>4, <3>5
    <3>7. key' = key BY <2>4 DEF RecordUsage
    <3> QED BY <2>0, <2>1, <2>2, <3>1, <3>2, <3>6, <3>7
  <2>5. ASSUME NEW s \in Slots, AddQuotaUsed(s) PROVE Saved
    <3>1. Idle \in SlotRow /\ Idle.cost = 0 BY DEF SlotRow, Idle
    <3>2. SlotSum(slot') = SlotSum(slot) + Idle.cost - slot[s].cost
      BY <2>0, <2>5, <3>1, SlotSumStep DEF AddQuotaUsed
    <3>3. key'.used = key.used + slot[s].cost /\ billed' = billed
      BY <2>0, <2>5 DEF AddQuotaUsed, KeyRow
    <3>4. slot[s].cost \in Nat BY <2>0 DEF SlotRow
    <3> QED BY <2>0, <2>1, <2>2, <3>1, <3>2, <3>3, <3>4
  <2>6. ASSUME NEW a \in Admins, BeginUpdate(a) PROVE Saved
    BY <2>2, <2>6 DEF BeginUpdate
  <2>7. ASSUME NEW a \in Admins, SaveUpdate(a) PROVE Saved
    BY <2>0, <2>7 DEF SaveUpdate, NoEdit
  <2>8. CASE DeleteKey
    BY <2>0, <2>2, <2>8 DEF DeleteKey, KeyRow
  <2>9. CASE UNCHANGED vars BY <2>2, <2>9 DEF vars
  <2> QED BY <2>3, <2>4, <2>5, <2>6, <2>7, <2>8, <2>9 DEF Next
<1>2. TypeInv /\ LedgerInv /\ [Next]_vars => [Drift => Saved]_vars BY <1>1
<1> QED BY <1>2, QuotaInvariant, PTL DEF Spec, OnlyEditsLoseBills

-----------------------------------------------------------------------------
(* The overshoot of a quota *)

\* Every request in flight may still add its bill to what is used, so the bound
\* charges it in advance: an Authenticate that passes the check leaves room for
\* the bills of all slots, and each bill then moves from the second summand to
\* the first.  A saved copy that raises quota_used holds what was within the bound
\* when it was read, and the requests in flight were admitted by a lower counter:
\* their bills are the room that the raise adds to the bound.
InFlight == {s \in Slots : slot[s].pc # "idle"}
AllBills == Cardinality(Slots) * MaxCost
Bound == (MaxQuota - 1) + (raised + 1) * AllBills

OvershootInv ==
    /\ key.used + MaxCost * Cardinality(InFlight) <= Bound
    /\ \A a \in Admins : edit[a].open => edit[a].row.used <= Bound

LEMMA InFlightFinite ==
    /\ IsFiniteSet(InFlight) /\ Cardinality(InFlight) \in Nat
    /\ Cardinality(InFlight) <= Cardinality(Slots) /\ Cardinality(Slots) \in Nat
BY QuotaAssumption, FS_Subset, FS_CardinalityType DEF InFlight

\* Products are monotone in the number of requests.
LEMMA MoreBills ==
    ASSUME NEW m \in Nat, NEW n \in Nat, NEW c \in Nat, m <= n
    PROVE  c * m <= c * n /\ c * m \in Nat /\ c * n = n * c
<1>1. PICK d \in Nat : n = m + d
  <2>1. n - m \in Nat /\ n = m + (n - m) OBVIOUS
  <2> QED BY <2>1
<1>2. c * n = c * m + c * d BY <1>1
<1>3. c * d \in Nat /\ c * m \in Nat OBVIOUS
<1> QED BY <1>2, <1>3

\* The bills of the requests in flight are among those of all slots.
LEMMA DueBills ==
    /\ AllBills \in Nat
    /\ MaxCost * Cardinality(InFlight) \in Nat /\ MaxCost * Cardinality(InFlight) <= AllBills
<1>1. MaxCost * Cardinality(InFlight) <= MaxCost * Cardinality(Slots)
      /\ MaxCost * Cardinality(InFlight) \in Nat /\ MaxCost * Cardinality(Slots) = Cardinality(Slots) * MaxCost
  BY InFlightFinite, QuotaAssumption, MoreBills
<1>2. Cardinality(Slots) * MaxCost \in Nat BY InFlightFinite, QuotaAssumption
<1> QED BY <1>1, <1>2 DEF AllBills

\* The bound is no less than with no raise, and a raise adds the bills of all slots.
LEMMA BoundGrows ==
    ASSUME NEW n \in Nat
    PROVE  /\ (n + 1) * AllBills \in Nat /\ (n + 1) * AllBills >= AllBills
           /\ (n + 2) * AllBills = (n + 1) * AllBills + AllBills
<1>1. PICK all : all = AllBills
  OBVIOUS
<1>2. all \in Nat BY <1>1, DueBills
<1>3. n * all \in Nat /\ (n + 1) * all = n * all + all /\ (n + 2) * all = n * all + all + all
  BY <1>2
<1> QED BY <1>1, <1>2, <1>3

LEMMA BoundIs ==
    ASSUME TypeInv
    PROVE  /\ Bound \in Int /\ raised \in Nat /\ key.used \in Nat
           /\ Bound >= (MaxQuota - 1) + AllBills /\ AllBills \in Nat
<1>1. raised \in Nat /\ key.used \in Nat BY QuotaAssumption DEF TypeInv, KeyRow
<1>2. (raised + 1) * AllBills \in Nat /\ (raised + 1) * AllBills >= AllBills /\ AllBills \in Nat
  BY <1>1, BoundGrows, DueBills
<1> QED BY <1>1, <1>2, QuotaAssumption DEF Bound

LEMMA InitOvershoot ==
    ASSUME 0 \notin Quotas PROVE Init => OvershootInv
<1> SUFFICES ASSUME Init PROVE OvershootInv
  OBVIOUS
<1>1. InFlight = {} BY DEF Init, InFlight, Idle
<1>2. Cardinality(InFlight) = 0 BY <1>1, FS_EmptySet
<1>3. MaxQuota \in Nat \ {0}
  <2>1. PICK n \in Quotas : TRUE BY QuotaAssumption
  <2>2. n \in 0..MaxQuota /\ n # 0 BY <2>1, QuotaAssumption
  <2> QED BY <2>2, QuotaAssumption
<1>4. key.used = 0 BY DEF Init
<1>5. MaxCost * Cardinality(InFlight) = 0 BY <1>2, QuotaAssumption
<1>6. 0 <= Bound BY <1>3, BoundIs, InitTypeInv
<1>7. \A a \in Admins : ~edit[a].open BY DEF Init, NoEdit
<1> QED BY <1>4, <1>5, <1>6, <1>7 DEF OvershootInv

\* Every step leaves the bound as it is, but one that raises.
LEMMA BoundKept == raised' = raised => Bound' = Bound
BY DEF Bound, AllBills

LEMMA AuthenticateOvershoot ==
    ASSUME TypeInv, OvershootInv, 0 \notin Quotas, NEW s \in Slots, Authenticate(s)
    PROVE  OvershootInv'
<1>1. key' = key /\ edit' = edit /\ Bound' = Bound BY BoundKept DEF Authenticate
<1>2. key.used <= MaxQuota - 1 /\ key.used \in Nat
  <2>1. key.used \in Nat /\ key.quota \in Nat /\ key.quota # 0 /\ key.quota <= MaxQuota
    BY QuotaAssumption DEF TypeInv, KeyRow
  <2>2. ~(key.used >= key.quota) BY <2>1 DEF Authenticate
  <2> QED BY <2>1, <2>2, QuotaAssumption
<1>3. InFlight' \subseteq Slots BY DEF InFlight
<1>4. Cardinality(InFlight') <= Cardinality(Slots) /\ Cardinality(InFlight') \in Nat
      /\ Cardinality(Slots) \in Nat
  BY <1>3, QuotaAssumption, FS_Subset, FS_CardinalityType
<1> DEFINE due == MaxCost * Cardinality(InFlight')
<1>5. due <= AllBills /\ due \in Nat
  BY <1>4, QuotaAssumption, MoreBills DEF AllBills
<1> HIDE DEF due
<1>6. key.used + due <= Bound BY <1>2, <1>5, BoundIs, QuotaAssumption
<1>7. \A a \in Admins : edit'[a].open => edit'[a].row.used <= Bound'
  BY <1>1 DEF OvershootInv
<1> QED BY <1>1, <1>6, <1>7 DEF OvershootInv, due

\* Steps that neither bill nor admit a request, nor raise what is used.
LEMMA LessOvershoot ==
    ASSUME TypeInv, OvershootInv, InFlight' \subseteq InFlight, raised' = raised,
           key'.used \in Nat, key'.used <= key.used,
           \A a \in Admins : edit'[a].open => edit'[a].row.used <= Bound
    PROVE  OvershootInv'
<1>1. Cardinality(InFlight') <= Cardinality(InFlight) /\ Cardinality(InFlight') \in Nat
      /\ Cardinality(InFlight) \in Nat
  BY InFlightFinite, FS_Subset, FS_CardinalityType
<1> DEFINE due == MaxCost * Cardinality(InFlight')
           was == MaxCost * Cardinality(InFlight)
<1>2. due <= was /\ due \in Nat /\ was \in Nat
  BY <1>1, QuotaAssumption, MoreBills
<1>3. key.used + was <= Bound BY DEF OvershootInv
<1> HIDE DEF due, was
<1>4. key'.used + due <= Bound BY <1>2, <1>3, BoundIs
<1> QED BY <1>4, BoundKept DEF OvershootInv, due

\* An old copy within the bound, and requests in flight under the room of the raise.
LEMMA RaiseOvershoot ==
    ASSUME TypeInv, OvershootInv, NEW a \in Admins, SaveUpdate(a), edit[a].row.used > key.used
    PROVE  OvershootInv'
<1>1. InFlight' = InFlight /\ raised' = raised + 1 /\ key' = edit[a].row /\ edit[a].open
  BY DEF SaveUpdate, InFlight
<1>2. Bound' = Bound + AllBills
  <2>1. (raised + 2) * AllBills = (raised + 1) * AllBills + AllBills
        /\ (raised + 1) * AllBills \in Nat
    BY BoundIs, BoundGrows
  <2>2. raised' + 1 = raised + 2 BY <1>1, BoundIs
  <2>3. Bound' = (MaxQuota - 1) + (raised' + 1) * AllBills BY DEF Bound, AllBills
  <2> QED BY <2>1, <2>2, <2>3, BoundIs, QuotaAssumption DEF Bound
<1>3. key'.used <= Bound /\ key'.used \in Nat BY <1>1 DEF OvershootInv, TypeInv, EditRow, KeyRow
<1> DEFINE due == MaxCost * Cardinality(InFlight)
<1>4. due <= AllBills /\ due \in Nat BY DueBills
<1> HIDE DEF due
<1>5. key'.used + due <= Bound' BY <1>2, <1>3, <1>4, BoundIs
<1>6. \A b \in Admins : edit'[b].open => edit'[b].row.used <= Bound'
  <2>1. ASSUME NEW b \in Admins, edit'[b].open PROVE edit[b].open /\ edit'[b] = edit[b]
    BY <2>1 DEF SaveUpdate, NoEdit, TypeInv
  <2>2. ASSUME NEW b \in Admins, edit[b].open PROVE edit[b].row.used <= Bound /\ edit[b].row.used \in Nat
    BY <2>2 DEF OvershootInv, TypeInv, EditRow, KeyRow
  <2> QED BY <1>2, <2>1, <2>2, BoundIs
<1> QED BY <1>1, <1>5, <1>6 DEF OvershootInv, due

LEMMA AddQuotaUsedOvershoot ==
    ASSUME TypeInv, OvershootInv, NEW s \in Slots, AddQuotaUsed(s)
    PROVE  OvershootInv'
<1>1. key'.used \in Nat /\ key'.used <= key.used + MaxCost /\ key.used \in Nat
  <2>1. slot[s].cost \in Nat /\ slot[s].cost <= MaxCost BY DEF TypeInv, SlotRow
  <2>2. key.used \in Nat BY DEF TypeInv, KeyRow
  <2>3. key'.used \in {key.used, key.used + slot[s].cost}
    BY DEF AddQuotaUsed, TypeInv, KeyRow
  <2> QED BY <2>1, <2>2, <2>3, QuotaAssumption
<1>2. s \in InFlight BY DEF AddQuotaUsed, InFlight
<1>3. InFlight' = InFlight \ {s} BY DEF AddQuotaUsed, InFlight, TypeInv, Idle
<1>4. Cardinality(InFlight') = Cardinality(InFlight) - 1 /\ Cardinality(InFlight) \in Nat
      /\ Cardinality(InFlight') \in Nat
  BY <1>2, <1>3, InFlightFinite, FS_RemoveElement, FS_CardinalityType
<1> DEFINE due == MaxCost * Cardinality(InFlight')
           was == MaxCost * Cardinality(InFlight)
<1>5. was = due + MaxCost /\ due \in Nat
  <2>1. \A n \in Nat : MaxCost * (n + 1) = MaxCost * n + MaxCost /\ MaxCost * n \in Nat
    BY QuotaAssumption
  <2>2. Cardinality(InFlight) = Cardinality(InFlight') + 1 BY <1>4
  <2> QED BY <1>4, <2>1, <2>2
<1>6. key.used + was <= Bound BY DEF OvershootInv
<1> HIDE DEF due, was
<1>7. key'.used + due <= Bound BY <1>1, <1>5, <1>6, BoundIs, QuotaAssumption
<1>8. edit' = edit /\ Bound' = Bound BY BoundKept DEF AddQuotaUsed
<1> QED BY <1>7, <1>8 DEF OvershootInv, due

LEMMA NextOvershoot ==
    ASSUME 0 \notin Quotas, TypeInv, OvershootInv, [Next]_vars
    PROVE  OvershootInv'
<1>0. key.used \in Nat BY DEF TypeInv, KeyRow
<1>1. ASSUME NEW s \in Slots, Authenticate(s) PROVE OvershootInv'
  BY <1>1, AuthenticateOvershoot
<1>2. ASSUME NEW s \in Slots, RecordUsage(s) PROVE OvershootInv'
  <2>1. InFlight' \subseteq InFlight BY <1>2 DEF RecordUsage, InFlight, TypeInv, Idle
  <2>2. key' = key /\ edit' = edit /\ raised' = raised BY <1>2 DEF RecordUsage
  <2>3. \A a \in Admins : edit'[a].open => edit'[a].row.used <= Bound
    BY <2>2 DEF OvershootInv
  <2> QED BY <1>0, <2>1, <2>2, <2>3, LessOvershoot
<1>3. ASSUME NEW s \in Slots, AddQuotaUsed(s) PROVE OvershootInv'
  BY <1>3, AddQuotaUsedOvershoot
<1>4. ASSUME NEW a \in Admins, BeginUpdate(a) PROVE OvershootInv'
  <2>1. InFlight' = InFlight /\ key' = key /\ raised' = raised BY <1>4 DEF BeginUpdate, InFlight
  <2>2. edit'[a].row.used <= Bound
    <3>1. edit'[a].row.used \in {0, key.used} BY <1>4 DEF BeginUpdate, TypeInv, KeyRow
    <3>2. key.used <= Bound
      <4> DEFINE due == MaxCost * Cardinality(InFlight)
      <4>1. due \in Nat BY DueBills
      <4>2. key.used + due <= Bound BY DEF OvershootInv
      <4> HIDE DEF due
      <4> QED BY <4>1, <4>2, BoundIs
    <3> QED BY <1>0, <3>1, <3>2, BoundIs
  <2>3. \A b \in Admins : edit'[b].open => edit'[b].row.used <= Bound
    BY <1>4, <2>2 DEF BeginUpdate, OvershootInv, TypeInv
  <2> QED BY <1>0, <2>1, <2>3, LessOvershoot
<1>5. ASSUME NEW a \in Admins, SaveUpdate(a) PROVE OvershootInv'
  <2>1. CASE edit[a].row.used > key.used
    BY <1>5, <2>1, RaiseOvershoot
  <2>2. CASE ~(edit[a].row.used > key.used)
    <3>1. InFlight' = InFlight /\ raised' = raised BY <1>5, <2>2 DEF SaveUpdate, InFlight
    <3>2. key'.used <= key.used /\ key'.used \in Nat
      BY <1>5, <2>2 DEF SaveUpdate, TypeInv, EditRow, KeyRow
    <3>3. \A b \in Admins : edit'[b].open => edit'[b].row.used <= Bound
      BY <1>5 DEF SaveUpdate, NoEdit, TypeInv, OvershootInv
    <3> QED BY <3>1, <3>2, <3>3, LessOvershoot
  <2> QED BY <2>1, <2>2
<1>6. CASE DeleteKey
  <2>1. InFlight' = InFlight /\ edit' = edit /\ key'.used = key.used /\ raised' = raised
    BY <1>6 DEF DeleteKey, InFlight, TypeInv, KeyRow
  <2>2. \A a \in Admins : edit'[a].open => edit'[a].row.used <= Bound
    BY <2>1 DEF OvershootInv
  <2> QED BY <1>0, <2>1, <2>2, LessOvershoot
<1>7. CASE UNCHANGED vars
  BY <1>7 DEF vars, OvershootInv, InFlight, Bound, AllBills
<1> QED BY <1>1, <1>2, <1>3, <1>4, <1>5, <1>6, <1>7 DEF Next

\* Concurrent requests that pass the quota check together overshoot a limited key by at
\* most one bill each, and by as much again for every edit whose old copy puts the counter
\* back up, for any number of requests and administrators (Authenticate, AddQuotaUsed,
\* UpdateKey).
THEOREM OvershootBounded == Spec => []QuotaOvershootBounded
<1>1. CASE 0 \in Quotas
  <2>1. QuotaOvershootBounded BY <1>1 DEF QuotaOvershootBounded
  <2> QED BY <2>1, PTL
<1>2. CASE 0 \notin Quotas
  <2>1. Init => TypeInv /\ OvershootInv BY <1>2, InitTypeInv, InitOvershoot
  <2>2. TypeInv /\ OvershootInv /\ [Next]_vars => (TypeInv /\ OvershootInv)'
    BY <1>2, NextTypeInv, NextOvershoot
  <2>3. TypeInv /\ OvershootInv => QuotaOvershootBounded
    <3> SUFFICES ASSUME TypeInv, OvershootInv PROVE key.used <= Bound
      BY DEF QuotaOvershootBounded, Bound, AllBills
    <3> DEFINE due == MaxCost * Cardinality(InFlight)
    <3>1. due \in Nat BY DueBills
    <3>2. key.used + due <= Bound BY DEF OvershootInv
    <3> HIDE DEF due
    <3> QED BY <3>1, <3>2, BoundIs
  <2> QED BY <2>1, <2>2, <2>3, PTL DEF Spec
<1> QED BY <1>1, <1>2

\* Where one administrator edits a key at a time no edit puts the counter back up: the key
\* has only been billed since its row was read.  With this the bound above is one bill for
\* each request (UpdateKey).
THEOREM OneEditorNeverRaises ==
    ASSUME \A a, b \in Admins : a = b
    PROVE  Spec => [](raised = 0)
<1> DEFINE Fresh == raised = 0 /\ \A a \in Admins : edit[a].open => edit[a].row.used <= key.used
<1>1. ASSUME Init PROVE TypeInv /\ Fresh
  <2>1. \A a \in Admins : ~edit[a].open BY <1>1 DEF Init, NoEdit
  <2>2. raised = 0 BY <1>1 DEF Init
  <2> QED BY <1>1, <2>1, <2>2, InitTypeInv
<1>2. ASSUME TypeInv, Fresh, [Next]_vars PROVE Fresh'
  <2>0. key.used \in Nat BY <1>2 DEF TypeInv, KeyRow
  <2>1. ASSUME NEW s \in Slots, Authenticate(s) \/ RecordUsage(s) PROVE Fresh'
    BY <1>2, <2>1 DEF Authenticate, RecordUsage
  <2>2. ASSUME NEW s \in Slots, AddQuotaUsed(s) PROVE Fresh'
    <3>1. slot[s].cost \in Nat BY <1>2 DEF TypeInv, SlotRow
    <3>2. key'.used >= key.used /\ key'.used \in Nat
      BY <1>2, <2>0, <2>2, <3>1 DEF AddQuotaUsed, TypeInv, KeyRow
    <3>3. edit' = edit /\ raised' = raised BY <2>2 DEF AddQuotaUsed
    <3>4. \A a \in Admins : edit[a].open => edit[a].row.used \in Nat
      BY <1>2 DEF TypeInv, EditRow, KeyRow
    <3> QED BY <1>2, <2>0, <3>2, <3>3, <3>4
  <2>3. ASSUME NEW a \in Admins, BeginUpdate(a) PROVE Fresh'
    <3>1. key' = key /\ raised' = raised BY <2>3 DEF BeginUpdate
    <3>2. edit'[a].row.used \in {0, key.used} BY <1>2, <2>3 DEF BeginUpdate, TypeInv, KeyRow
    <3> QED BY <1>2, <2>0, <3>1, <3>2
  <2>4. ASSUME NEW a \in Admins, SaveUpdate(a) PROVE Fresh'
    <3>1. \A b \in Admins : ~edit'[b].open BY <1>2, <2>4 DEF SaveUpdate, NoEdit, TypeInv
    <3>2. edit[a].row.used <= key.used /\ edit[a].row.used \in Nat
      BY <1>2, <2>4 DEF SaveUpdate, TypeInv, EditRow, KeyRow
    <3>3. raised' = raised BY <2>0, <2>4, <3>2 DEF SaveUpdate
    <3> QED BY <1>2, <3>1, <3>3
  <2>5. CASE DeleteKey
    <3>1. edit' = edit /\ key'.used = key.used /\ raised' = raised
      BY <1>2, <2>5 DEF DeleteKey, TypeInv, KeyRow
    <3> QED BY <1>2, <3>1
  <2>6. CASE UNCHANGED vars BY <1>2, <2>6 DEF vars
  <2> QED BY <1>2, <2>1, <2>2, <2>3, <2>4, <2>5, <2>6 DEF Next
<1>3. TypeInv /\ [Next]_vars => TypeInv' BY NextTypeInv
<1> QED BY <1>1, <1>2, <1>3, PTL DEF Spec

-----------------------------------------------------------------------------
(* The rows of a group, which keep their keys and pauses.  That an id is    *)
(* never given out twice (ids below nextId) is what tells a row that a save *)
(* has found from one it has added; that lists are finite lets it count the *)
(* new ones.                                                                *)

\* The instance counts and numbers as the library does.
LEMMA TableCounts == ASSUME NEW S PROVE Table!Cardinality(S) = Cardinality(S)
BY DEF Table!Cardinality, Cardinality

LEMMA TableNumbers == ASSUME NEW S, NEW T PROVE Table!Bijection(S, T) = Bijection(S, T)
BY DEF Table!Bijection, Table!Injection, Table!Surjection, Table!IsInjective,
       Bijection, Injection, Surjection, IsInjective

Job == [pc : {"idle", "form", "save"}, items : SUBSET Table!Item]

TableInv ==
    /\ rows \in [Table!Ids -> Table!Row] /\ Table!Ids \subseteq 1..MaxId
    /\ nextId \in 1..MaxId + 1 /\ \A id \in Table!Ids : id < nextId
    /\ exists \in BOOLEAN
    /\ job \in [Table!Writers -> Job] /\ \A w \in Table!Writers : IsFiniteSet(job[w].items)
    /\ ensure \in [Ensurers -> [id : 0..MaxId, src : Sources \cup {Table!NoKey}]]

-----------------------------------------------------------------------------
(* Lists *)

LEMMA IdsFinite == ASSUME Table!TableAssumption, TableInv PROVE IsFiniteSet(Table!Ids)
<1>1. IsFiniteSet(1..MaxId) BY FS_Interval DEF Table!TableAssumption
<1> QED BY <1>1, FS_Subset DEF TableInv

LEMMA ListedTypes ==
    ASSUME Table!TableAssumption, TableInv
    PROVE  Table!Listed \in SUBSET Table!Item /\ IsFiniteSet(Table!Listed)
<1> DEFINE item == [id \in Table!Ids |-> [id |-> id, src |-> rows[id].src]]
<1>1. \A id \in Table!Ids : item[id] \in Table!Item
  BY DEF TableInv, Table!Row, Table!Item, Table!TableAssumption
<1>2. Table!Listed = {item[id] : id \in Table!Ids} BY DEF Table!Listed
<1> HIDE DEF item
<1>3. item \in Surjection(Table!Ids, Table!Listed) BY <1>2 DEF item, Surjection
<1> QED BY <1>1, <1>2, <1>3, IdsFinite, FS_Surjection

LEMMA EditedTypes ==
    ASSUME NEW items \in SUBSET Table!Item, IsFiniteSet(items), NEW e \in Table!Edited(items)
    PROVE  e \in SUBSET Table!Item /\ IsFiniteSet(e)
<1>1. CASE e = items BY <1>1
<1>2. ASSUME NEW it \in items, NEW s \in Sources,
             e = (items \ {it}) \cup {[it EXCEPT !.src = s]}
      PROVE  e \in SUBSET Table!Item /\ IsFiniteSet(e)
  <2>1. [it EXCEPT !.src = s] \in Table!Item BY DEF Table!Item
  <2> QED BY <1>2, <2>1, FS_AddElement, FS_RemoveElement
<1>3. ASSUME NEW it \in items, e = items \ {it} PROVE e \in SUBSET Table!Item /\ IsFiniteSet(e)
  BY <1>3, FS_RemoveElement
<1>4. ASSUME NEW s \in Sources, e = items \cup {[id |-> 0, src |-> s]}
      PROVE  e \in SUBSET Table!Item /\ IsFiniteSet(e)
  <2>1. [id |-> 0, src |-> s] \in Table!Item BY DEF Table!Item
  <2> QED BY <1>4, <2>1, FS_AddElement
<1> QED BY <1>1, <1>2, <1>3, <1>4 DEF Table!Edited

\* What counts the items a save adds.
LEMMA NewCounted ==
    ASSUME TableInv, NEW w \in Table!Writers PROVE Cardinality(Table!New(job[w].items)) \in Nat
<1>1. Table!New(job[w].items) \subseteq job[w].items BY DEF Table!New
<1> QED BY <1>1, FS_Subset, FS_CardinalityType DEF TableInv

-----------------------------------------------------------------------------
(* A save *)

\* What SaveForGroup makes of the rows, item by item: new items become blank rows with new
\* ids, the other rows of the list stay, or become blank if they have moved.
LEMMA SaveShape ==
    ASSUME Table!TableAssumption, TableInv, NEW w \in Table!Writers, Table!SaveForGroup(w)
    PROVE  \A id \in DOMAIN rows' :
              \E it \in job[w].items :
                 \/ id \in nextId .. nextId' - 1 /\ it.id \notin Table!Ids /\ rows'[id] = Table!Blank(it)
                 \/ id \in Table!Ids /\ it.id = id /\ rows'[id] = Table!SavedRow(it)
<1> DEFINE items == job[w].items
           fresh == nextId .. nextId + Cardinality(Table!New(items)) - 1
           given == nextId .. nextId + Table!Cardinality(Table!New(items)) - 1
           Lists(ids, number) ==
              rows' = [id \in ids \cup {it.id : it \in items \ Table!New(items)} |->
                         Table!SavedRow(IF id \in ids THEN number[id]
                                        ELSE CHOOSE it \in items : it.id = id)]
<1>1. PICK number \in Bijection(fresh, Table!New(items)) : Lists(fresh, number)
  <2>1. \E number \in Table!Bijection(given, Table!New(items)) : Lists(given, number)
    BY DEF Table!SaveForGroup
  <2>2. given = fresh BY TableCounts
  <2>3. Table!Bijection(fresh, Table!New(items)) = Bijection(fresh, Table!New(items))
    BY TableNumbers
  <2> HIDE DEF given, fresh, Lists
  <2> QED BY <2>1, <2>2, <2>3
<1>2. number \in [fresh -> Table!New(items)] BY DEF Bijection, Injection
<1>3. fresh = nextId .. nextId' - 1
  <2> DEFINE n == Cardinality(Table!New(items))
  <2>1. n \in Nat /\ nextId \in Nat /\ nextId' = nextId + n
    <3>1. nextId' = nextId + n BY TableCounts DEF Table!SaveForGroup
    <3> QED BY <3>1, NewCounted DEF TableInv, Table!TableAssumption
  <2>2. fresh = nextId .. nextId + n - 1 OBVIOUS
  <2> HIDE DEF n, fresh
  <2>3. nextId + n - 1 = nextId' - 1 BY <2>1
  <2> QED BY <2>2, <2>3
<1>4. Table!New(items) = {it \in items : it.id \notin Table!Ids} BY DEF Table!New
<1> SUFFICES ASSUME NEW id \in DOMAIN rows'
             PROVE  \E it \in items :
                 \/ id \in nextId .. nextId' - 1 /\ it.id \notin Table!Ids /\ rows'[id] = Table!Blank(it)
                 \/ id \in Table!Ids /\ it.id = id /\ rows'[id] = Table!SavedRow(it)
  OBVIOUS
<1>5. CASE id \in fresh
  <2>1. number[id] \in items /\ number[id].id \notin Table!Ids BY <1>2, <1>4, <1>5
  <2>2. rows'[id] = Table!SavedRow(number[id]) BY <1>1, <1>5
  <2>3. rows'[id] = Table!Blank(number[id]) BY <2>1, <2>2 DEF Table!SavedRow, Table!SameSource
  <2>4. id \in nextId .. nextId' - 1 BY <1>3, <1>5
  <2> QED BY <2>1, <2>3, <2>4
<1>6. CASE id \notin fresh
  <2> DEFINE old == CHOOSE it \in items : it.id = id
  <2>1. PICK it \in items : it.id = id /\ it.id \in Table!Ids BY <1>1, <1>4, <1>6
  <2>2. old \in items /\ old.id = id BY <2>1
  <2>3. rows'[id] = Table!SavedRow(old) BY <1>1, <1>6
  <2> HIDE DEF old
  <2> QED BY <2>1, <2>2, <2>3
<1> QED BY <1>5, <1>6

\* A save keeps the types; all ids it has given out are below the counter.
LEMMA SaveStep ==
    ASSUME Table!TableAssumption, TableInv, NEW w \in Table!Writers, Table!SaveForGroup(w)
    PROVE  TableInv'
<1> DEFINE items == job[w].items
<1>1. /\ items \in SUBSET Table!Item /\ UNCHANGED <<exists, ensure>>
      /\ job' = [job EXCEPT ![w] = [pc |-> "idle", items |-> {}]]
      /\ nextId' = nextId + Cardinality(Table!New(items)) /\ nextId' <= MaxId + 1
  BY TableCounts DEF Table!SaveForGroup, TableInv, Job
<1>2. nextId \in 1..MaxId + 1 /\ nextId' \in 1..MaxId + 1 /\ nextId <= nextId'
  BY <1>1, NewCounted DEF TableInv, Table!TableAssumption
<1>3. ASSUME NEW id \in DOMAIN rows'
      PROVE  id \in 1..MaxId /\ id < nextId' /\ rows'[id] \in Table!Row
  <2>1. PICK it \in items :
          \/ id \in nextId .. nextId' - 1 /\ it.id \notin Table!Ids /\ rows'[id] = Table!Blank(it)
          \/ id \in Table!Ids /\ it.id = id /\ rows'[id] = Table!SavedRow(it)
    BY SaveShape
  <2>2. Table!Blank(it) \in Table!Row BY <1>1 DEF Table!Blank, Table!Item, Table!Row
  <2>3. it.id \in Table!Ids => Table!SavedRow(it) \in Table!Row
    BY <2>2 DEF Table!SavedRow, Table!SameSource, TableInv
  <2>4. CASE id \in nextId .. nextId' - 1 /\ rows'[id] = Table!Blank(it)
    BY <1>2, <2>2, <2>4 DEF Table!TableAssumption
  <2>5. CASE id \in Table!Ids /\ it.id = id /\ rows'[id] = Table!SavedRow(it)
    <3>1. id \in 1..MaxId /\ id < nextId BY <2>5 DEF TableInv
    <3> QED BY <1>2, <2>3, <2>5, <3>1 DEF Table!TableAssumption
  <2> QED BY <2>1, <2>4, <2>5
<1>4. rows' = [id \in DOMAIN rows' |-> rows'[id]] BY DEF Table!SaveForGroup
<1>5. rows' \in [Table!Ids' -> Table!Row] /\ Table!Ids' \subseteq 1..MaxId /\ \A id \in Table!Ids' : id < nextId'
  BY <1>3, <1>4 DEF Table!Ids
<1>6. /\ job' \in [Table!Writers -> Job]
      /\ \A x \in Table!Writers : IsFiniteSet(job'[x].items)
  BY <1>1, FS_EmptySet DEF TableInv, Job
<1> QED BY <1>1, <1>2, <1>5, <1>6 DEF TableInv

\* The other steps.
LEMMA JobStep ==
    ASSUME TableInv, NEW w \in Table!Writers, NEW j \in Job, IsFiniteSet(j.items),
           job' = [job EXCEPT ![w] = j], UNCHANGED <<rows, nextId, exists, ensure>>
    PROVE  TableInv'
<1>1. job' \in [Table!Writers -> Job] /\ \A x \in Table!Writers : IsFiniteSet(job'[x].items)
  BY DEF TableInv
<1> QED BY <1>1 DEF TableInv, Table!Ids

LEMMA WriterSteps ==
    ASSUME Table!TableAssumption, TableInv,
           \/ \E a \in Savers : Table!OpenForm(a) \/ Table!SaveRoutes(a)
           \/ \E r \in Resorters : Table!BeginReorder(r)
           \/ \E w \in Table!Writers : Table!SaveForGroup(w) \/ Table!SaveFails(w)
    PROVE  TableInv'
<1> DEFINE idle == [pc |-> "idle", items |-> {}]
<1>1. idle \in Job /\ IsFiniteSet(idle.items) BY FS_EmptySet DEF Job
<1> HIDE DEF idle
<1>2. \A a \in Savers : a \in Table!Writers BY DEF Table!Writers
<1>3. \A r \in Resorters : r \in Table!Writers BY DEF Table!Writers
<1>4. ASSUME NEW a \in Savers, Table!OpenForm(a) PROVE TableInv'
  <2> DEFINE j == [pc |-> "form", items |-> Table!Listed]
  <2>1. j \in Job /\ IsFiniteSet(j.items) BY ListedTypes DEF Job
  <2>2. job' = [job EXCEPT ![a] = j] /\ UNCHANGED <<rows, nextId, exists, ensure>>
    BY <1>4 DEF Table!OpenForm
  <2> HIDE DEF j
  <2> QED BY <1>2, <2>1, <2>2, JobStep
<1>5. ASSUME NEW a \in Savers, Table!SaveRoutes(a) PROVE TableInv'
  <2>1. UNCHANGED <<rows, nextId, exists, ensure>> BY <1>5 DEF Table!SaveRoutes
  <2>2. CASE job' = [job EXCEPT ![a] = idle] BY <1>1, <1>2, <2>1, <2>2, JobStep
  <2>3. ASSUME NEW items \in Table!Edited(job[a].items),
               job' = [job EXCEPT ![a] = [pc |-> "save", items |-> items]]
        PROVE  TableInv'
    <3> DEFINE j == [pc |-> "save", items |-> items]
    <3>1. job[a].items \in SUBSET Table!Item /\ IsFiniteSet(job[a].items)
      BY <1>2 DEF TableInv, Job
    <3>2. items \in SUBSET Table!Item /\ IsFiniteSet(items) BY <3>1, EditedTypes
    <3>3. j \in Job /\ IsFiniteSet(j.items) BY <3>2 DEF Job
    <3> HIDE DEF j
    <3>4. job' = [job EXCEPT ![a] = j] BY <2>3 DEF j
    <3> QED BY <1>2, <2>1, <3>3, <3>4, JobStep
  <2> QED BY <1>5, <2>2, <2>3 DEF Table!SaveRoutes, idle
<1>6. ASSUME NEW r \in Resorters, Table!BeginReorder(r) PROVE TableInv'
  <2> DEFINE j == [pc |-> "save", items |-> Table!Listed]
  <2>1. j \in Job /\ IsFiniteSet(j.items) BY ListedTypes DEF Job
  <2>2. job' = [job EXCEPT ![r] = j] /\ UNCHANGED <<rows, nextId, exists, ensure>>
    BY <1>6 DEF Table!BeginReorder
  <2> HIDE DEF j
  <2> QED BY <1>3, <2>1, <2>2, JobStep
<1>7. ASSUME NEW w \in Table!Writers, Table!SaveFails(w) PROVE TableInv'
  BY <1>1, <1>7, JobStep DEF Table!SaveFails, idle
<1> QED BY <1>4, <1>5, <1>6, <1>7, SaveStep

LEMMA OtherSteps ==
    ASSUME Table!TableAssumption, TableInv,
           \/ Table!DeleteGroup
           \/ \E e \in Ensurers : Table!EndEnsure(e) \/ \E id \in Table!Ids : Table!BeginEnsure(e, id)
           \/ \E id \in Table!Ids : Table!Pause(id)
    PROVE  TableInv'
<1>1. CASE Table!DeleteGroup
  <2>1. rows' = Table!NoRows /\ exists' = FALSE /\ UNCHANGED <<nextId, job, ensure>>
    BY <1>1 DEF Table!DeleteGroup
  <2>2. rows' \in [Table!Ids' -> Table!Row] /\ Table!Ids' = {}
    BY <2>1 DEF Table!NoRows, Table!Ids
  <2> QED BY <2>1, <2>2 DEF TableInv
<1>2. ASSUME NEW e \in Ensurers, Table!EndEnsure(e) PROVE TableInv'
  <2>1. /\ rows \in [Table!Ids -> Table!Row] /\ ensure \in [Ensurers -> [id : 0..MaxId, src : Sources \cup {Table!NoKey}]]
        /\ UNCHANGED <<nextId, exists, job>>
        /\ ensure' = [ensure EXCEPT ![e] = [id |-> 0, src |-> Table!NoKey]]
    BY <1>2 DEF Table!EndEnsure, TableInv
  <2>2. rows' \in [Table!Ids -> Table!Row]
    <3>1. ensure[e].src \in Sources \cup {Table!NoKey} BY <2>1
    <3>2. \A id \in Table!Ids : [rows[id] EXCEPT !.key = ensure[e].src] \in Table!Row
      BY <2>1, <3>1 DEF Table!Row
    <3> QED BY <1>2, <2>1, <3>2 DEF Table!EndEnsure
  <2>3. ensure' \in [Ensurers -> [id : 0..MaxId, src : Sources \cup {Table!NoKey}]]
    BY <2>1 DEF Table!TableAssumption
  <2>4. Table!Ids' = Table!Ids BY <2>2 DEF Table!Ids
  <2> QED BY <2>1, <2>2, <2>3, <2>4 DEF TableInv
<1>3. ASSUME NEW e \in Ensurers, NEW id \in Table!Ids, Table!BeginEnsure(e, id) PROVE TableInv'
  <2>1. id \in 0..MaxId /\ rows[id].src \in Sources
    BY DEF TableInv, Table!Row, Table!TableAssumption
  <2>2. ensure' \in [Ensurers -> [id : 0..MaxId, src : Sources \cup {Table!NoKey}]]
    BY <1>3, <2>1 DEF Table!BeginEnsure, TableInv
  <2> QED BY <1>3, <2>2 DEF Table!BeginEnsure, TableInv, Table!Ids
<1>4. ASSUME NEW id \in Table!Ids, Table!Pause(id) PROVE TableInv'
  <2> DEFINE row == [rows[id] EXCEPT !.pause = ~rows[id].pause]
  <2>3. rows \in [Table!Ids -> Table!Row] BY DEF TableInv
  <2>4. row \in Table!Row
    <3>1. (~rows[id].pause) \in BOOLEAN OBVIOUS
    <3> QED BY <2>3, <3>1 DEF Table!Row
  <2>5. rows' = [rows EXCEPT ![id] = row] BY <1>4 DEF Table!Pause
  <2> HIDE DEF row
  <2>1. rows' \in [Table!Ids -> Table!Row] BY <2>3, <2>4, <2>5
  <2>2. Table!Ids' = Table!Ids BY <2>1 DEF Table!Ids
  <2> QED BY <1>4, <2>1, <2>2 DEF Table!Pause, TableInv
<1> QED BY <1>1, <1>2, <1>3, <1>4

LEMMA InitTable == ASSUME Table!TableAssumption, Table!Init PROVE TableInv
<1>1. PICK s \in [1..2 -> Sources] :
        rows = [i \in 1..2 |-> [src |-> s[i], key |-> s[i], pause |-> FALSE]]
  BY DEF Table!Init
<1>2. rows \in [Table!Ids -> Table!Row] /\ Table!Ids = 1..2 BY <1>1 DEF Table!Ids, Table!Row
<1>3. /\ job \in [Table!Writers -> Job] /\ \A w \in Table!Writers : job[w].items = {}
      /\ ensure \in [Ensurers -> [id : 0..MaxId, src : Sources \cup {Table!NoKey}]]
  BY DEF Table!Init, Job, Table!TableAssumption
<1>4. nextId = 3 /\ exists = TRUE /\ MaxId \in Nat /\ MaxId >= 2
  BY DEF Table!Init, Table!TableAssumption
<1>5. \A w \in Table!Writers : IsFiniteSet(job[w].items) BY <1>3, FS_EmptySet
<1>6. Table!Ids \subseteq 1..MaxId /\ nextId \in 1..MaxId + 1 /\ \A id \in Table!Ids : id < nextId
  BY <1>2, <1>4
<1> QED BY <1>2, <1>3, <1>4, <1>5, <1>6 DEF TableInv

LEMMA NextTable == Table!TableAssumption /\ TableInv /\ [Table!Next]_Table!vars => TableInv'
<1>1. ASSUME TableInv, UNCHANGED Table!vars
      PROVE  TableInv' BY <1>1 DEF Table!vars, TableInv, Table!Ids
<1> QED BY <1>1, WriterSteps, OtherSteps DEF Table!Next

LEMMA TableInvariant == ASSUME Table!TableAssumption PROVE Table!Spec => []TableInv
BY InitTable, NextTable, PTL DEF Table!Spec

-----------------------------------------------------------------------------
(* The theorems *)

\* Rows, lists and what ensurers hold keep their types, for any number of writers.
THEOREM TableTypes == ASSUME Table!TableAssumption PROVE Table!Spec => []Table!TypeOK
<1>1. TableInv => Table!TypeOK BY DEF TableInv, Table!TypeOK, Job
<1> QED BY <1>1, TableInvariant, PTL

\* Whose step it is shows in the jobs.
LEMMA SaversSave ==
    ASSUME TableInv, [Table!Next]_Table!vars, NEW w \in Table!Writers, Table!Saves(w)
    PROVE  (\E x \in Table!Writers : Table!SaveForGroup(x)) \/ rows' = rows
<1>1. job[w].pc = "save" /\ job'[w].pc = "idle" /\ job \in [Table!Writers -> Job]
  BY DEF Table!Saves, TableInv
<1>2. job' # job BY <1>1
<1>3. ~Table!DeleteGroup BY <1>2 DEF Table!DeleteGroup
<1>4. \A e \in Ensurers : ~Table!EndEnsure(e) /\ \A id \in Table!Ids : ~Table!BeginEnsure(e, id)
  BY <1>2 DEF Table!EndEnsure, Table!BeginEnsure
<1>5. \A id \in Table!Ids : ~Table!Pause(id) BY <1>2 DEF Table!Pause
<1>6. ~UNCHANGED Table!vars BY <1>2 DEF Table!vars
<1> QED
  BY <1>3, <1>4, <1>5, <1>6
    DEF Table!Next, Table!OpenForm, Table!SaveRoutes, Table!BeginReorder, Table!SaveFails

\* In a save a row stays what it was, or it is blank and has lost its source or is new.
LEMMA SavedRows ==
    ASSUME Table!TableAssumption, TableInv, NEW w \in Table!Writers, Table!SaveForGroup(w), NEW id \in DOMAIN rows'
    PROVE  \/ id \in Table!Ids /\ rows'[id] = rows[id]
           \/ id \in Table!Ids /\ rows'[id].key = Table!NoKey /\ rows'[id].src # rows[id].src
           \/ id \notin Table!Ids /\ rows'[id].key = Table!NoKey
<1>1. PICK it \in job[w].items :
        \/ id \in nextId .. nextId' - 1 /\ it.id \notin Table!Ids /\ rows'[id] = Table!Blank(it)
        \/ id \in Table!Ids /\ it.id = id /\ rows'[id] = Table!SavedRow(it)
  BY SaveShape
<1>2. Table!Blank(it).key = Table!NoKey /\ Table!Blank(it).src = it.src BY DEF Table!Blank
<1>3. CASE id \in nextId .. nextId' - 1 /\ rows'[id] = Table!Blank(it)
  <2>1. id \notin Table!Ids BY <1>3 DEF TableInv
  <2> QED BY <1>2, <1>3, <2>1
<1>4. CASE id \in Table!Ids /\ it.id = id /\ rows'[id] = Table!SavedRow(it)
  BY <1>2, <1>4 DEF Table!SavedRow, Table!SameSource
<1> QED BY <1>1, <1>3, <1>4

\* A route gets the key of another source only from an ensurer that had read it before it
\* moved, and a save overwrites neither a key nor a pause written after its list was read,
\* however the forms, reorders, ensurers and pauses of any number of goroutines interleave.
THEOREM KeysAndPausesStay == ASSUME Table!TableAssumption PROVE Table!Spec => Table!RowsAreKept
<1>1. ASSUME TableInv, [Table!Next]_Table!vars, NEW id \in DOMAIN rows', ~Table!Matches(rows'[id]),
             id \in Table!Ids => Table!Matches(rows[id])
      PROVE  \E e \in Ensurers : ensure[e].id = id /\ ensure'[e].id = 0
  <2>1. \A w \in Table!Writers : ~Table!SaveForGroup(w)
    <3> SUFFICES ASSUME NEW w \in Table!Writers, Table!SaveForGroup(w) PROVE FALSE
      OBVIOUS
    <3>1. \/ id \in Table!Ids /\ rows'[id] = rows[id]
          \/ rows'[id].key = Table!NoKey
      BY <1>1, SavedRows
    <3> QED BY <1>1, <3>1 DEF Table!Matches
  <2>2. rows' # rows BY <1>1 DEF Table!Ids
  <2>3. ~Table!DeleteGroup BY <1>1 DEF Table!DeleteGroup, Table!NoRows
  <2>4. \A x \in Table!Ids : ~Table!Pause(x)
    <3> SUFFICES ASSUME NEW x \in Table!Ids, Table!Pause(x) PROVE FALSE
      OBVIOUS
    <3>1. rows \in [Table!Ids -> Table!Row] BY <1>1 DEF TableInv
    <3>2. id \in Table!Ids /\ rows'[id].key = rows[id].key /\ rows'[id].src = rows[id].src
      BY <1>1, <3>1 DEF Table!Pause, Table!Row
    <3> QED BY <1>1, <3>2 DEF Table!Matches
  <2>5. PICK e \in Ensurers : Table!EndEnsure(e)
    BY <1>1, <2>1, <2>2, <2>3, <2>4
      DEF Table!Next, Table!OpenForm, Table!SaveRoutes, Table!BeginReorder, Table!SaveFails, Table!BeginEnsure, Table!vars
  <2>6. ensure \in [Ensurers -> [id : 0..MaxId, src : Sources \cup {Table!NoKey}]]
        /\ rows \in [Table!Ids -> Table!Row]
    BY <1>1 DEF TableInv
  <2>7. ensure'[e].id = 0 BY <2>5, <2>6 DEF Table!EndEnsure
  <2>8. ensure[e].id = id
    <3>1. rows' = [rows EXCEPT ![ensure[e].id].key = ensure[e].src]
      BY <2>2, <2>5 DEF Table!EndEnsure
    <3>2. id \in Table!Ids BY <2>6, <3>1
    <3>3. ensure[e].id # id => rows'[id] = rows[id] BY <2>6, <3>1, <3>2
    <3> QED BY <1>1, <3>2, <3>3
  <2> QED BY <2>7, <2>8
<1>2. ASSUME TableInv, [Table!Next]_Table!vars, NEW w \in Table!Writers, Table!Saves(w), NEW id \in Table!Ids \cap DOMAIN rows',
             rows'[id].src = rows[id].src
      PROVE  rows'[id].key = rows[id].key /\ rows'[id].pause = rows[id].pause
  <2>1. CASE rows' = rows BY <2>1
  <2>2. ASSUME NEW x \in Table!Writers, Table!SaveForGroup(x) PROVE rows'[id] = rows[id]
    BY <1>2, <2>2, SavedRows
  <2> QED BY <1>2, <2>1, <2>2, SaversSave
<1>3. TableInv /\ [Table!Next]_Table!vars =>
        [\A id \in DOMAIN rows' :
           ~Table!Matches(rows'[id]) /\ (id \in Table!Ids => Table!Matches(rows[id])) =>
              \E e \in Ensurers : ensure[e].id = id /\ ensure'[e].id = 0]_Table!vars
  BY <1>1
<1>4. TableInv /\ [Table!Next]_Table!vars =>
        [\A w \in Table!Writers : Table!Saves(w) =>
           \A id \in Table!Ids \cap DOMAIN rows' : rows'[id].src = rows[id].src =>
              rows'[id].key = rows[id].key /\ rows'[id].pause = rows[id].pause]_Table!vars
  BY <1>2
<1> QED BY <1>3, <1>4, TableInvariant, PTL
      DEF Table!Spec, Table!RowsAreKept, Table!OnlyEnsureMisplacesKeys, Table!SaveKeepsKeyAndPause

-----------------------------------------------------------------------------
(* The statements of a save *)

LEMMA SaveCounts == ASSUME NEW S PROVE Save!Cardinality(S) = Cardinality(S)
BY DEF Save!Cardinality, Cardinality

\* The id of the i-th row of a list: its own, or one above all that exist, in the
\* order in which new rows are created.
Zeros(l) == {i \in DOMAIN l : l[i] = 0}
NewBefore(l, i) == {j \in 1..i - 1 : l[j] = 0}
IdAt(l, i) == IF l[i] = 0 THEN MaxRows + 1 + Cardinality(NewBefore(l, i)) ELSE l[i]

ListInv ==
    /\ \E n \in 0..MaxRows + MaxNew : list \in [1..n -> 0..MaxRows]
    /\ \A i, j \in DOMAIN list : list[i] = list[j] /\ list[i] # 0 => i = j
    /\ Cardinality(Zeros(list)) <= MaxNew

\* In the first loop a row is where it was or at its temporary position; in the
\* second the first rows of the list are in their places and the others at theirs.
SaveInv ==
    /\ ListInv
    /\ phase \in {"move", "save", "commit"}
    /\ moved \subseteq Save!Existing
    /\ next \in 1..Len(list) + 1
    /\ phase = "move" =>
          /\ next = 1 /\ DOMAIN pos = Save!Existing
          /\ \A id \in moved : pos[id] = TmpBase + id
          /\ \A id \in Save!Existing \ moved : pos[id] \in 0..MaxRows - 1
          /\ \A i, j \in Save!Existing : pos[i] = pos[j] => i = j
    /\ phase # "move" =>
          /\ \A i \in 1..next - 1 : IdAt(list, i) \in DOMAIN pos /\ pos[IdAt(list, i)] = i - 1
          /\ \A id \in DOMAIN pos : \/ \E i \in 1..next - 1 : id = IdAt(list, i)
                                    \/ id \in Save!Existing /\ pos[id] = TmpBase + id
    /\ phase = "commit" =>
          /\ next = Len(list) + 1
          /\ Save!Existing \cap DOMAIN pos \subseteq Save!Kept

LEMMA SaveConstants == MaxRows \in Nat /\ MaxNew \in Nat /\ TmpBase \in Nat
                       /\ TmpBase >= MaxRows + MaxNew
BY AdminAssumption DEF Save!SaveAssumption

\* What a list is as a function and as a sequence.
LEMMA ListTypes ==
    ASSUME ListInv
    PROVE  /\ Len(list) \in 0..MaxRows + MaxNew /\ DOMAIN list = 1..Len(list)
           /\ list \in [1..Len(list) -> 0..MaxRows] /\ list \in Seq(0..MaxRows)
<1>1. PICK n \in 0..MaxRows + MaxNew : list \in [1..n -> 0..MaxRows] BY DEF ListInv
<1>2. n \in Nat BY SaveConstants
<1>3. list \in Seq(0..MaxRows) BY <1>1, <1>2, SeqDef
<1>4. Len(list) = n BY <1>1, <1>2, <1>3
<1> QED BY <1>1, <1>3, <1>4

LEMMA ZerosFinite ==
    ASSUME ListInv, NEW i \in DOMAIN list
    PROVE  /\ IsFiniteSet(Zeros(list)) /\ NewBefore(list, i) \subseteq Zeros(list)
           /\ IsFiniteSet(NewBefore(list, i)) /\ Cardinality(NewBefore(list, i)) \in Nat
           /\ Cardinality(Zeros(list)) \in Nat
<1>1. IsFiniteSet(1..Len(list)) BY ListTypes, SaveConstants, FS_Interval
<1>2. Zeros(list) \subseteq 1..Len(list) /\ NewBefore(list, i) \subseteq Zeros(list)
  BY ListTypes, SaveConstants DEF Zeros, NewBefore
<1>3. IsFiniteSet(Zeros(list)) BY <1>1, <1>2, FS_Subset
<1>4. IsFiniteSet(NewBefore(list, i)) BY <1>2, <1>3, FS_Subset
<1> QED BY <1>2, <1>3, <1>4, FS_CardinalityType

LEMMA FewerBefore ==
    ASSUME ListInv, NEW i \in DOMAIN list, list[i] = 0,
           NEW T, IsFiniteSet(T), NewBefore(list, i) \cup {i} \subseteq T
    PROVE  Cardinality(NewBefore(list, i)) < Cardinality(T)
<1>1. i \notin NewBefore(list, i) BY ListTypes, SaveConstants DEF NewBefore
<1>2. IsFiniteSet(NewBefore(list, i)) /\ Cardinality(NewBefore(list, i)) \in Nat BY ZerosFinite
<1>3. IsFiniteSet(NewBefore(list, i) \cup {i})
      /\ Cardinality(NewBefore(list, i) \cup {i}) = Cardinality(NewBefore(list, i)) + 1
  BY <1>1, <1>2, FS_AddElement
<1>4. Cardinality(NewBefore(list, i) \cup {i}) <= Cardinality(T) BY FS_Subset
<1>5. Cardinality(T) \in Nat BY FS_CardinalityType
<1> QED BY <1>2, <1>3, <1>4, <1>5

\* The id of a row of the list.
LEMMA IdTypes ==
    ASSUME ListInv, NEW i \in DOMAIN list
    PROVE  /\ IdAt(list, i) \in 1..MaxRows + MaxNew
           /\ list[i] = 0 => IdAt(list, i) > MaxRows
           /\ list[i] # 0 => IdAt(list, i) = list[i] /\ IdAt(list, i) \in Save!Existing
<1>1. list[i] \in 0..MaxRows BY ListTypes
<1>2. Cardinality(NewBefore(list, i)) \in Nat /\ Cardinality(Zeros(list)) \in Nat BY ZerosFinite
<1>3. ASSUME list[i] = 0 PROVE Cardinality(NewBefore(list, i)) < MaxNew
  <2>1. NewBefore(list, i) \cup {i} \subseteq Zeros(list)
    BY <1>3, ZerosFinite DEF Zeros
  <2>2. Cardinality(NewBefore(list, i)) < Cardinality(Zeros(list))
    BY <1>3, <2>1, FewerBefore, ZerosFinite
  <2> QED BY <1>2, <2>2, SaveConstants DEF ListInv
<1> QED BY <1>1, <1>2, <1>3, SaveConstants DEF IdAt, Save!Existing

\* No two rows of the list have the same id.
LEMMA IdsDiffer ==
    ASSUME ListInv, NEW i \in DOMAIN list, NEW j \in DOMAIN list, i # j
    PROVE  IdAt(list, i) # IdAt(list, j)
<1>1. ASSUME NEW h \in DOMAIN list, NEW k \in DOMAIN list, h < k, list[h] = 0, list[k] = 0
      PROVE  IdAt(list, h) # IdAt(list, k)
  <2>1. NewBefore(list, h) \cup {h} \subseteq NewBefore(list, k)
    <3>1. PICK n \in Nat : DOMAIN list = 1..n
      <4>1. DOMAIN list = 1..Len(list) /\ Len(list) \in 0..MaxRows + MaxNew BY ListTypes
      <4>2. MaxRows + MaxNew \in Nat BY SaveConstants
      <4>3. Len(list) \in Nat BY <4>1, <4>2
      <4> QED BY <4>1, <4>3
    <3>2. h \in 1..n /\ k \in 1..n BY <3>1
    <3> QED BY <1>1, <3>2 DEF NewBefore
  <2>2. IsFiniteSet(NewBefore(list, k)) BY ZerosFinite
  <2>3. Cardinality(NewBefore(list, h)) < Cardinality(NewBefore(list, k))
    BY <1>1, <2>1, <2>2, FewerBefore
  <2> QED BY <1>1, <2>3, ZerosFinite, SaveConstants DEF IdAt
<1>2. CASE list[i] = 0 /\ list[j] = 0
  <2>1. i < j \/ j < i BY ListTypes, SaveConstants
  <2> QED BY <1>1, <1>2, <2>1
<1>3. CASE list[i] # 0 /\ list[j] # 0
  BY <1>3, IdTypes DEF ListInv
<1>4. CASE (list[i] = 0) # (list[j] = 0)
  <2>1. \A h \in DOMAIN list : list[h] # 0 => IdAt(list, h) <= MaxRows
    BY IdTypes, SaveConstants DEF Save!Existing
  <2>2. \A h \in DOMAIN list : IdAt(list, h) \in Nat BY IdTypes, SaveConstants
  <2> QED BY <1>4, <2>1, <2>2, IdTypes, SaveConstants
<1> QED BY <1>2, <1>3, <1>4

LEMMA InitSave == Save!Init => SaveInv
<1> SUFFICES ASSUME Save!Init PROVE SaveInv
  OBVIOUS
<1> USE DEF Save!Init
<1>1. Cardinality(Zeros(list)) <= MaxNew BY SaveCounts DEF Zeros
<1>2. ListInv
  <2>1. \E n \in 0..MaxRows + MaxNew : list \in [1..n -> 0..MaxRows]
    <3>1. PICK n \in 0..MaxRows + MaxNew : list \in [1..n -> Save!Existing \cup {0}] OBVIOUS
    <3>2. Save!Existing \cup {0} = 0..MaxRows BY SaveConstants DEF Save!Existing
    <3> QED BY <3>1, <3>2
  <2> QED BY <1>1, <2>1 DEF ListInv
<1>3. next = 1 OBVIOUS
<1>4. phase = "move" /\ moved = {} /\ DOMAIN pos = Save!Existing
      /\ \A id \in Save!Existing : pos[id] \in 0..MaxRows - 1
      /\ \A i, j \in Save!Existing : pos[i] = pos[j] => i = j
  OBVIOUS
<1> HIDE DEF Save!Init
<1>5. next \in 1..Len(list) + 1
  <2>1. Len(list) \in Nat BY <1>2, ListTypes, SaveConstants
  <2> QED BY <1>3, <2>1
<1> QED BY <1>2, <1>3, <1>4, <1>5 DEF SaveInv

LEMMA NextSave == SaveInv /\ [Save!Next]_Save!vars => SaveInv'
<1> SUFFICES ASSUME SaveInv, [Save!Next]_Save!vars PROVE SaveInv'
  OBVIOUS
<1>0. ListInv /\ Len(list) \in Nat /\ DOMAIN list = 1..Len(list)
  BY ListTypes, SaveConstants DEF SaveInv
<1>1. ASSUME list' = list PROVE ListInv'
  BY <1>0, <1>1 DEF ListInv, Zeros
<1>2. CASE Save!MoveAway
  <2> USE <1>2 DEF Save!MoveAway
  <2>1. ListInv' BY <1>1
  <2>2. CASE Save!MustMove = {}
    <3>1. moved = Save!Existing BY <2>2 DEF Save!MustMove, SaveInv
    <3>2. \A id \in DOMAIN pos : id \in Save!Existing /\ pos[id] = TmpBase + id
      BY <3>1 DEF SaveInv
    <3> QED BY <2>1, <2>2, <3>2 DEF SaveInv
  <2>3. CASE Save!MustMove # {}
    <3>1. PICK id \in Save!MustMove : /\ pos' = [pos EXCEPT ![id] = TmpBase + id]
                                      /\ moved' = moved \cup {id} /\ phase' = phase
      BY <2>3
    <3>2. id \in Save!Existing /\ id \notin moved BY DEF Save!MustMove
    <3>3. /\ DOMAIN pos' = Save!Existing /\ next' = 1 /\ phase' = "move" /\ list' = list
          /\ moved' \subseteq Save!Existing
      BY <3>1, <3>2 DEF SaveInv
    <3>4. \A k \in moved' : pos'[k] = TmpBase + k
      BY <3>1, <3>2 DEF SaveInv
    <3>5. \A k \in Save!Existing \ moved' : pos'[k] \in 0..MaxRows - 1
      BY <3>1, <3>2 DEF SaveInv
    <3>6. \A i, j \in Save!Existing : pos'[i] = pos'[j] => i = j
      BY <3>3, <3>4, <3>5, SaveConstants, <3>1 DEF SaveInv, Save!Existing
    <3> QED BY <2>1, <3>3, <3>4, <3>5, <3>6, <1>0 DEF SaveInv
  <2> QED BY <2>2, <2>3
<1>3. CASE Save!SaveItem
  <2> USE <1>3 DEF Save!SaveItem
  <2>1. ListInv' BY <1>1
  <2>2. next \in DOMAIN list /\ next \in Nat BY <1>0 DEF SaveInv
  <2>3. Save!ItemId = IdAt(list, next)
    BY SaveCounts DEF Save!ItemId, Save!FreshId, IdAt, NewBefore
  <2> DEFINE new == IdAt(list, next)
  <2>4. pos' = [id \in DOMAIN pos \cup {new} |-> IF id = new THEN next - 1 ELSE pos[id]]
    BY <2>3 DEF Save!FinalPos
  <2>5. \A i \in 1..next - 1 : i \in DOMAIN list /\ IdAt(list, i) # new
    BY <1>0, <2>2, IdsDiffer
  <2> HIDE DEF new
  <2>6. \A i \in 1..next' - 1 : IdAt(list, i) \in DOMAIN pos' /\ pos'[IdAt(list, i)] = i - 1
    <3> SUFFICES ASSUME NEW i \in 1..next' - 1
                 PROVE  IdAt(list, i) \in DOMAIN pos' /\ pos'[IdAt(list, i)] = i - 1
      OBVIOUS
    <3>1. CASE i = next BY <2>4, <3>1 DEF new
    <3>2. CASE i # next
      <4>1. i \in 1..next - 1 BY <2>2, <3>2
      <4>2. IdAt(list, i) \in DOMAIN pos /\ pos[IdAt(list, i)] = i - 1 BY <4>1 DEF SaveInv
      <4> QED BY <2>4, <2>5, <4>1, <4>2
    <3> QED BY <3>1, <3>2
  <2>7. \A id \in DOMAIN pos' : \/ \E i \in 1..next' - 1 : id = IdAt(list, i)
                                \/ id \in Save!Existing /\ pos'[id] = TmpBase + id
    <3> SUFFICES ASSUME NEW id \in DOMAIN pos'
                 PROVE  \/ \E i \in 1..next' - 1 : id = IdAt(list, i)
                        \/ id \in Save!Existing /\ pos'[id] = TmpBase + id
      OBVIOUS
    <3>1. CASE id = new BY <2>2, <3>1 DEF new
    <3>2. CASE id # new
      <4>1. id \in DOMAIN pos /\ pos'[id] = pos[id] BY <2>4, <3>2
      <4>2. \/ \E i \in 1..next - 1 : id = IdAt(list, i)
            \/ id \in Save!Existing /\ pos[id] = TmpBase + id
        BY <4>1 DEF SaveInv
      <4>3. \A i \in 1..next - 1 : i \in 1..next' - 1 BY <2>2
      <4> QED BY <4>1, <4>2, <4>3
    <3> QED BY <3>1, <3>2
  <2>8. next' \in 1..Len(list') + 1 BY <1>0, <2>2
  <2> QED BY <2>1, <2>6, <2>7, <2>8 DEF SaveInv
<1>4. CASE Save!DeleteRest
  <2> USE <1>4 DEF Save!DeleteRest
  <2>1. ListInv' BY <1>1
  <2>2. next = Len(list) + 1 BY <1>0 DEF SaveInv
  <2>3. ASSUME NEW id \in (Save!Existing \cap DOMAIN pos) \ Save!Kept,
               pos' = [k \in DOMAIN pos \ {id} |-> pos[k]], phase' = phase
        PROVE  SaveInv'
    <3>1. \A i \in 1..next - 1 : IdAt(list, i) # id
      <4> SUFFICES ASSUME NEW i \in DOMAIN list PROVE IdAt(list, i) # id
        BY <1>0, <2>2
      <4>1. list[i] # 0 => IdAt(list, i) \in Save!Kept BY <1>0, IdTypes DEF Save!Kept
      <4>2. list[i] = 0 => IdAt(list, i) \notin Save!Existing
        BY <1>0, IdTypes, SaveConstants DEF Save!Existing
      <4> QED BY <4>1, <4>2
    <3>2. \A i \in 1..next - 1 : IdAt(list, i) \in DOMAIN pos' /\ pos'[IdAt(list, i)] = i - 1
      BY <2>3, <3>1 DEF SaveInv
    <3>3. \A k \in DOMAIN pos' : k \in DOMAIN pos /\ pos'[k] = pos[k] BY <2>3
    <3> QED BY <2>1, <2>3, <3>2, <3>3 DEF SaveInv
  <2>4. ASSUME Save!Existing \cap DOMAIN pos \subseteq Save!Kept, phase' = "commit", pos' = pos
        PROVE  SaveInv'
    BY <2>1, <2>2, <2>4 DEF SaveInv, Save!Kept
  <2> QED BY <2>3, <2>4
<1>5. CASE UNCHANGED Save!vars
  BY <1>1, <1>5 DEF Save!vars, SaveInv, Save!Kept
<1> QED BY <1>2, <1>3, <1>4, <1>5 DEF Save!Next

LEMMA SaveInvariant == Save!Spec => []SaveInv
BY InitSave, NextSave, PTL DEF Save!Spec

\* The types of a save: final positions are those of a list, all others temporary.
LEMMA SaveTypes == SaveInv => Save!TypeOK
<1> SUFFICES ASSUME SaveInv PROVE Save!TypeOK
  OBVIOUS
<1>0. ListInv /\ Len(list) \in 0..MaxRows + MaxNew /\ DOMAIN list = 1..Len(list)
      /\ list \in Seq(0..MaxRows) /\ next \in 1..Len(list) + 1
  BY ListTypes DEF SaveInv
<1>1. CASE phase = "move"
  <2>1. \A id \in DOMAIN pos : id \in Save!Existing /\
           (pos[id] = TmpBase + id \/ pos[id] \in 0..MaxRows - 1)
    BY <1>1 DEF SaveInv
  <2>2. \A id \in DOMAIN pos : id \in 1..MaxRows + MaxNew
    BY <2>1, SaveConstants DEF Save!Existing
  <2>3. \A id \in DOMAIN pos : pos[id] \in 0..MaxRows + MaxNew - 1 \cup {TmpBase + k : k \in Save!Existing}
    BY <2>1, SaveConstants
  <2> QED BY <1>0, <2>2, <2>3 DEF Save!TypeOK, SaveInv
<1>2. CASE phase # "move"
  <2> SUFFICES ASSUME NEW id \in DOMAIN pos
               PROVE  /\ id \in 1..MaxRows + MaxNew
                      /\ pos[id] \in 0..MaxRows + MaxNew - 1 \cup {TmpBase + k : k \in Save!Existing}
    BY <1>0 DEF Save!TypeOK, SaveInv
  <2>1. CASE id \in Save!Existing /\ pos[id] = TmpBase + id
    BY <2>1, SaveConstants DEF Save!Existing
  <2>2. ASSUME NEW i \in 1..next - 1, id = IdAt(list, i)
        PROVE  id \in 1..MaxRows + MaxNew /\ pos[id] \in 0..MaxRows + MaxNew - 1
    <3>1. i \in DOMAIN list /\ i <= MaxRows + MaxNew /\ i \in Nat BY <1>0, SaveConstants
    <3>2. pos[id] = i - 1 BY <1>2, <2>2 DEF SaveInv
    <3> QED BY <1>0, <2>2, <3>1, <3>2, IdTypes, SaveConstants
  <2> QED BY <1>2, <2>1, <2>2 DEF SaveInv
<1> QED BY <1>1, <1>2

\* The temporary positions are above all final ones, so no two rows ever share one.
LEMMA SaveUnique == SaveInv => Save!UniqueIndexHolds
<1> SUFFICES ASSUME SaveInv, NEW i \in DOMAIN pos, NEW j \in DOMAIN pos, pos[i] = pos[j]
             PROVE  i = j
  BY DEF Save!UniqueIndexHolds
<1>0. ListInv /\ Len(list) \in 0..MaxRows + MaxNew /\ next \in 1..Len(list) + 1
  BY ListTypes DEF SaveInv
<1>1. CASE phase = "move" BY <1>1 DEF SaveInv
<1>2. CASE phase # "move"
  <2>1. \A id \in DOMAIN pos :
          \/ \E n \in 1..next - 1 : id = IdAt(list, n) /\ pos[id] = n - 1
          \/ id \in Save!Existing /\ pos[id] = TmpBase + id
    BY <1>2 DEF SaveInv
  <2>2. \A n \in 1..next - 1 : n \in Nat /\ n - 1 < TmpBase BY <1>0, SaveConstants
  <2> QED BY <2>1, <2>2, SaveConstants DEF Save!Existing
<1> QED BY <1>1, <1>2

\* At the commit every id of the list is at its place, and no other row is left.
LEMMA SaveCommits == SaveInv => Save!CommitsTheList
<1> SUFFICES ASSUME SaveInv, phase = "commit"
             PROVE  /\ \A i \in DOMAIN list : list[i] # 0 => list[i] \in DOMAIN pos /\ pos[list[i]] = i - 1
                    /\ {pos[id] : id \in DOMAIN pos} = 0..Len(list) - 1
                    /\ Save!Cardinality(DOMAIN pos) = Len(list)
  BY DEF Save!CommitsTheList
<1> DEFINE n == Len(list)
<1>0. ListInv /\ n \in Nat /\ DOMAIN list = 1..n
  BY ListTypes, SaveConstants DEF SaveInv
<1>1. next - 1 = n BY <1>0 DEF SaveInv
<1>2. \A i \in 1..n : IdAt(list, i) \in DOMAIN pos /\ pos[IdAt(list, i)] = i - 1
  BY <1>1 DEF SaveInv
<1>3. \A id \in DOMAIN pos : \E i \in 1..n : id = IdAt(list, i)
  <2> SUFFICES ASSUME NEW id \in DOMAIN pos PROVE \E i \in 1..n : id = IdAt(list, i)
    OBVIOUS
  <2>1. CASE id \in Save!Existing
    <3>1. PICK i \in DOMAIN list : id = list[i] /\ list[i] # 0 BY <2>1 DEF SaveInv, Save!Kept
    <3> QED BY <1>0, <3>1, IdTypes
  <2>2. CASE id \notin Save!Existing BY <1>1, <2>2 DEF SaveInv
  <2> QED BY <2>1, <2>2
<1> HIDE DEF n
<1>4. {pos[id] : id \in DOMAIN pos} = 0..n - 1
  <2>1. \A id \in DOMAIN pos : pos[id] \in 0..n - 1 BY <1>0, <1>2, <1>3
  <2>2. \A p \in 0..n - 1 : \E id \in DOMAIN pos : p = pos[id]
    <3> SUFFICES ASSUME NEW p \in 0..n - 1 PROVE \E id \in DOMAIN pos : p = pos[id]
      OBVIOUS
    <3>1. p + 1 \in 1..n /\ (p + 1) - 1 = p BY <1>0
    <3> QED BY <1>2, <3>1
  <2> QED BY <2>1, <2>2
<1>5. Cardinality(DOMAIN pos) = n
  <2> DEFINE f == [i \in 1..n |-> IdAt(list, i)]
  <2>1. f \in [1..n -> DOMAIN pos] BY <1>2
  <2>2. \A i, j \in 1..n : f[i] = f[j] => i = j BY <1>0, IdsDiffer
  <2>3. \A id \in DOMAIN pos : \E i \in 1..n : f[i] = id BY <1>3
  <2> HIDE DEF f
  <2>4. f \in Bijection(1..n, DOMAIN pos)
    BY <2>1, <2>2, <2>3 DEF Bijection, Injection, Surjection, IsInjective
  <2>5. IsFiniteSet(1..n) /\ Cardinality(1..n) = n BY <1>0, FS_Interval
  <2> QED BY <2>4, <2>5, FS_Bijection DEF ExistsBijection
<1> QED BY <1>0, <1>2, <1>4, <1>5, IdTypes, SaveCounts DEF n

-----------------------------------------------------------------------------
(* The order of attempts *)

LEMMA DrawCounts == ASSUME NEW S PROVE Draw!Cardinality(S) = Cardinality(S)
BY DEF Draw!Cardinality, Cardinality

LEMMA DrawConstants ==
    /\ Routes \subseteq Nat /\ IsFiniteSet(Routes) /\ Descending \in BOOLEAN
    /\ Rate \in [Routes -> Int] /\ Position \in [Routes -> Int]
    /\ \A rt \in Routes : Submitted[rt] \in Int
BY AdminAssumption DEF Draw!WeightAssumption

Stored(rt) == IF Submitted[rt] <= 0 THEN 1 ELSE Submitted[rt]

LEMMA Shares ==
    ASSUME NEW rt \in Routes
    PROVE  Draw!Share(rt) = Stored(rt) /\ Stored(rt) \in Nat /\ Stored(rt) > 0
BY DrawConstants DEF Draw!Share, Stored

\* Rates, positions and ids order the routes strictly and totally.
LEMMA LessOrders ==
    /\ \A a \in Routes : ~Draw!RouteRateLess(a, a)
    /\ \A a, b, c \in Routes :
          Draw!RouteRateLess(a, b) /\ Draw!RouteRateLess(b, c) => Draw!RouteRateLess(a, c)
    /\ \A a, b \in Routes : a # b => Draw!RouteRateLess(a, b) \/ Draw!RouteRateLess(b, a)
<1>1. \A rt \in Routes : Rate[rt] \in Int /\ Position[rt] \in Int /\ rt \in Nat
  BY DrawConstants
<1> QED BY <1>1 DEF Draw!RouteRateLess, Draw!Better

\* Numbering the routes by how many come before them sorts them.
LEMMA SortedExists ==
    ASSUME NEW S \in SUBSET Routes
    PROVE  \E s \in [1..Cardinality(S) -> S] :
              \A i, j \in 1..Cardinality(S) : i < j => Draw!RouteRateLess(s[i], s[j])
<1> DEFINE n == Cardinality(S)
           Before(a) == {b \in S : Draw!RouteRateLess(b, a)}
           rank == [a \in S |-> Cardinality(Before(a)) + 1]
<1>0. IsFiniteSet(S) /\ n \in Nat BY DrawConstants, FS_Subset, FS_CardinalityType
<1>1. ASSUME NEW a \in S
      PROVE  IsFiniteSet(Before(a)) /\ Cardinality(Before(a)) \in Nat /\ a \notin Before(a)
  <2>1. IsFiniteSet(Before(a)) BY <1>0, FS_Subset
  <2> QED BY <2>1, FS_CardinalityType, LessOrders
<1>2. ASSUME NEW a \in S, NEW T \in SUBSET S, Before(a) \cup {a} \subseteq T
      PROVE  Cardinality(Before(a)) < Cardinality(T)
  <2> DEFINE more == Before(a) \cup {a}
  <2>1. IsFiniteSet(T) /\ Cardinality(T) \in Nat BY <1>0, FS_Subset, FS_CardinalityType
  <2>2. Cardinality(more) = Cardinality(Before(a)) + 1 BY <1>1, FS_AddElement
  <2>3. Cardinality(more) <= Cardinality(T) BY <1>2, <2>1, FS_Subset
  <2> HIDE DEF more, Before
  <2> QED BY <1>1, <2>1, <2>2, <2>3
<1>3. rank \in [S -> 1..n]
  <2> SUFFICES ASSUME NEW a \in S PROVE Cardinality(Before(a)) + 1 \in 1..n
    OBVIOUS
  <2>1. Cardinality(Before(a)) < n BY <1>2
  <2> HIDE DEF Before
  <2> QED BY <1>0, <1>1, <2>1
<1>4. ASSUME NEW a \in S, NEW b \in S, Draw!RouteRateLess(a, b) PROVE rank[a] < rank[b]
  <2>1. Before(a) \cup {a} \subseteq Before(b) BY <1>4, LessOrders
  <2>2. Cardinality(Before(a)) < Cardinality(Before(b)) BY <1>2, <2>1
  <2> HIDE DEF Before
  <2> QED BY <1>1, <2>2
<1> HIDE DEF rank, n, Before
<1>5. \A a, b \in S : rank[a] = rank[b] => a = b
  <2>1. \A a \in S : rank[a] \in Int BY <1>0, <1>3
  <2> QED BY <1>4, <2>1, LessOrders
<1>6. \A i \in 1..n : \E a \in S : rank[a] = i
  <2>1. rank \in Injection(S, 1..n) BY <1>3, <1>5 DEF Injection, IsInjective
  <2>2. IsFiniteSet(1..n) /\ Cardinality(1..n) = n BY <1>0, FS_Interval
  <2>3. rank \in Surjection(S, 1..n) BY <2>1, <2>2, FS_Injection DEF n
  <2> QED BY <2>3 DEF Surjection
<1> DEFINE s == [i \in 1..n |-> CHOOSE a \in S : rank[a] = i]
<1>7. s \in [1..n -> S] /\ \A i \in 1..n : rank[s[i]] = i BY <1>6
<1> HIDE DEF s
<1>8. ASSUME NEW i \in 1..n, NEW j \in 1..n, i < j PROVE Draw!RouteRateLess(s[i], s[j])
  <2>1. s[i] \in S /\ s[j] \in S /\ rank[s[i]] = i /\ rank[s[j]] = j BY <1>7
  <2>2. s[i] # s[j] BY <1>8, <2>1
  <2>3. ~Draw!RouteRateLess(s[j], s[i])
    <3>1. i \in Int /\ j \in Int BY <1>0
    <3>2. ~(rank[s[j]] < rank[s[i]]) BY <1>8, <2>1, <3>1
    <3> QED BY <1>4, <2>1, <3>2
  <2> QED BY <2>1, <2>2, <2>3, LessOrders
<1> QED BY <1>7, <1>8 DEF n

\* What the sort returns.
LEMMA SortedIs ==
    ASSUME NEW S \in SUBSET Routes
    PROVE  /\ Draw!Sorted(S) \in [1..Cardinality(S) -> S]
           /\ \A i, j \in 1..Cardinality(S) :
                 i < j => Draw!RouteRateLess(Draw!Sorted(S)[i], Draw!Sorted(S)[j])
<1> DEFINE Is(s) == \A i, j \in DOMAIN s : i < j => Draw!RouteRateLess(s[i], s[j])
<1>1. \E s \in [1..Cardinality(S) -> S] : Is(s)
  <2>1. PICK s \in [1..Cardinality(S) -> S] :
               \A i, j \in 1..Cardinality(S) : i < j => Draw!RouteRateLess(s[i], s[j])
    BY SortedExists
  <2> QED BY <2>1
<1>2. Draw!Sorted(S) = CHOOSE s \in [1..Cardinality(S) -> S] : Is(s)
  BY DrawCounts DEF Draw!Sorted
<1> HIDE DEF Is
<1>3. Draw!Sorted(S) \in [1..Cardinality(S) -> S] /\ Is(Draw!Sorted(S)) BY <1>1, <1>2
<1> QED BY <1>3 DEF Is

-----------------------------------------------------------------------------
(* Blocks of equal rates, and the sums of their weights *)

\* The order reached so far is a permutation of the schedulable routes, and no
\* route comes after one that its rate beats.
DrawInv ==
    /\ cands \subseteq Routes
    /\ seg \in [1..Cardinality(cands) -> cands]
    /\ \A i, j \in 1..Cardinality(cands) : seg[i] = seg[j] => i = j
    /\ \A i, j \in 1..Cardinality(cands) :
          i < j => ~Draw!Better(Rate[seg[j]], Rate[seg[i]])
    /\ start \in 1..Cardinality(cands) + 1

Size == Cardinality(cands)

\* A drawn order as a function and as a sequence.
LEMMA SegTypes ==
    ASSUME DrawInv
    PROVE  /\ IsFiniteSet(cands) /\ Size \in Nat /\ Len(seg) = Size /\ DOMAIN seg = 1..Size
           /\ seg \in Seq(cands) /\ \A i \in 1..Size : seg[i] \in Routes /\ Rate[seg[i]] \in Int
<1>1. IsFiniteSet(cands) /\ Size \in Nat
  BY DrawConstants, FS_Subset, FS_CardinalityType DEF DrawInv, Size
<1>2. seg \in [1..Size -> cands] BY DEF DrawInv, Size
<1>3. seg \in Seq(cands) BY <1>1, <1>2, SeqDef
<1>4. Len(seg) = Size BY <1>1, <1>2, <1>3
<1> QED BY <1>1, <1>2, <1>3, <1>4, DrawConstants DEF DrawInv

LEMMA GreatestNumber ==
    ASSUME NEW T \in SUBSET Nat, T # {}, NEW n \in Nat, \A x \in T : x <= n
    PROVE  \E m \in T : \A x \in T : x <= m
<1> DEFINE rest == {n - x : x \in T}
<1>1. rest \in SUBSET Nat /\ rest # {}
  <2>1. \A x \in T : n - x \in Nat OBVIOUS
  <2> QED BY <2>1
<1> HIDE DEF rest
<1>2. PICK k \in rest : \A r \in rest : k <= r BY <1>1, LeastNumber
<1>3. PICK m \in T : k = n - m BY DEF rest
<1>4. ASSUME NEW x \in T PROVE x <= m
  <2>1. n - x \in rest BY DEF rest
  <2> QED BY <1>2, <1>3, <2>1
<1> QED BY <1>4

\* A block ends at or after its first route, and its rates are equal.
LEMMA BlockIs ==
    ASSUME DrawInv, NEW i \in 1..Size
    PROVE  /\ Draw!BlockEnd(seg, i) \in i..Size
           /\ \A m \in i..Draw!BlockEnd(seg, i) : Rate[seg[m]] = Rate[seg[i]]
<1> DEFINE Last(j) == /\ Rate[seg[j]] = Rate[seg[i]]
                      /\ \A k \in j + 1..Size : Rate[seg[k]] # Rate[seg[i]]
           same == {j \in i..Size : Rate[seg[j]] = Rate[seg[i]]}
           e == Draw!BlockEnd(seg, i)
<1>0. Size \in Nat /\ Len(seg) = Size /\ i \in Nat BY SegTypes
<1>1. \E j \in i..Size : Last(j)
  <2>1. same \in SUBSET Nat /\ same # {} /\ \A x \in same : x <= Size
    <3>1. i \in i..Size BY <1>0
    <3>2. i \in same BY <3>1
    <3>3. same \subseteq i..Size OBVIOUS
    <3> QED BY <1>0, <3>2, <3>3
  <2> HIDE DEF same
  <2>2. PICK j \in same : \A x \in same : x <= j BY <1>0, <2>1, GreatestNumber
  <2>3. j \in i..Size /\ Rate[seg[j]] = Rate[seg[i]] BY DEF same
  <2>4. ASSUME NEW k \in j + 1..Size PROVE Rate[seg[k]] # Rate[seg[i]]
    <3>1. k \in i..Size /\ k > j BY <1>0, <2>3
    <3>2. k \notin same BY <1>0, <2>2, <2>3, <3>1
    <3> QED BY <3>1, <3>2 DEF same
  <2> QED BY <2>3, <2>4
<1>2. e \in i..Size /\ Last(e)
  <2>1. e = CHOOSE j \in i..Size : Last(j) BY <1>0 DEF Draw!BlockEnd
  <2> HIDE DEF Last, e
  <2> QED BY <1>1, <2>1
<1> HIDE DEF e
<1>3. ASSUME NEW m \in i..e PROVE Rate[seg[m]] = Rate[seg[i]]
  <2>1. m \in 1..Size /\ e \in 1..Size BY <1>0, <1>2
  <2>2. Rate[seg[m]] \in Int /\ Rate[seg[i]] \in Int /\ Rate[seg[e]] = Rate[seg[i]]
    BY <1>2, <2>1, SegTypes
  <2>3. m = i \/ ~Draw!Better(Rate[seg[m]], Rate[seg[i]])
    BY <1>0, <1>2, <2>1 DEF DrawInv, Size
  <2>4. m = e \/ ~Draw!Better(Rate[seg[e]], Rate[seg[m]])
    BY <1>0, <1>2, <2>1 DEF DrawInv, Size
  <2> QED BY <2>2, <2>3, <2>4 DEF Draw!Better
<1> QED BY <1>2, <1>3 DEF e

\* What FoldLeft computes for a sequence of routes.
DrawSum(q) == Draw!FoldLeft(LAMBDA acc, rt : acc + Draw!Share(rt), 0, q)
Maxima(n) == [t \in SUBSET (1..n) |-> Draw!Max(t)]
SharesOf(q, n) == [m \in 1..n |-> Draw!Share(q[m])]

\* The library folds a sequence from its end.
LEMMA MaximaChoose ==
    ASSUME NEW n \in Nat
    PROVE  Chooser(Maxima(n), 1..n) /\ \A m \in 1..n : Maxima(n)[1..m] = m
<1>1. ASSUME NEW t \in SUBSET (1..n), t # {} PROVE Draw!Max(t) \in t
  <2>1. t \in SUBSET Nat /\ \A x \in t : x <= n OBVIOUS
  <2>2. PICK m \in t : \A x \in t : x <= m BY <1>1, <2>1, GreatestNumber
  <2>3. \E x \in t : \A y \in t : x >= y BY <2>1, <2>2
  <2> QED BY <2>3 DEF Draw!Max
<1>2. ASSUME NEW m \in 1..n PROVE Draw!Max(1..m) = m
  <2> DEFINE t == 1..m
  <2>1. m \in t /\ t \subseteq Nat /\ \A y \in t : m >= y OBVIOUS
  <2> HIDE DEF t
  <2>2. \E x \in t : \A y \in t : x >= y BY <2>1
  <2>3. Draw!Max(t) \in t /\ \A y \in t : Draw!Max(t) >= y BY <2>2 DEF Draw!Max
  <2>4. Draw!Max(t) = m
    <3>1. Draw!Max(t) >= m /\ m >= Draw!Max(t) BY <2>1, <2>3
    <3>2. Draw!Max(t) \in Nat BY <2>1, <2>3
    <3> QED BY <3>1, <3>2
  <2> QED BY <2>4 DEF t
<1>3. ASSUME NEW m \in 1..n PROVE Maxima(n)[1..m] = m
  <2>1. 1..m \in SUBSET (1..n) OBVIOUS
  <2> QED BY <1>2, <2>1 DEF Maxima
<1> QED BY <1>1, <1>3 DEF Chooser, Maxima

\* The sum of the shares of a sequence, unfolded.
LEMMA DrawSumIs ==
    ASSUME NEW n \in Nat, NEW q, DOMAIN q = 1..n, \A m \in 1..n : q[m] \in Routes
    PROVE  \E g : FromEnd(g, SharesOf(q, n), Maxima(n), n) /\ DrawSum(q) = g[1..n]
<1> DEFINE Body(h) == [t \in SUBSET (1..n) |->
               IF t = {} THEN 0 ELSE h[t \ {Draw!Max(t)}] + Draw!Share(q[Draw!Max(t)])]
           g == CHOOSE h : h = Body(h)
<1>1. DrawSum(q) = g[1..n] BY DEF DrawSum, Draw!FoldLeft, Draw!MapThenFoldSet
<1>2. IsFiniteSet(1..n) BY FS_Interval
<1>3. SharesOf(q, n) \in [1..n -> Nat] BY Shares DEF SharesOf
<1>4. PICK h : IsSum(h, 1..n, SharesOf(q, n), Maxima(n)) BY <1>2, <1>3, SumExists, MaximaChoose
<1>5. \A t \in SUBSET (1..n) : t # {} =>
         /\ Maxima(n)[t] = Draw!Max(t)
         /\ SharesOf(q, n)[Maxima(n)[t]] = Draw!Share(q[Draw!Max(t)])
         /\ Draw!Share(q[Draw!Max(t)]) \in Nat
  <2> SUFFICES ASSUME NEW t \in SUBSET (1..n), t # {}
               PROVE  /\ Maxima(n)[t] = Draw!Max(t)
                      /\ SharesOf(q, n)[Maxima(n)[t]] = Draw!Share(q[Draw!Max(t)])
                      /\ Draw!Share(q[Draw!Max(t)]) \in Nat
    OBVIOUS
  <2>1. Maxima(n)[t] = Draw!Max(t) BY DEF Maxima
  <2>2. Draw!Max(t) \in 1..n
    <3>1. Chooser(Maxima(n), 1..n) BY MaximaChoose
    <3>2. Maxima(n)[t] \in t BY <3>1 DEF Chooser
    <3> QED BY <2>1, <3>2
  <2> QED BY <2>1, <2>2, Shares DEF SharesOf
<1>6. \A t \in SUBSET (1..n) :
         h[t] = IF t = {} THEN 0 ELSE SharesOf(q, n)[Maxima(n)[t]] + h[t \ {Maxima(n)[t]}]
  BY <1>4 DEF IsSum
<1>7. \A t \in SUBSET (1..n) : h[t] \in Nat
  <2>1. Adds(h, SharesOf(q, n), Maxima(n), SUBSET (1..n)) BY <1>6 DEF Adds
  <2> QED BY <1>2, <1>3, <2>1, SumType, MaximaChoose
<1>8. h = Body(h)
  <2>1. \A t \in SUBSET (1..n) : h[t] = Body(h)[t]
    <3> SUFFICES ASSUME NEW t \in SUBSET (1..n)
                 PROVE  h[t] = IF t = {} THEN 0 ELSE h[t \ {Draw!Max(t)}] + Draw!Share(q[Draw!Max(t)])
      OBVIOUS
    <3> DEFINE rest == t \ {Draw!Max(t)}
    <3>1. rest \in SUBSET (1..n) OBVIOUS
    <3>2. h[rest] \in Nat
      <4> HIDE DEF rest
      <4> QED BY <1>7, <3>1
    <3>3. CASE t = {} BY <1>6, <3>3
    <3>4. CASE t # {}
      <4>1. h[t] = Draw!Share(q[Draw!Max(t)]) + h[rest] BY <1>5, <1>6, <3>4
      <4> DEFINE share == Draw!Share(q[Draw!Max(t)])
      <4>2. share \in Nat BY <1>5, <3>4
      <4>3. h[t] = share + h[rest] BY <4>1
      <4> HIDE DEF share, rest
      <4>4. h[t] = h[rest] + share BY <3>2, <4>2, <4>3
      <4> QED BY <3>4, <4>4 DEF share, rest
    <3> QED BY <3>3, <3>4
  <2>2. h = [t \in SUBSET (1..n) |-> h[t]] BY <1>4 DEF IsSum
  <2> QED BY <2>1, <2>2
<1>9. g = Body(g) BY <1>8
<1> HIDE DEF g
<1>10. ASSUME NEW t \in SUBSET (1..n)
       PROVE  g[t] = IF t = {} THEN 0 ELSE g[t \ {Draw!Max(t)}] + Draw!Share(q[Draw!Max(t)])
  BY <1>9
<1> HIDE DEF Body
<1>11. \A t \in SUBSET (1..n) : g[t] \in Nat
  <2> DEFINE bad == {t \in SUBSET (1..n) : g[t] \notin Nat}
  <2> SUFFICES ASSUME bad # {} PROVE FALSE
    OBVIOUS
  <2>1. bad \in SUBSET SUBSET (1..n) OBVIOUS
  <2> HIDE DEF bad
  <2>2. PICK t \in bad : \A x \in t : t \ {x} \notin bad BY <1>2, <2>1, MinimalSet
  <2>3. t \in SUBSET (1..n) /\ g[t] \notin Nat BY DEF bad
  <2>4. t # {}
    <3>1. g[t] = IF t = {} THEN 0 ELSE g[t \ {Draw!Max(t)}] + Draw!Share(q[Draw!Max(t)])
      BY <1>10, <2>3
    <3> QED BY <2>3, <3>1
  <2>5. Draw!Max(t) \in t /\ Draw!Share(q[Draw!Max(t)]) \in Nat
    BY <1>5, <2>3, <2>4, MaximaChoose DEF Chooser
  <2>6. g[t \ {Draw!Max(t)}] \in Nat BY <2>2, <2>3, <2>5 DEF bad
  <2>7. g[t] = g[t \ {Draw!Max(t)}] + Draw!Share(q[Draw!Max(t)]) BY <1>10, <2>3, <2>4
  <2> QED BY <2>3, <2>5, <2>6, <2>7
<1>12. Adds(g, SharesOf(q, n), Maxima(n), SUBSET (1..n))
  <2> SUFFICES ASSUME NEW t \in SUBSET (1..n)
               PROVE  g[t] = IF t = {} THEN 0
                             ELSE SharesOf(q, n)[Maxima(n)[t]] + g[t \ {Maxima(n)[t]}]
    BY DEF Adds
  <2>1. CASE t = {} BY <1>10, <2>1
  <2>2. CASE t # {}
    <3> DEFINE share == Draw!Share(q[Draw!Max(t)])
               rest == t \ {Draw!Max(t)}
    <3>1. g[t] = g[rest] + share BY <1>10, <2>2
    <3>2. share \in Nat BY <1>5, <2>2
    <3>3. rest \in SUBSET (1..n) OBVIOUS
    <3>4. SharesOf(q, n)[Maxima(n)[t]] = share /\ t \ {Maxima(n)[t]} = rest BY <1>5, <2>2
    <3> HIDE DEF share, rest
    <3>5. g[t] = share + g[rest] BY <1>11, <3>1, <3>2, <3>3
    <3> QED BY <2>2, <3>4, <3>5
  <2> QED BY <2>1, <2>2
<1> QED BY <1>1, <1>3, <1>12, MaximaChoose DEF FromEnd

\* Up to the k-th route of a block the sum has grown by each share in turn.
LEMMA AccIs ==
    ASSUME DrawInv, NEW i \in 1..Size
    PROVE  \A k \in i..Size :
              /\ Draw!Acc(seg, i, k) \in Nat
              /\ Draw!Acc(seg, i, k) =
                    (IF k = i THEN 0 ELSE Draw!Acc(seg, i, k - 1)) + Draw!Share(seg[k])
<1> DEFINE q(k) == SubSeq(seg, i, k)
           len(k) == k - i + 1
<1>0. Size \in Nat /\ i \in Nat /\ seg \in Seq(cands) /\ Len(seg) = Size
      /\ \A m \in 1..Size : seg[m] \in Routes
  BY SegTypes
<1>1. ASSUME NEW k \in i..Size
      PROVE  /\ len(k) \in Nat /\ DOMAIN q(k) = 1..len(k)
             /\ \A m \in 1..len(k) : q(k)[m] = seg[i + m - 1] /\ q(k)[m] \in Routes
  <2>1. q(k) = [m \in 1..k - i + 1 |-> seg[i + m - 1]] BY <1>0
  <2>2. \A m \in 1..len(k) : i + m - 1 \in 1..Size BY <1>0
  <2> QED BY <1>0, <2>1, <2>2
<1>2. \A k : Draw!Acc(seg, i, k) = DrawSum(q(k)) BY DEF Draw!Acc, DrawSum
<1> HIDE DEF q
<1>3. ASSUME NEW k \in i..Size
      PROVE  \E g : /\ FromEnd(g, SharesOf(q(k), len(k)), Maxima(len(k)), len(k))
                    /\ Draw!Acc(seg, i, k) = g[1..len(k)]
  BY <1>1, <1>2, DrawSumIs
<1>4. ASSUME NEW k \in i..Size PROVE Draw!Acc(seg, i, k) \in Nat
  <2>1. PICK g : /\ FromEnd(g, SharesOf(q(k), len(k)), Maxima(len(k)), len(k))
                 /\ Draw!Acc(seg, i, k) = g[1..len(k)]
    BY <1>3
  <2>2. len(k) \in Nat BY <1>1
  <2> HIDE DEF len
  <2>3. \A m \in 0..len(k) : g[1..m] \in Nat BY <2>1, <2>2, PrefixSum
  <2> QED BY <2>1, <2>2, <2>3
<1>5. ASSUME NEW k \in i..Size
      PROVE  Draw!Acc(seg, i, k) =
                (IF k = i THEN 0 ELSE Draw!Acc(seg, i, k - 1)) + Draw!Share(seg[k])
  <2>1. PICK g : /\ FromEnd(g, SharesOf(q(k), len(k)), Maxima(len(k)), len(k))
                 /\ Draw!Acc(seg, i, k) = g[1..len(k)]
    BY <1>3
  <2>2. len(k) \in Nat /\ len(k) >= 1 /\ len(k) \in 1..len(k) BY <1>0
  <2>3. SharesOf(q(k), len(k))[len(k)] = Draw!Share(seg[k])
    <3>1. q(k)[len(k)] = seg[i + len(k) - 1] BY <1>1, <2>2
    <3>2. i + len(k) - 1 = k BY <1>0
    <3> QED BY <2>2, <3>1, <3>2 DEF SharesOf
  <2> HIDE DEF len
  <2>4. g[1..len(k)] = g[1..len(k) - 1] + SharesOf(q(k), len(k))[len(k)] /\ g[1..0] = 0
    BY <2>1, <2>2, PrefixSum
  <2>5. CASE k = i
    <3>1. len(k) - 1 = 0 BY <1>0, <2>5 DEF len
    <3>2. g[1..len(k) - 1] = 0 BY <2>4, <3>1
    <3> QED BY <2>1, <2>3, <2>4, <2>5, <3>2
  <2>6. CASE k # i
    <3>1. k - 1 \in i..Size BY <1>0, <2>6
    <3>2. len(k - 1) = len(k) - 1 /\ len(k - 1) \in 0..len(k) BY <1>0, <3>1 DEF len
    <3>3. PICK h : /\ FromEnd(h, SharesOf(q(k - 1), len(k - 1)), Maxima(len(k - 1)), len(k - 1))
                   /\ Draw!Acc(seg, i, k - 1) = h[1..len(k - 1)]
      BY <1>3, <3>1
    <3>4. \A m \in 1..len(k - 1) :
             SharesOf(q(k - 1), len(k - 1))[m] = SharesOf(q(k), len(k))[m]
      <4> SUFFICES ASSUME NEW m \in 1..len(k - 1)
                   PROVE  SharesOf(q(k - 1), len(k - 1))[m] = SharesOf(q(k), len(k))[m]
        OBVIOUS
      <4>1. m \in 1..len(k) BY <2>2, <3>2
      <4>2. q(k - 1)[m] = seg[i + m - 1] /\ q(k)[m] = seg[i + m - 1] BY <1>1, <3>1, <4>1
      <4> QED BY <4>1, <4>2 DEF SharesOf
    <3>5. h[1..len(k - 1)] = g[1..len(k - 1)] BY <2>1, <2>2, <3>2, <3>3, <3>4, SamePrefix
    <3> QED BY <2>1, <2>3, <2>4, <2>6, <3>2, <3>3, <3>5
  <2> QED BY <2>5, <2>6
<1> QED BY <1>4, <1>5

\* The sum up to a route, and the sum before it.
UpTo(i, k) == Draw!Acc(seg, i, k)
Under(i, k) == IF k = i THEN 0 ELSE UpTo(i, k - 1)

\* Every route takes a part of the sum, and the parts follow one another.
LEMMA PartsFollow ==
    ASSUME DrawInv, NEW i \in 1..Size
    PROVE  /\ \A k \in i..Size : /\ UpTo(i, k) \in Nat /\ Under(i, k) \in Nat
                                 /\ UpTo(i, k) = Under(i, k) + Stored(seg[k])
                                 /\ Under(i, k) < UpTo(i, k)
           /\ \A j, k \in i..Size : j < k => UpTo(i, j) <= Under(i, k)
<1>0. Size \in Nat /\ i \in Nat BY SegTypes
<1>1. ASSUME NEW k \in i..Size
      PROVE  /\ UpTo(i, k) \in Nat /\ Under(i, k) \in Nat
             /\ UpTo(i, k) = Under(i, k) + Stored(seg[k])
             /\ Under(i, k) < UpTo(i, k)
  <2>1. UpTo(i, k) \in Nat /\ UpTo(i, k) = Under(i, k) + Draw!Share(seg[k])
    BY AccIs DEF UpTo, Under
  <2>2. Under(i, k) \in Nat
    <3>1. k # i => k - 1 \in i..Size BY <1>0
    <3> QED BY <3>1, AccIs DEF UpTo, Under
  <2>3. seg[k] \in Routes
    <3>1. k \in 1..Size BY <1>0
    <3> QED BY <3>1, SegTypes
  <2> QED BY <2>1, <2>2, <2>3, Shares
<1> DEFINE bad == {k \in i..Size : \E j \in i..Size : j < k /\ ~(UpTo(i, j) <= Under(i, k))}
<1>2. bad = {}
  <2> SUFFICES ASSUME bad # {} PROVE FALSE
    OBVIOUS
  <2>1. bad \in SUBSET Nat BY <1>0
  <2> HIDE DEF bad
  <2>2. PICK k \in bad : \A x \in bad : k <= x BY <2>1, LeastNumber
  <2>3. PICK j \in i..Size : k \in i..Size /\ j < k /\ ~(UpTo(i, j) <= Under(i, k)) BY DEF bad
  <2>4. k - 1 \in i..Size /\ k # i /\ k - 1 \notin bad BY <1>0, <2>2, <2>3
  <2>5. Under(i, k) = UpTo(i, k - 1) BY <2>4 DEF Under
  <2>6. CASE j = k - 1 BY <1>1, <2>3, <2>4, <2>5, <2>6
  <2>7. CASE j # k - 1
    <3>1. j < k - 1 BY <1>0, <2>3, <2>7
    <3>2. UpTo(i, j) <= Under(i, k - 1) BY <2>4, <3>1 DEF bad
    <3> QED BY <1>1, <2>3, <2>4, <2>5, <3>2
  <2> QED BY <2>6, <2>7
<1> QED BY <1>1, <1>2

\* The total of a block is the sum up to its end.
LEMMA TotalIs ==
    ASSUME DrawInv, NEW i \in 1..Size
    PROVE  Draw!Total(seg, i) = UpTo(i, Draw!BlockEnd(seg, i))
BY DEF Draw!Total, UpTo

\* A draw below the total picks the one route whose part it falls in.
LEMMA PickIs ==
    ASSUME DrawInv, NEW i \in 1..Size, NEW n \in 0..Draw!Total(seg, i) - 1
    PROVE  /\ Draw!Pick(seg, i, n) \in i..Draw!BlockEnd(seg, i)
           /\ \A k \in i..Draw!BlockEnd(seg, i) :
                 Draw!Pick(seg, i, n) = k <=> Under(i, k) <= n /\ n < UpTo(i, k)
<1> DEFINE e == Draw!BlockEnd(seg, i)
           In(k) == n < UpTo(i, k) /\ \A m \in i..k - 1 : n >= UpTo(i, m)
           p == Draw!Pick(seg, i, n)
           over == {k \in i..e : n < UpTo(i, k)}
<1>0. Size \in Nat /\ i \in Nat /\ e \in i..Size BY SegTypes, BlockIs
<1> HIDE DEF e
<1>1. n \in Nat /\ n < UpTo(i, e)
  <2>1. UpTo(i, e) \in Nat BY <1>0, PartsFollow
  <2>2. Draw!Total(seg, i) = UpTo(i, e) BY TotalIs DEF e
  <2> QED BY <2>1, <2>2
<1>2. \A k \in i..e : k \in i..Size /\ UpTo(i, k) \in Nat /\ Under(i, k) \in Nat
  BY <1>0, PartsFollow
<1>3. \E k \in i..e : In(k)
  <2>1. over \in SUBSET Nat /\ over # {} BY <1>0, <1>1
  <2> HIDE DEF over
  <2>2. PICK k \in over : \A x \in over : k <= x BY <2>1, LeastNumber
  <2>3. k \in i..e /\ n < UpTo(i, k) BY DEF over
  <2>4. ASSUME NEW m \in i..k - 1 PROVE n >= UpTo(i, m)
    <3>1. m \in i..e /\ m < k BY <1>0, <2>3
    <3>2. m \notin over BY <1>0, <2>2, <2>3, <3>1
    <3> QED BY <1>1, <1>2, <3>1, <3>2 DEF over
  <2> QED BY <2>3, <2>4
<1>4. p \in i..e /\ In(p)
  <2>1. p = CHOOSE k \in i..e : In(k) BY DEF Draw!Pick, UpTo, e
  <2> HIDE DEF In, p
  <2> QED BY <1>3, <2>1
<1> HIDE DEF p
<1>5. Under(i, p) <= n
  <2>1. CASE p = i BY <1>1, <2>1 DEF Under
  <2>2. CASE p # i
    <3>1. p - 1 \in i..p - 1 BY <1>0, <1>4, <2>2
    <3> QED BY <1>1, <1>2, <1>4, <2>2, <3>1 DEF Under
  <2> QED BY <2>1, <2>2
<1>6. ASSUME NEW k \in i..e, Under(i, k) <= n, n < UpTo(i, k) PROVE p = k
  <2>1. p < k => UpTo(i, p) <= Under(i, k) BY <1>0, <1>2, <1>4, PartsFollow
  <2>2. k < p => UpTo(i, k) <= Under(i, p) BY <1>0, <1>2, <1>4, PartsFollow
  <2> QED BY <1>0, <1>1, <1>2, <1>4, <1>5, <1>6, <2>1, <2>2
<1> QED BY <1>4, <1>5, <1>6 DEF e, p

-----------------------------------------------------------------------------
(* The draws *)

LEMMA InitDraw == Draw!Init => DrawInv
<1> SUFFICES ASSUME Draw!Init PROVE DrawInv
  OBVIOUS
<1>1. cands \in SUBSET Routes /\ seg = Draw!Sorted(cands) /\ start = 1 BY DEF Draw!Init
<1> DEFINE n == Cardinality(cands)
<1>2. n \in Nat BY <1>1, DrawConstants, FS_Subset, FS_CardinalityType
<1>3. seg \in [1..n -> cands]
      /\ \A i, j \in 1..n : i < j => Draw!RouteRateLess(seg[i], seg[j])
  BY <1>1, SortedIs
<1>4. ASSUME NEW i \in 1..n, NEW j \in 1..n, i < j
      PROVE  seg[i] # seg[j] /\ ~Draw!Better(Rate[seg[j]], Rate[seg[i]])
  <2>1. seg[i] \in Routes /\ seg[j] \in Routes BY <1>1, <1>3
  <2>2. Draw!RouteRateLess(seg[i], seg[j]) BY <1>3, <1>4
  <2>3. Rate[seg[i]] \in Int /\ Rate[seg[j]] \in Int BY <2>1, DrawConstants
  <2>4. seg[i] # seg[j] BY <2>1, <2>2, LessOrders
  <2> QED BY <2>2, <2>3, <2>4 DEF Draw!RouteRateLess, Draw!Better
<1>5. \A i, j \in 1..n : seg[i] = seg[j] => i = j
  <2>1. \A i, j \in 1..n : i = j \/ i < j \/ j < i BY <1>2
  <2> QED BY <1>4, <2>1
<1> QED BY <1>1, <1>2, <1>3, <1>4, <1>5 DEF DrawInv

LEMMA NextDraw == DrawInv /\ [Draw!Next]_Draw!vars => DrawInv'
<1> SUFFICES ASSUME DrawInv, [Draw!Next]_Draw!vars PROVE DrawInv'
  OBVIOUS
<1>0. Size \in Nat /\ Len(seg) = Size /\ DOMAIN seg = 1..Size BY SegTypes
<1>1. CASE Draw!DrawOne
  <2>1. start \in 1..Size /\ start + 1 \in 1..Size /\ Draw!Total(seg, start) > 0
    BY <1>0, <1>1 DEF Draw!DrawOne
  <2>2. PICK n \in 0..Draw!Total(seg, start) - 1 :
               seg' = Draw!Swap(seg, start, Draw!Pick(seg, start, n))
    BY <1>1 DEF Draw!DrawOne
  <2> DEFINE p == Draw!Pick(seg, start, n)
  <2>3. p \in start..Draw!BlockEnd(seg, start) BY <2>1, PickIs
  <2>4. p \in 1..Size /\ Rate[seg[p]] = Rate[seg[start]]
    <3>1. Draw!BlockEnd(seg, start) \in start..Size BY <2>1, BlockIs
    <3>2. Rate[seg[p]] = Rate[seg[start]] BY <2>1, <2>3, BlockIs
    <3> QED BY <1>0, <2>1, <2>3, <3>1, <3>2
  <2>5. seg' = [seg EXCEPT ![start] = seg[p], ![p] = seg[start]] BY <2>2 DEF Draw!Swap
  <2> HIDE DEF p
  <2>6. cands' = cands /\ start' = start + 1 BY <1>1 DEF Draw!DrawOne
  <2> DEFINE from(i) == IF i = p THEN start ELSE IF i = start THEN p ELSE i
  <2>7. \A i \in 1..Size : seg'[i] = seg[from(i)] /\ from(i) \in 1..Size
    BY <1>0, <2>1, <2>4, <2>5
  <2>8. \A i \in 1..Size : Rate[seg'[i]] = Rate[seg[i]] BY <2>4, <2>7
  <2>9. seg' \in [1..Size -> cands]
    <3>1. seg \in [1..Size -> cands] BY DEF DrawInv, Size
    <3> QED BY <2>1, <2>4, <2>5, <3>1
  <2>10. \A i, j \in 1..Size : seg'[i] = seg'[j] => i = j
    <3>1. \A i, j \in 1..Size : from(i) = from(j) => i = j OBVIOUS
    <3> HIDE DEF from
    <3> QED BY <2>7, <3>1 DEF DrawInv, Size
  <2>11. \A i, j \in 1..Size : i < j => ~Draw!Better(Rate[seg'[j]], Rate[seg'[i]])
    BY <2>8 DEF DrawInv, Size
  <2> QED BY <1>0, <2>1, <2>6, <2>9, <2>10, <2>11 DEF DrawInv, Size
<1>2. CASE Draw!NextBlock
  <2>1. start \in 1..Size /\ start' = start + 1 /\ cands' = cands /\ seg' = seg
    BY <1>0, <1>2 DEF Draw!NextBlock
  <2>2. start' \in 1..Size + 1 BY <1>0, <2>1
  <2> QED BY <2>1, <2>2 DEF DrawInv, Size
<1>3. CASE UNCHANGED Draw!vars BY <1>3 DEF Draw!vars, DrawInv
<1> QED BY <1>1, <1>2, <1>3 DEF Draw!Next

LEMMA DrawInvariant == Draw!Spec => []DrawInv
BY InitDraw, NextDraw, PTL DEF Draw!Spec

LEMMA DrawTypes == DrawInv => Draw!TypeOK
<1> SUFFICES ASSUME DrawInv PROVE Draw!TypeOK
  OBVIOUS
<1>1. Size \in Nat /\ Len(seg) = Size /\ seg \in Seq(cands) BY SegTypes
<1>2. cands \subseteq Routes /\ start \in 1..Size + 1 BY DEF DrawInv, Size
<1> QED BY <1>1, <1>2 DEF Draw!TypeOK

LEMMA DrawKeepsRates == DrawInv => Draw!RateOrderKept
<1> SUFFICES ASSUME DrawInv
             PROVE  /\ Len(seg) = Draw!Cardinality(cands) /\ Draw!ToSet(seg) = cands
                    /\ \A i, j \in DOMAIN seg : i < j => ~Draw!Better(Rate[seg[j]], Rate[seg[i]])
  BY DEF Draw!RateOrderKept
<1>1. IsFiniteSet(cands) /\ Size \in Nat /\ Len(seg) = Size /\ DOMAIN seg = 1..Size BY SegTypes
<1>2. seg \in Injection(1..Size, cands) BY DEF DrawInv, Size, Injection, IsInjective
<1>3. IsFiniteSet(1..Size) /\ Cardinality(1..Size) = Size BY <1>1, FS_Interval
<1>4. seg \in Surjection(1..Size, cands) BY <1>1, <1>2, <1>3, FS_Injection DEF Size
<1>5. Draw!ToSet(seg) = cands
  <2>1. seg \in [1..Size -> cands] /\ \A x \in cands : \E i \in 1..Size : seg[i] = x
    BY <1>4 DEF Surjection
  <2> QED BY <2>1 DEF Draw!ToSet
<1>6. \A i, j \in 1..Size : i < j => ~Draw!Better(Rate[seg[j]], Rate[seg[i]])
  BY DEF DrawInv, Size
<1> QED BY <1>1, <1>5, <1>6, DrawCounts DEF Size

\* Of the draws below the total, as many pick a route as its stored weight.
LEMMA DrawProportional == DrawInv => Draw!DrawIsProportional
<1> SUFFICES ASSUME DrawInv, start \in 1..Size, NEW k \in start..Draw!BlockEnd(seg, start)
             PROVE  Cardinality({n \in 0..Draw!Total(seg, start) - 1 : Draw!Pick(seg, start, n) = k})
                       = Stored(seg[k])
  <2>1. ASSUME DrawInv, start \in 1..Size, NEW k \in start..Draw!BlockEnd(seg, start)
        PROVE  [rt \in Routes |-> IF Submitted[rt] <= 0 THEN 1 ELSE Submitted[rt]][seg[k]]
                  = Stored(seg[k])
    <3>1. Draw!BlockEnd(seg, start) \in start..Size /\ Size \in Nat BY <2>1, BlockIs, SegTypes
    <3>2. k \in 1..Size BY <2>1, <3>1
    <3>3. seg[k] \in Routes BY <2>1, <3>2, SegTypes
    <3> QED BY <3>3 DEF Stored
  <2>2. DrawInv => Len(seg) = Size BY SegTypes
  <2> QED BY <2>1, <2>2, DrawCounts DEF Draw!DrawIsProportional
<1> DEFINE e == Draw!BlockEnd(seg, start)
           lo == Under(start, k)
           hi == UpTo(start, k)
           total == Draw!Total(seg, start)
           drawn == {n \in 0..total - 1 : Draw!Pick(seg, start, n) = k}
<1>1. Size \in Nat /\ start \in Nat /\ e \in start..Size BY SegTypes, BlockIs
<1>2. k \in start..Size BY <1>1
<1>3. lo \in Nat /\ hi \in Nat /\ hi = lo + Stored(seg[k]) /\ lo < hi BY <1>2, PartsFollow
<1>4. total \in Nat /\ hi <= total
  <2>1. total = UpTo(start, e) BY TotalIs
  <2>2. UpTo(start, e) \in Nat /\ Under(start, e) \in Nat /\ Under(start, e) < UpTo(start, e)
    BY <1>1, PartsFollow
  <2>3. k < e => hi <= Under(start, e) BY <1>1, <1>2, PartsFollow
  <2>4. k = e \/ k < e BY <1>1
  <2> QED BY <1>3, <2>1, <2>2, <2>3, <2>4
<1>5. \A n \in 0..total - 1 : Draw!Pick(seg, start, n) = k <=> lo <= n /\ n < hi
  BY PickIs
<1>6. drawn = lo..hi - 1
  <2> HIDE DEF lo, hi, total
  <2>1. drawn = {n \in 0..total - 1 : lo <= n /\ n < hi} BY <1>5
  <2> QED BY <1>3, <1>4, <2>1
<1>7. Stored(seg[k]) \in Nat
  <2>1. k \in 1..Size BY <1>1, <1>2
  <2> QED BY <2>1, SegTypes, Shares
<1>8. Cardinality(lo..hi - 1) = Stored(seg[k])
  <2> HIDE DEF lo, hi
  <2>1. lo \in Int /\ hi - 1 \in Int /\ hi - 1 >= lo /\ ((hi - 1) - lo) + 1 = Stored(seg[k])
    BY <1>3, <1>7
  <2>2. \A a, b \in Int : Cardinality(a..b) = IF a > b THEN 0 ELSE b - a + 1
    BY FS_Interval
  <2>3. Cardinality(lo..hi - 1) = IF lo > hi - 1 THEN 0 ELSE (hi - 1) - lo + 1
    BY <2>1, <2>2
  <2> QED BY <2>1, <2>3
<1> QED BY <1>6, <1>8

-----------------------------------------------------------------------------
(* The four machines, as MCRouteAdmin puts them next to each other *)

\* Whichever runs, each behaves as its own specification.
LEMMA Apart == MCSpec => Spec /\ Table!Spec /\ Save!Spec /\ Draw!Spec
<1>1. MCInit => Init /\ Table!Init /\ Save!Init /\ Draw!Init
  BY DEF MCInit, QuotaIdle, TableIdle, SaveIdle, DrawIdle
<1>2. [MCNext]_allVars => /\ [Next]_vars /\ [Table!Next]_(Table!vars)
                          /\ [Save!Next]_(Save!vars) /\ [Draw!Next]_(Draw!vars)
  BY DEF MCNext, allVars, vars, tableVars, saveVars, drawVars, Table!vars, Save!vars, Draw!vars
<1> QED BY <1>1, <1>2, PTL DEF MCSpec, Spec, Table!Spec, Save!Spec, Draw!Spec

\* Keys, rows, the statements of a save and a drawn order keep their types, for any
\* number of handlers, administrators, reorders, ensurers, rows and routes.
THEOREM AdminTypes == MCSpec => []TypesOK
<1>1. SaveInv => Save!TypeOK BY SaveTypes
<1>2. DrawInv => Draw!TypeOK BY DrawTypes
<1> QED
  BY <1>1, <1>2, QuotaTypes, TableTypes, SaveInvariant, DrawInvariant, Apart, AdminAssumption, PTL
    DEF TypesOK

\* From the list of a form to the order of attempts: no statement of a save collides
\* with a position that is taken, what it commits is the list, and of the routes a
\* group has, cheaper ones are tried first and equal ones drawn in proportion to their
\* weights (SaveForGroup, SortRoutes, weightedPermute).
THEOREM OrdersAreSound == MCSpec => []OrderIsSound
<1>1. SaveInv => Save!UniqueIndexHolds /\ Save!CommitsTheList BY SaveUnique, SaveCommits
<1>2. DrawInv => Draw!RateOrderKept /\ Draw!DrawIsProportional BY DrawKeepsRates, DrawProportional
<1> QED BY <1>1, <1>2, SaveInvariant, DrawInvariant, Apart, PTL DEF OrderIsSound

\* Saves lose no key and no pause, only an ensurer puts a key in the wrong place, and
\* of a gateway key only an edit loses a bill, for any number of each.
THEOREM RowsRemainKept == MCSpec => RowsAreKept
BY KeysAndPausesStay, BillsAreLostByEdits, Apart, AdminAssumption, PTL DEF RowsAreKept
=============================================================================
