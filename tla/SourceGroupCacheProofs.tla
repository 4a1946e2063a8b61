----------------------- MODULE SourceGroupCacheProofs -----------------------
(***************************************************************************)
(* The cache of source group ratios, for any channels, callers and         *)
(* goroutines:                                                             *)
(*   - single flight of the background refresh: SingleFlight is inductive  *)
(*     next to the types of the two variables it relates;                  *)
(*   - types, and with them the bound on the calls of a blocking load;     *)
(*   - a refresh never forgets known ratios;                               *)
(*   - a scan sorts by what it has seen.  The invariant, SeenInv, says it  *)
(*     of everything a later step may still hand to the scan: what is      *)
(*     fresh in the cache, what a goroutine is about to store, and what a  *)
(*     call holds.                                                         *)
(***************************************************************************)
EXTENDS MCSourceGroupCache, FiniteSetTheorems, TLAPS

FlightInv ==
    /\ busy \subseteq Channels
    /\ task \in [Channels -> [Slots -> Task]]
    /\ SingleFlight

\* What a step does to the refresh goroutines is all the invariant depends on.
LEMMA FlightFrame ==
    ASSUME FlightInv, UNCHANGED <<busy, task>> PROVE FlightInv'
  BY DEF FlightInv, SingleFlight, Running

\* A task that works keeps its slot, whatever stage it is at.
LEMMA StageKept ==
    ASSUME FlightInv, busy' = busy, task' \in [Channels -> [Slots -> Task]],
           \A c \in Channels, s \in Slots :
              task'[c][s].pc = "free" <=> task[c][s].pc = "free"
    PROVE  FlightInv'
  <1>1. \A c \in Channels : Running(c)' = Running(c)
    BY DEF Running
  <1> QED  BY <1>1 DEF FlightInv, SingleFlight

LEMMA LookupFlight ==
    ASSUME FlightInv, NEW ids \in Wanted, Lookup(ids) PROVE FlightInv'
  <1> DEFINE R == ToRefresh(ids)
  <1>1. /\ \A c \in R : \E s \in Slots : task[c][s].pc = "free"
        /\ task' = [c \in Channels |->
                      IF c \in R
                      THEN [task[c] EXCEPT ![FreeSlot(c)] = [Free EXCEPT !.pc = "fetch"]]
                      ELSE task[c]]
    BY DEF Lookup
  <1>2. busy' = busy \cup R /\ R \subseteq Channels /\ R \cap busy = {}
    BY CacheAssumption DEF Lookup, ToRefresh
  <1>3. task \in [Channels -> [Slots -> Task]] /\ busy \subseteq Channels /\ SingleFlight
    BY DEF FlightInv
  <1> HIDE DEF R
  <1>4. \A c \in R : FreeSlot(c) \in Slots /\ task[c][FreeSlot(c)].pc = "free"
    BY <1>1 DEF FreeSlot
  <1>5. [Free EXCEPT !.pc = "fetch"] \in Task /\ [Free EXCEPT !.pc = "fetch"].pc = "fetch"
    BY DEF Task, Free, Groups
  <1>6. task' \in [Channels -> [Slots -> Task]]
    BY <1>1, <1>3, <1>5, <1>4
  <1>7. ASSUME NEW c \in Channels
        PROVE  /\ c \in busy' <=> Running(c)' # {}
               /\ \A s, t \in Running(c)' : s = t
    <2>1. CASE c \in R
      <3>1. \A s \in Slots : task[c][s].pc = "free"
        BY <2>1, <1>2, <1>3 DEF SingleFlight, Running
      <3>2. task'[c] = [task[c] EXCEPT ![FreeSlot(c)] = [Free EXCEPT !.pc = "fetch"]]
        BY <2>1, <1>1
      <3>3. \A s \in Slots : task'[c][s].pc # "free" <=> s = FreeSlot(c)
        BY <3>1, <3>2, <1>3, <1>5, <1>4, <2>1
      <3>4. Running(c)' = {FreeSlot(c)}
        BY <3>3, <2>1, <1>4 DEF Running
      <3> QED  BY <3>4, <2>1, <1>2
    <2>2. CASE c \notin R
      <3>1. task'[c] = task[c]
        BY <2>2, <1>1
      <3>2. Running(c)' = Running(c)
        BY <3>1 DEF Running
      <3> QED  BY <3>2, <2>2, <1>2, <1>3 DEF SingleFlight
    <2> QED  BY <2>1, <2>2
  <1> QED  BY <1>2, <1>3, <1>6, <1>7 DEF FlightInv, SingleFlight

LEMMA RefreshFlight ==
    ASSUME FlightInv, NEW c \in Channels, NEW s \in Slots, Refresh(c, s)
    PROVE  FlightInv'
  <1>1. task \in [Channels -> [Slots -> Task]] /\ busy \subseteq Channels /\ SingleFlight
    BY DEF FlightInv
  <1>2. CASE Fetch(c, s)
    <2>1. PICK groups \in Groups :
             task' = [task EXCEPT ![c][s] = [pc |-> "store", groups |-> groups]]
      BY <1>2 DEF Fetch
    <2> QED  BY <1>1, <1>2, <2>1, StageKept DEF Fetch, Task
  <1>3. CASE Store(c, s)
    BY <1>1, <1>3, StageKept DEF Store, Task, Groups
  <1>4. CASE Release(c, s)
    <2>1. /\ task[c][s].pc = "release" /\ busy' = busy \ {c}
          /\ task' = [task EXCEPT ![c][s] = Free]
      BY <1>4 DEF Release
    <2>2. task' \in [Channels -> [Slots -> Task]]
      BY <2>1, <1>1 DEF Task, Free, Groups
    <2>3. Running(c)' = {}
      <3>1. \A t \in Slots : task[c][t].pc # "free" => t = s
        BY <2>1, <1>1 DEF SingleFlight, Running
      <3>2. \A t \in Slots : task'[c][t].pc = "free"
        BY <3>1, <2>1, <1>1 DEF Free
      <3> QED  BY <3>2 DEF Running
    <2>4. \A d \in Channels \ {c} : Running(d)' = Running(d)
      BY <2>1, <1>1 DEF Running
    <2> QED  BY <2>1, <1>1, <2>2, <2>3, <2>4 DEF FlightInv, SingleFlight
  <1> QED  BY <1>2, <1>3, <1>4 DEF Refresh

LEMMA InitFlight == Init => FlightInv
  BY DEF Init, FlightInv, SingleFlight, Running, Task, Free, Groups

LEMMA NextFlight == FlightInv /\ [Next]_vars => FlightInv'
  <1> SUFFICES ASSUME FlightInv, [Next]_vars PROVE FlightInv'
    OBVIOUS
  <1>1. ASSUME NEW ids \in Wanted, Lookup(ids) PROVE FlightInv'
    BY <1>1, LookupFlight
  <1>2. ASSUME NEW c \in Channels, NEW s \in Slots, Refresh(c, s) PROVE FlightInv'
    BY <1>2, RefreshFlight
  <1>3. ASSUME NEW l \in Loaders, Invalidate(l) \/ BeginSave(l) \/ LoaderStep(l)
        PROVE  FlightInv'
    <2>1. UNCHANGED <<busy, task>>
      BY <1>3 DEF Invalidate, BeginSave, LoaderStep, Split, Join, Return, Admit, FetchOne, Put
    <2> QED  BY <2>1, FlightFrame
  <1>4. ASSUME NEW c \in Channels, Expire(c) \/ Change(c) PROVE FlightInv'
    BY <1>4, FlightFrame DEF Expire, Change
  <1>5. CASE UNCHANGED vars
    BY <1>5, FlightFrame DEF vars
  <1> QED  BY <1>1, <1>2, <1>3, <1>4, <1>5 DEF Next

\* One background refresh per channel, and the flag tells exactly whether there
\* is one, in every behaviour of loadGroupsByChannel and its goroutines.
THEOREM OneRefreshPerChannel == Spec => []SingleFlight
  <1>1. FlightInv => SingleFlight
    BY DEF FlightInv
  <1> QED  BY InitFlight, NextFlight, <1>1, PTL DEF Spec

-----------------------------------------------------------------------------
(* Types *)

EntryType == [groups : Groups, fresh : BOOLEAN]
LoadType == [pc : {"idle", "lookup", "fetch", "done"},
             stage : [Channels -> Stage], out : [Channels -> Groups],
             floor : [Channels -> Groups]]

\* The channels a call, w, asks the upstream about at a time.
Asking(w) == {c \in Channels : w.stage[c] \in {"ask", "put"}}
Admitted(w) == Cardinality(Asking(w)) <= Concurrency

LEMMA AtIsAsking ==
    ASSUME NEW l PROVE At(l, {"ask", "put"}) = Asking(load[l])
BY DEF At, Asking

LEMMA InitType == Init => TypeOK
<1> SUFFICES ASSUME Init PROVE TypeOK
  OBVIOUS
<1>1. MaxVersion \in Nat /\ MaxFailures \in Nat /\ Concurrency \in Nat BY CacheAssumption
<1>2. 1 \in Version BY <1>1 DEF Version
<1>3. Idle \in LoadType /\ Asking(Idle) = {}
  BY DEF Idle, LoadType, Stage, Groups, Asking
<1>4. Cardinality({}) = 0 BY FS_EmptySet
<1>5. \A l \in Loaders : Cardinality(At(l, {"ask", "put"})) <= Concurrency
  BY <1>1, <1>3, <1>4, AtIsAsking DEF Init
<1>6. Free \in Task BY DEF Free, Task, Groups
<1>7. /\ up \in [Channels -> Version] /\ entry \in [Channels -> EntryType] /\ busy \subseteq Channels
      /\ task \in [Channels -> [Slots -> Task]] /\ failures \in 0..MaxFailures
  BY <1>1, <1>2, <1>6 DEF Init, EntryType, Groups
<1>8. load \in [Loaders -> LoadType] BY <1>3 DEF Init
<1> QED BY <1>5, <1>7, <1>8 DEF TypeOK, EntryType, LoadType

\* A step of one call, to a well-typed state that keeps to the semaphore.
LEMMA LoadStepType ==
    ASSUME TypeOK, NEW l \in Loaders, NEW w \in LoadType, Admitted(w),
           load' = [load EXCEPT ![l] = w],
           entry' \in [Channels -> EntryType], UNCHANGED <<up, busy, task>>,
           failures' \in 0..MaxFailures
    PROVE  TypeOK'
<1>1. load \in [Loaders -> LoadType] BY DEF TypeOK, LoadType
<1>2. load' \in [Loaders -> LoadType] BY <1>1
<1>3. \A m \in Loaders : Cardinality(At(m, {"ask", "put"}))' <= Concurrency
  <2> SUFFICES ASSUME NEW m \in Loaders
               PROVE  Cardinality(At(m, {"ask", "put"}))' <= Concurrency
    OBVIOUS
  <2>1. At(m, {"ask", "put"})' = Asking(load'[m]) BY DEF At, Asking
  <2>2. CASE m = l BY <1>1, <2>1, <2>2 DEF Admitted
  <2>3. CASE m # l
    <3>1. load'[m] = load[m] BY <1>1, <2>3
    <3>2. At(m, {"ask", "put"})' = At(m, {"ask", "put"}) BY <2>1, <3>1, AtIsAsking
    <3> QED BY <3>2 DEF TypeOK
  <2> QED BY <2>2, <2>3
<1> QED BY <1>2, <1>3 DEF TypeOK, EntryType, LoadType

\* A step that leaves the calls alone.
LEMMA OtherStepType ==
    ASSUME TypeOK, UNCHANGED load, up' \in [Channels -> Version],
           entry' \in [Channels -> EntryType], busy' \subseteq Channels,
           task' \in [Channels -> [Slots -> Task]], failures' \in 0..MaxFailures
    PROVE  TypeOK'
<1>1. \A l \in Loaders : At(l, {"ask", "put"})' = At(l, {"ask", "put"}) BY DEF At
<1> QED BY <1>1 DEF TypeOK, EntryType

LEMMA ReturnsType ==
    ASSUME failures \in 0..MaxFailures, NEW c, NEW groups, Returns(c, groups)
    PROVE  failures' \in 0..MaxFailures
BY CacheAssumption DEF Returns

\* The flags and goroutines of the background refresh keep theirs (FlightInv).
LEMMA RefreshType ==
    ASSUME TypeOK, FlightInv, FlightInv',
           \/ \E ids \in Wanted : Lookup(ids)
           \/ \E c \in Channels, s \in Slots : Refresh(c, s)
    PROVE  TypeOK'
<1>1. busy' \subseteq Channels /\ task' \in [Channels -> [Slots -> Task]] BY DEF FlightInv
<1>2. /\ up \in [Channels -> Version] /\ entry \in [Channels -> EntryType]
      /\ failures \in 0..MaxFailures /\ task \in [Channels -> [Slots -> Task]]
  BY DEF TypeOK, EntryType
<1>3. ASSUME NEW ids \in Wanted, Lookup(ids) PROVE TypeOK'
  BY <1>1, <1>2, <1>3, OtherStepType DEF Lookup
<1>4. ASSUME NEW c \in Channels, NEW s \in Slots, Fetch(c, s) PROVE TypeOK'
  <2>1. failures' \in 0..MaxFailures BY <1>2, <1>4, ReturnsType DEF Fetch
  <2> QED BY <1>1, <1>2, <1>4, <2>1, OtherStepType DEF Fetch
<1>5. ASSUME NEW c \in Channels, NEW s \in Slots, Store(c, s) PROVE TypeOK'
  <2>1. task[c][s] \in Task BY <1>2
  <2>2. Refreshed(entry[c].groups, task[c][s].groups) \in Groups
    BY <1>2, <2>1 DEF Refreshed, EntryType, Task
  <2>3. entry' \in [Channels -> EntryType] BY <1>2, <1>5, <2>2 DEF Store, EntryType
  <2> QED BY <1>1, <1>2, <1>5, <2>3, OtherStepType DEF Store
<1>6. ASSUME NEW c \in Channels, NEW s \in Slots, Release(c, s) PROVE TypeOK'
  BY <1>1, <1>2, <1>6, OtherStepType DEF Release
<1> QED BY <1>3, <1>4, <1>5, <1>6 DEF Refresh

\* The steps of one call make a well-typed call.
LEMMA CallType ==
    ASSUME TypeOK, NEW l \in Loaders, Invalidate(l) \/ BeginSave(l) \/ LoaderStep(l)
    PROVE  TypeOK'
<1> DEFINE w == load[l]
<1>1. /\ load \in [Loaders -> LoadType] /\ w \in LoadType
      /\ entry \in [Channels -> EntryType] /\ up \in [Channels -> Version]
      /\ failures \in 0..MaxFailures
  BY DEF TypeOK, LoadType, EntryType
<1>2. Admitted(w) /\ IsFiniteSet(Channels) /\ Concurrency \in Nat \ {0}
  BY AtIsAsking, CacheAssumption DEF TypeOK, Admitted
<1>3. Version \subseteq Groups /\ Nothing \in Groups BY DEF Groups
<1>4. ASSUME NEW x \in LoadType, x.stage = w.stage PROVE Admitted(x)
  BY <1>2, <1>4 DEF Admitted, Asking
<1>5. CASE Invalidate(l)
  <2> DEFINE f == [c \in Channels |-> IF InHand(c) THEN Nothing ELSE up[c]]
             x == [w EXCEPT !.pc = "lookup", !.floor = f]
  <2>1. f \in [Channels -> Groups] BY <1>1, <1>3
  <2>2. load' = [load EXCEPT ![l] = x] BY <1>5 DEF Invalidate
  <2> HIDE DEF f
  <2>3. x \in LoadType /\ x.stage = w.stage BY <1>1, <2>1 DEF LoadType
  <2>4. entry' \in [Channels -> EntryType] BY <1>1, <1>5 DEF Invalidate, EntryType
  <2> HIDE DEF x
  <2> QED BY <1>1, <1>4, <1>5, <2>2, <2>3, <2>4, LoadStepType DEF Invalidate
<1>6. CASE BeginSave(l)
  <2> DEFINE x == [w EXCEPT !.pc = "lookup"]
  <2>1. x \in LoadType /\ x.stage = w.stage BY <1>1 DEF LoadType
  <2>2. load' = [load EXCEPT ![l] = x] BY <1>6 DEF BeginSave
  <2> HIDE DEF x
  <2> QED BY <1>1, <1>4, <1>6, <2>1, <2>2, LoadStepType DEF BeginSave
<1>7. CASE Split(l)
  <2>1. PICK ids \in Wanted :
          LET miss == ids \ Hits(ids) IN
          load' = [load EXCEPT ![l] =
            [@ EXCEPT !.pc = IF miss = {} THEN "done" ELSE "fetch",
                      !.out = [c \in Channels |->
                                 IF c \in Hits(ids) THEN entry[c].groups ELSE Nothing],
                      !.stage = [c \in Channels |->
                                   IF c \notin ids THEN "out"
                                   ELSE IF c \notin miss THEN "hit"
                                   ELSE IF Cardinality(miss) = 1 THEN "ask" ELSE "wait"]]]
    BY <1>7 DEF Split
  <2> DEFINE miss == ids \ Hits(ids)
             pc == IF miss = {} THEN "done" ELSE "fetch"
             out == [c \in Channels |->
                                 IF c \in Hits(ids) THEN entry[c].groups ELSE Nothing]
             stage == [c \in Channels |->
                                   IF c \notin ids THEN "out"
                                   ELSE IF c \notin miss THEN "hit"
                                   ELSE IF Cardinality(miss) = 1 THEN "ask" ELSE "wait"]
             x == [w EXCEPT !.pc = pc, !.out = out, !.stage = stage]
  <2>2. load' = [load EXCEPT ![l] = x] BY <2>1
  <2>3. miss \subseteq Channels BY CacheAssumption
  <2>4. out \in [Channels -> Groups] BY <1>1, <1>3 DEF EntryType
  <2>5. stage \in [Channels -> Stage] BY DEF Stage
  <2>6. pc \in {"fetch", "done"} OBVIOUS
  <2>7. \/ Cardinality(miss) = 1 /\ \A c \in Channels : stage[c] \in {"ask", "put"} => c \in miss
        \/ \A c \in Channels : stage[c] \notin {"ask", "put"}
    OBVIOUS
  <2> HIDE DEF pc, out, stage, miss
  <2>8. x \in LoadType /\ x.stage = stage BY <1>1, <2>4, <2>5, <2>6 DEF LoadType
  <2> HIDE DEF x
  <2>9. Admitted(x)
    <3>1. CASE Cardinality(miss) = 1 /\ \A c \in Channels : stage[c] \in {"ask", "put"} => c \in miss
      <4>1. Asking(x) \subseteq miss BY <2>8, <3>1 DEF Asking
      <4>2. IsFiniteSet(miss) BY <1>2, <2>3, FS_Subset
      <4>3. Cardinality(Asking(x)) <= Cardinality(miss) BY <4>1, <4>2, FS_Subset
      <4>4. Cardinality(Asking(x)) \in Nat BY <4>1, <4>2, FS_Subset, FS_CardinalityType
      <4> QED BY <1>2, <3>1, <4>3, <4>4 DEF Admitted
    <3>2. CASE \A c \in Channels : stage[c] \notin {"ask", "put"}
      <4>1. Asking(x) = {} BY <2>8, <3>2 DEF Asking
      <4>2. Cardinality({}) = 0 BY FS_EmptySet
      <4> QED BY <1>2, <4>1, <4>2 DEF Admitted
    <3> QED BY <2>7, <3>1, <3>2
  <2> QED BY <1>1, <1>7, <2>2, <2>8, <2>9, LoadStepType DEF Split
<1>8. ASSUME NEW c \in Channels, Admit(l, c) PROVE TypeOK'
  <2> DEFINE x == [w EXCEPT !.stage = [@ EXCEPT ![c] = "ask"]]
  <2>1. load' = [load EXCEPT ![l] = x] BY <1>8 DEF Admit
  <2>2. x \in LoadType /\ x.stage = [w.stage EXCEPT ![c] = "ask"]
    BY <1>1 DEF LoadType, Stage
  <2>3. Asking(x) = Asking(w) \cup {c} BY <1>1, <2>2 DEF Asking, LoadType
  <2>4. IsFiniteSet(Asking(w)) BY <1>2, FS_Subset DEF Asking
  <2>5. Cardinality(Asking(w)) < Concurrency BY <1>8, AtIsAsking DEF Admit
  <2>6. Cardinality(Asking(w) \cup {c}) \in {Cardinality(Asking(w)), Cardinality(Asking(w)) + 1}
    BY <2>4, FS_AddElement
  <2>7. Cardinality(Asking(w)) \in Nat BY <2>4, FS_CardinalityType
  <2>8. Admitted(x) BY <1>2, <2>3, <2>5, <2>6, <2>7 DEF Admitted
  <2> HIDE DEF x
  <2> QED BY <1>1, <1>8, <2>1, <2>2, <2>8, LoadStepType DEF Admit
<1>9. ASSUME NEW c \in Channels, FetchOne(l, c) PROVE TypeOK'
  <2>1. PICK groups \in Groups :
           /\ Returns(c, groups)
           /\ load' = [load EXCEPT ![l].stage[c] = "put", ![l].out[c] = groups]
    BY <1>9 DEF FetchOne
  <2> DEFINE x == [w EXCEPT !.stage = [@ EXCEPT ![c] = "put"], !.out = [@ EXCEPT ![c] = groups]]
  <2>2. load' = [load EXCEPT ![l] = x] BY <1>1, <2>1 DEF LoadType
  <2>3. x \in LoadType /\ x.stage = [w.stage EXCEPT ![c] = "put"]
    BY <1>1 DEF LoadType, Stage
  <2>4. Asking(x) = Asking(w) BY <1>1, <1>9, <2>3 DEF Asking, LoadType, FetchOne
  <2>5. failures' \in 0..MaxFailures BY <1>1, <2>1, ReturnsType
  <2> HIDE DEF x
  <2> QED BY <1>1, <1>2, <1>9, <2>2, <2>3, <2>4, <2>5, LoadStepType DEF FetchOne, Admitted
<1>10. ASSUME NEW c \in Channels, Put(l, c) PROVE TypeOK'
  <2> DEFINE x == [w EXCEPT !.stage = [@ EXCEPT ![c] = "got"]]
  <2>1. load' = [load EXCEPT ![l] = x] BY <1>10 DEF Put
  <2>2. x \in LoadType /\ x.stage = [w.stage EXCEPT ![c] = "got"]
    BY <1>1 DEF LoadType, Stage
  <2>3. Asking(x) \subseteq Asking(w) BY <1>1, <2>2 DEF Asking, LoadType
  <2>4. IsFiniteSet(Asking(w)) BY <1>2, FS_Subset DEF Asking
  <2>5. Cardinality(Asking(x)) <= Cardinality(Asking(w)) BY <2>3, <2>4, FS_Subset
  <2>6. Cardinality(Asking(x)) \in Nat /\ Cardinality(Asking(w)) \in Nat
    BY <2>3, <2>4, FS_Subset, FS_CardinalityType
  <2>7. Admitted(x) BY <1>2, <2>5, <2>6 DEF Admitted
  <2>8. entry' \in [Channels -> EntryType]
    <3>1. w.out[c] \in Groups BY <1>1 DEF LoadType
    <3> QED BY <1>1, <1>10, <3>1 DEF Put, EntryType
  <2> HIDE DEF x
  <2> QED BY <1>1, <1>10, <2>1, <2>2, <2>7, <2>8, LoadStepType DEF Put
<1>11. CASE Join(l)
  <2> DEFINE x == [w EXCEPT !.pc = "done"]
  <2>1. x \in LoadType /\ x.stage = w.stage BY <1>1 DEF LoadType
  <2>2. load' = [load EXCEPT ![l] = x] BY <1>11 DEF Join
  <2> HIDE DEF x
  <2> QED BY <1>1, <1>4, <1>11, <2>1, <2>2, LoadStepType DEF Join
<1>12. CASE Return(l)
  <2>1. Idle \in LoadType /\ Asking(Idle) = {}
    BY DEF Idle, LoadType, Stage, Groups, Asking
  <2>2. Cardinality({}) = 0 BY FS_EmptySet
  <2>3. Admitted(Idle) BY <1>2, <2>1, <2>2 DEF Admitted
  <2> QED BY <1>1, <1>12, <2>1, <2>3, LoadStepType DEF Return
<1> QED BY <1>5, <1>6, <1>7, <1>8, <1>9, <1>10, <1>11, <1>12 DEF LoaderStep

LEMMA NextType == TypeOK /\ FlightInv /\ FlightInv' /\ [Next]_vars => TypeOK'
<1> SUFFICES ASSUME TypeOK, FlightInv, FlightInv', [Next]_vars PROVE TypeOK'
  OBVIOUS
<1>1. ASSUME NEW c \in Channels, Expire(c) PROVE TypeOK'
  <2>1. entry' \in [Channels -> EntryType] BY <1>1 DEF Expire, TypeOK, EntryType
  <2> QED BY <1>1, <2>1, OtherStepType DEF Expire, TypeOK
<1>2. ASSUME NEW c \in Channels, Change(c) PROVE TypeOK'
  <2>1. up' \in [Channels -> Version]
    BY <1>2, CacheAssumption DEF Change, TypeOK, Version
  <2> QED BY <1>2, <2>1, OtherStepType DEF Change, TypeOK, EntryType
<1>3. CASE UNCHANGED vars BY <1>3, OtherStepType DEF vars, TypeOK, EntryType
<1> QED BY <1>1, <1>2, <1>3, RefreshType, CallType DEF Next

\* The cache keeps its types, and a call never has more requests at the upstream than
\* RouteBatchConcurrency (loadGroupsByChannelBlocking), for any sets of channels asked for.
THEOREM TypeCorrect == Spec => []TypeOK
<1>1. TypeOK /\ FlightInv /\ [Next]_vars => (TypeOK /\ FlightInv)' BY NextType, NextFlight
<1> QED BY InitType, InitFlight, <1>1, PTL DEF Spec

-----------------------------------------------------------------------------
(* Known ratios are kept *)

\* "A stale entry still returns its old value": no refresh, scan or expiry makes the
\* gateway forget a channel's ratios; only a blocking load that failed stores nil
\* (refreshChannelGroups, storeChannelGroupsCache).
THEOREM RatiosKept == Spec => RefreshKeepsRatios
<1> DEFINE Lost(c) == entry[c].groups # Nothing /\ entry'[c].groups = Nothing
           ByLoad(c) == \E l \in Loaders : load[l].stage[c] = "put" /\ load'[l].stage[c] = "got"
<1>1. TypeOK /\ [Next]_vars => \A c \in Channels : Lost(c) => ByLoad(c)
  <2> SUFFICES ASSUME TypeOK, [Next]_vars, NEW c \in Channels, Lost(c) PROVE ByLoad(c)
    OBVIOUS
  <2>1. entry \in [Channels -> EntryType] /\ load \in [Loaders -> LoadType]
        /\ task \in [Channels -> [Slots -> Task]]
    BY DEF TypeOK, EntryType, LoadType
  <2>2. ASSUME NEW d \in Channels, NEW s \in Slots, Store(d, s)
        PROVE  entry'[c].groups = entry[c].groups \/ entry'[c].groups # Nothing
    <3>1. CASE c = d BY <2>1, <2>2, <3>1 DEF Store, Refreshed
    <3>2. CASE c # d BY <2>1, <2>2, <3>2 DEF Store
    <3> QED BY <3>1, <3>2
  <2>3. ASSUME NEW l \in Loaders, NEW d \in Channels, Put(l, d)
        PROVE  ByLoad(c)
    <3>1. CASE c = d
      <4>1. load'[l].stage[c] = "got" BY <2>1, <2>3, <3>1 DEF Put, LoadType
      <4> QED BY <2>3, <3>1, <4>1 DEF Put
    <3>2. CASE c # d BY <2>1, <2>3, <3>2 DEF Put
    <3> QED BY <3>1, <3>2
  <2>4. ASSUME NEW l \in Loaders, Invalidate(l) PROVE entry'[c].groups = entry[c].groups
    BY <2>1, <2>4 DEF Invalidate, EntryType
  <2>5. ASSUME NEW d \in Channels, Expire(d) PROVE entry'[c].groups = entry[c].groups
    BY <2>1, <2>5 DEF Expire, EntryType
  <2>6. CASE UNCHANGED entry BY <2>6
  <2> QED BY <2>2, <2>3, <2>4, <2>5, <2>6
      DEF Next, Refresh, LoaderStep, vars, Lookup, Fetch, Release, BeginSave, Split, Admit,
          FetchOne, Join, Return, Change
<1> QED BY <1>1, TypeCorrect, PTL DEF Spec, RefreshKeepsRatios

-----------------------------------------------------------------------------
(* What a scan sees *)

Floor(l, c) == load[l].floor[c]

\* A call expects no more than the upstream offers, and has nothing yet before it splits.
CallInv ==
    \A l \in Loaders, c \in Channels :
        /\ Floor(l, c) <= up[c]
        /\ load[l].pc \in {"idle", "lookup"} => load[l].stage[c] = "out"

\* Whatever may still get into the cache, or is there as fresh, or has been given to the
\* call, is as new as the call expects.
Newer(l, c) ==
    /\ entry[c].fresh => entry[c].groups >= Floor(l, c)
    /\ \A s \in Slots : task[c][s].pc = "store" =>
          task[c][s].groups # Nothing /\ task[c][s].groups >= Floor(l, c)
    /\ \A m \in Loaders : load[m].stage[c] = "put" => load[m].out[c] >= Floor(l, c)
    /\ load[l].stage[c] \in {"hit", "got"} => load[l].out[c] >= Floor(l, c)

NewerInv == \A l \in Loaders, c \in Channels : Newer(l, c)
SeenInv == CallInv /\ (failures = 0 => NewerInv)

\* The types, as facts.
LEMMA CacheTypes ==
    ASSUME TypeOK
    PROVE  /\ up \in [Channels -> Nat] /\ entry \in [Channels -> EntryType]
           /\ load \in [Loaders -> LoadType] /\ task \in [Channels -> [Slots -> Task]]
           /\ failures \in Nat /\ Groups \subseteq Nat
<1>1. Version \subseteq Nat /\ Groups \subseteq Nat
  BY CacheAssumption DEF Version, Groups, Nothing
<1>2. up \in [Channels -> Nat]
  <2>1. up \in [Channels -> Version] BY DEF TypeOK
  <2> QED BY <1>1, <2>1
<1>3. failures \in Nat BY CacheAssumption DEF TypeOK
<1> QED BY <1>1, <1>2, <1>3 DEF TypeOK, EntryType, LoadType

\* Without a failure an answer is what the upstream offers.
LEMMA AnswerIsCurrent ==
    ASSUME TypeOK, NEW c, NEW groups, Returns(c, groups), failures' = 0
    PROVE  failures = 0 /\ groups = up[c]
BY CacheTypes DEF Returns

\* A step of the refresh, or of the clock.
LEMMA RefreshSeen ==
    ASSUME TypeOK, SeenInv,
           \/ \E ids \in Wanted : Lookup(ids)
           \/ \E c \in Channels, s \in Slots : Refresh(c, s)
           \/ \E c \in Channels : Expire(c)
    PROVE  SeenInv'
<1>1. /\ up \in [Channels -> Nat] /\ entry \in [Channels -> EntryType]
      /\ load \in [Loaders -> LoadType] /\ task \in [Channels -> [Slots -> Task]]
      /\ failures \in Nat
  BY CacheTypes
<1>2. up' = up /\ load' = load
  BY DEF Lookup, Refresh, Fetch, Store, Release, Expire
<1>3. CallInv' BY <1>2 DEF SeenInv, CallInv, Floor
<1> SUFFICES ASSUME failures' = 0, NEW l \in Loaders, NEW c \in Channels PROVE Newer(l, c)'
  BY <1>3 DEF SeenInv, NewerInv
<1>4. ASSUME failures = 0
      PROVE  /\ Newer(l, c) /\ Floor(l, c)' = Floor(l, c) /\ Floor(l, c) <= up[c]
             /\ Floor(l, c) \in Nat /\ Nothing = 0
  BY <1>1, <1>2, <1>4, CacheTypes DEF SeenInv, NewerInv, CallInv, Floor, LoadType, Nothing
<1>5. ASSUME NEW ids \in Wanted, Lookup(ids) PROVE Newer(l, c)'
  <2>1. failures = 0 /\ entry' = entry BY <1>5 DEF Lookup
  <2>2. \A s \in Slots : task'[c][s].pc = "store" => task'[c][s] = task[c][s]
    <3> DEFINE begin == [Free EXCEPT !.pc = "fetch"]
    <3>1. task'[c] = [task[c] EXCEPT ![FreeSlot(c)] = begin] \/ task'[c] = task[c]
      BY <1>5 DEF Lookup
    <3>2. begin.pc = "fetch" BY DEF Free
    <3> HIDE DEF begin
    <3> QED BY <1>1, <3>1, <3>2
  <2> QED BY <1>2, <1>4, <2>1, <2>2 DEF Newer
<1>6. ASSUME NEW d \in Channels, NEW s \in Slots, Fetch(d, s) PROVE Newer(l, c)'
  <2>1. PICK groups \in Groups :
           /\ Returns(d, groups)
           /\ task' = [task EXCEPT ![d][s] = [pc |-> "store", groups |-> groups]]
    BY <1>6 DEF Fetch
  <2>2. failures = 0 /\ groups = up[d] /\ entry' = entry
    BY <1>6, <2>1, AnswerIsCurrent DEF Fetch
  <2>3. up[d] # Nothing BY CacheAssumption DEF TypeOK, Version, Nothing
  <2>4. \A x \in Slots : task'[c][x].pc = "store" =>
           task'[c][x] = task[c][x] \/ (c = d /\ task'[c][x].groups = up[c])
    BY <1>1, <2>1, <2>2
  <2> QED BY <1>2, <1>4, <2>2, <2>3, <2>4 DEF Newer
<1>7. ASSUME NEW d \in Channels, NEW s \in Slots, Store(d, s) PROVE Newer(l, c)'
  <2>1. failures = 0 /\ task[d][s].pc = "store" BY <1>7 DEF Store
  <2>2. \A x \in Slots : task'[c][x].pc = "store" => task'[c][x] = task[c][x]
    BY <1>1, <1>7 DEF Store
  <2>3. entry'[c] = entry[c] \/ entry'[c].groups >= Floor(l, c)
    <3>1. CASE c = d
      <4>1. task[c][s].groups # Nothing /\ task[c][s].groups >= Floor(l, c)
        BY <1>4, <2>1, <3>1 DEF Newer
      <4>2. entry'[c].groups = task[c][s].groups
        BY <1>1, <1>7, <3>1, <4>1 DEF Store, Refreshed
      <4> QED BY <4>1, <4>2
    <3>2. CASE c # d BY <1>1, <1>7, <3>2 DEF Store
    <3> QED BY <3>1, <3>2
  <2> QED BY <1>2, <1>4, <2>1, <2>2, <2>3 DEF Newer
<1>8. ASSUME NEW d \in Channels, NEW s \in Slots, Release(d, s) PROVE Newer(l, c)'
  <2>1. failures = 0 /\ entry' = entry BY <1>8 DEF Release
  <2>2. \A x \in Slots : task'[c][x].pc = "store" => task'[c][x] = task[c][x]
    BY <1>1, <1>8 DEF Release, Free
  <2> QED BY <1>2, <1>4, <2>1, <2>2 DEF Newer
<1>9. ASSUME NEW d \in Channels, Expire(d) PROVE Newer(l, c)'
  <2>1. failures = 0 /\ task' = task BY <1>9 DEF Expire
  <2>2. entry'[c] = entry[c] \/ ~entry'[c].fresh BY <1>1, <1>9 DEF Expire, EntryType
  <2> QED BY <1>2, <1>4, <2>1, <2>2 DEF Newer
<1> QED BY <1>5, <1>6, <1>7, <1>8, <1>9 DEF Refresh

\* The upstream only gets newer.
LEMMA ChangeSeen ==
    ASSUME TypeOK, SeenInv, NEW d \in Channels, Change(d) PROVE SeenInv'
<1>1. UNCHANGED <<entry, task, load, failures>> BY DEF Change
<1>2. \A c \in Channels : up'[c] >= up[c] /\ up'[c] \in Nat /\ up[c] \in Nat
  BY CacheTypes DEF Change
<1>3. \A l \in Loaders, c \in Channels : Floor(l, c) \in Nat
  BY CacheTypes DEF Floor, LoadType
<1>4. CallInv'
  <2>1. \A l \in Loaders, c \in Channels : Floor(l, c)' = Floor(l, c) BY <1>1 DEF Floor
  <2>2. \A l \in Loaders, c \in Channels : Floor(l, c) <= up[c] BY DEF SeenInv, CallInv
  <2>3. \A l \in Loaders, c \in Channels : Floor(l, c)' <= up'[c] BY <1>2, <1>3, <2>1, <2>2
  <2> QED BY <1>1, <2>3 DEF SeenInv, CallInv
<1>5. (failures = 0 => NewerInv)' BY <1>1 DEF SeenInv, NewerInv, Newer, Floor
<1> QED BY <1>4, <1>5 DEF SeenInv

\* What a call v may become, w, on a channel: it expects what it did, and what it has was
\* its own, the upstream's, or in the cache as fresh.
Follows(v, w, c) ==
    /\ w.floor[c] = v.floor[c] \/ w.floor[c] = Nothing
    /\ w.pc \in {"idle", "lookup"} => w.stage[c] = "out"
    /\ failures' = 0 =>
          /\ w.stage[c] = "put" => w.out[c] = up[c] \/ (v.stage[c] = "put" /\ w.out[c] = v.out[c])
          /\ w.stage[c] \in {"hit", "got"} =>
                \/ v.stage[c] \in {"hit", "got", "put"} /\ w.out[c] = v.out[c]
                \/ entry[c].fresh /\ w.out[c] = entry[c].groups

\* A step of one call that keeps what it expects.
LEMMA CallFrame ==
    ASSUME TypeOK, SeenInv, NEW l \in Loaders, NEW w \in LoadType,
           load' = [load EXCEPT ![l] = w], up' = up, task' = task,
           failures' = 0 => failures = 0,
           \A c \in Channels : Follows(load[l], w, c),
           \A c \in Channels :
              \/ entry'[c] = entry[c]
              \/ load[l].stage[c] = "put" /\ entry'[c].groups = load[l].out[c]
    PROVE  SeenInv'
<1>1. /\ up \in [Channels -> Nat] /\ entry \in [Channels -> EntryType]
      /\ load \in [Loaders -> LoadType] /\ Groups \subseteq Nat
  BY CacheTypes
<1>2. \A m \in Loaders, c \in Channels :
        /\ Floor(m, c) \in Nat /\ Floor(m, c) <= up[c]
        /\ load[m].pc \in {"idle", "lookup"} => load[m].stage[c] = "out"
        /\ load[m].out[c] \in Nat /\ w.out[c] \in Nat /\ entry[c].groups \in Nat
  <2> SUFFICES ASSUME NEW m \in Loaders, NEW c \in Channels
               PROVE  /\ Floor(m, c) \in Nat /\ load[m].out[c] \in Nat /\ w.out[c] \in Nat
                      /\ entry[c].groups \in Nat
    BY DEF SeenInv, CallInv
  <2>1. load[m] \in LoadType /\ entry[c] \in EntryType BY <1>1
  <2>2. Floor(m, c) \in Groups /\ load[m].out[c] \in Groups /\ w.out[c] \in Groups
    BY <2>1 DEF LoadType, Floor
  <2>3. entry[c].groups \in Groups BY <2>1 DEF EntryType
  <2> QED BY <1>1, <2>2, <2>3
<1>3. load'[l] = w /\ \A m \in Loaders \ {l} : load'[m] = load[m] BY <1>1
<1>4. \A m \in Loaders, c \in Channels :
         Floor(m, c)' \in {Floor(m, c), 0} /\ Floor(m, c)' <= Floor(m, c)
  BY <1>2, <1>3 DEF Floor, Nothing, Follows
<1>5. CallInv'
  <2>1. \A m \in Loaders, c \in Channels : Floor(m, c)' <= up'[c]
    BY <1>1, <1>2, <1>4
  <2>2. \A m \in Loaders, c \in Channels :
           load'[m].pc \in {"idle", "lookup"} => load'[m].stage[c] = "out"
    BY <1>2, <1>3 DEF Follows
  <2> QED BY <2>1, <2>2 DEF CallInv
<1>6. ASSUME failures' = 0, NEW m \in Loaders, NEW c \in Channels PROVE Newer(m, c)'
  <2> DEFINE f == Floor(m, c)
             g == Floor(m, c)'
  <2>1. Newer(m, c) /\ Newer(l, c) BY <1>6 DEF SeenInv, NewerInv
  <2>2. f \in Nat /\ g \in {f, 0} /\ f <= up[c] BY <1>2, <1>4
  <2>3. \A x \in Nat : x >= f => x >= g BY <2>2
  <2>4. entry'[c].fresh => entry'[c].groups >= g
    <3>1. CASE entry'[c] = entry[c] BY <1>2, <2>1, <2>3, <3>1 DEF Newer
    <3>2. CASE load[l].stage[c] = "put" /\ entry'[c].groups = load[l].out[c]
      BY <1>2, <2>1, <2>3, <3>2 DEF Newer
    <3> QED BY <1>6, <3>1, <3>2
  <2>5. \A s \in Slots : task'[c][s].pc = "store" =>
            task'[c][s].groups # Nothing /\ task'[c][s].groups >= g
    <3>1. \A s \in Slots : task[c][s].groups \in Nat BY CacheTypes DEF Task
    <3> QED BY <2>1, <2>3, <3>1 DEF Newer
  <2>6. \A n \in Loaders : load'[n].stage[c] = "put" => load'[n].out[c] >= g
    <3> SUFFICES ASSUME NEW n \in Loaders, load'[n].stage[c] = "put" PROVE load'[n].out[c] >= g
      OBVIOUS
    <3>1. CASE load[n].stage[c] = "put" /\ load'[n].out[c] = load[n].out[c]
      BY <1>2, <2>1, <2>3, <3>1 DEF Newer
    <3>2. CASE load'[n].out[c] = up[c] BY <1>1, <2>2, <2>3, <3>2
    <3> QED BY <1>3, <1>6, <3>1, <3>2 DEF Follows
  <2>7. load'[m].stage[c] \in {"hit", "got"} => load'[m].out[c] >= g
    <3>1. CASE load[m].stage[c] \in {"hit", "got", "put"} /\ load'[m].out[c] = load[m].out[c]
      BY <1>2, <2>1, <2>3, <3>1 DEF Newer
    <3>2. CASE entry[c].fresh /\ load'[m].out[c] = entry[c].groups
      BY <1>2, <2>1, <2>3, <3>2 DEF Newer
    <3> QED BY <1>3, <1>6, <3>1, <3>2 DEF Follows
  <2> QED BY <2>4, <2>5, <2>6, <2>7 DEF Newer
<1> QED BY <1>5, <1>6 DEF SeenInv, NewerInv

\* The steps of one call.
LEMMA CallSeen ==
    ASSUME TypeOK, SeenInv, NEW l \in Loaders, BeginSave(l) \/ LoaderStep(l)
    PROVE  SeenInv'
<1> DEFINE w == load[l]
<1>1. /\ load \in [Loaders -> LoadType] /\ w \in LoadType
      /\ entry \in [Channels -> EntryType] /\ failures \in Nat
      /\ w.pc \in {"idle", "lookup"} => \A c \in Channels : w.stage[c] = "out"
  BY CacheTypes DEF SeenInv, CallInv
<1>2. CASE BeginSave(l)
  <2> DEFINE x == [w EXCEPT !.pc = "lookup"]
  <2>1. load' = [load EXCEPT ![l] = x] /\ w.pc = "idle" /\ UNCHANGED <<up, entry, task, failures>>
    BY <1>2 DEF BeginSave
  <2>2. x \in LoadType /\ x.stage = w.stage /\ x.floor = w.floor /\ x.out = w.out
    BY <1>1 DEF LoadType
  <2> HIDE DEF x, w
  <2>3. \A c \in Channels : Follows(w, x, c) BY <1>1, <2>1, <2>2 DEF Follows
  <2> QED BY <2>1, <2>2, <2>3, CallFrame DEF w
<1>3. CASE Split(l)
  <2>1. PICK ids \in Wanted :
          LET miss == ids \ Hits(ids) IN
          load' = [load EXCEPT ![l] =
            [@ EXCEPT !.pc = IF miss = {} THEN "done" ELSE "fetch",
                      !.out = [c \in Channels |->
                                 IF c \in Hits(ids) THEN entry[c].groups ELSE Nothing],
                      !.stage = [c \in Channels |->
                                   IF c \notin ids THEN "out"
                                   ELSE IF c \notin miss THEN "hit"
                                   ELSE IF Cardinality(miss) = 1 THEN "ask" ELSE "wait"]]]
    BY <1>3 DEF Split
  <2> DEFINE miss == ids \ Hits(ids)
             pc == IF miss = {} THEN "done" ELSE "fetch"
             out == [c \in Channels |-> IF c \in Hits(ids) THEN entry[c].groups ELSE Nothing]
             stage == [c \in Channels |-> IF c \notin ids THEN "out"
                                          ELSE IF c \notin miss THEN "hit"
                                          ELSE IF Cardinality(miss) = 1 THEN "ask" ELSE "wait"]
             x == [w EXCEPT !.pc = pc, !.out = out, !.stage = stage]
  <2>2. load' = [load EXCEPT ![l] = x] BY <2>1
  <2>3. /\ out \in [Channels -> Groups] /\ stage \in [Channels -> Stage]
        /\ pc \in {"fetch", "done"}
    BY <1>1 DEF EntryType, Groups, Stage
  <2>4. \A c \in Channels :
          /\ stage[c] \notin {"put", "got"}
          /\ stage[c] = "hit" => entry[c].fresh /\ out[c] = entry[c].groups
    BY DEF Hits
  <2> HIDE DEF pc, out, stage, miss
  <2>5. /\ x \in LoadType /\ x.stage = stage /\ x.out = out /\ x.floor = w.floor /\ x.pc = pc
    BY <1>1, <2>3 DEF LoadType
  <2>6. UNCHANGED <<up, entry, task, failures>> BY <1>3 DEF Split
  <2> HIDE DEF x, w
  <2>7. \A c \in Channels : Follows(w, x, c) BY <2>3, <2>4, <2>5 DEF Follows
  <2> QED BY <2>2, <2>5, <2>6, <2>7, CallFrame DEF w
<1>4. ASSUME NEW d \in Channels, Admit(l, d) PROVE SeenInv'
  <2> DEFINE x == [w EXCEPT !.stage = [@ EXCEPT ![d] = "ask"]]
  <2>1. load' = [load EXCEPT ![l] = x] /\ w.stage[d] = "wait" BY <1>4 DEF Admit
  <2>2. /\ x \in LoadType /\ x.floor = w.floor /\ x.out = w.out /\ x.pc = w.pc
        /\ x.stage = [w.stage EXCEPT ![d] = "ask"]
    BY <1>1 DEF LoadType, Stage
  <2>3. \A c \in Channels : x.stage[c] = w.stage[c] \/ x.stage[c] = "ask"
    BY <1>1, <2>2 DEF LoadType
  <2>4. UNCHANGED <<up, entry, task, failures>> BY <1>4 DEF Admit
  <2>5. w.pc \notin {"idle", "lookup"} BY <1>1, <2>1
  <2> HIDE DEF x, w
  <2>6. \A c \in Channels : Follows(w, x, c) BY <2>2, <2>3, <2>5 DEF Follows
  <2> QED BY <2>1, <2>2, <2>4, <2>6, CallFrame DEF w
<1>5. ASSUME NEW d \in Channels, FetchOne(l, d) PROVE SeenInv'
  <2>1. PICK groups \in Groups :
           /\ Returns(d, groups)
           /\ load' = [load EXCEPT ![l].stage[d] = "put", ![l].out[d] = groups]
    BY <1>5 DEF FetchOne
  <2> DEFINE x == [w EXCEPT !.stage = [@ EXCEPT ![d] = "put"], !.out = [@ EXCEPT ![d] = groups]]
  <2>2. load' = [load EXCEPT ![l] = x] /\ w.stage[d] = "ask"
    BY <1>1, <1>5, <2>1 DEF LoadType, FetchOne
  <2>3. /\ x \in LoadType /\ x.floor = w.floor /\ x.pc = w.pc
        /\ x.stage = [w.stage EXCEPT ![d] = "put"] /\ x.out = [w.out EXCEPT ![d] = groups]
    BY <1>1 DEF LoadType, Stage
  <2>4. /\ x.stage[d] = "put" /\ x.out[d] = groups
        /\ \A c \in Channels \ {d} : x.stage[c] = w.stage[c] /\ x.out[c] = w.out[c]
    BY <1>1, <2>3 DEF LoadType
  <2>5. up' = up /\ entry' = entry /\ task' = task BY <1>5 DEF FetchOne
  <2>6. failures' = 0 => failures = 0 /\ groups = up[d] BY <2>1, AnswerIsCurrent
  <2>7. w.pc \notin {"idle", "lookup"} BY <1>1, <2>2
  <2> HIDE DEF x, w
  <2>8. \A c \in Channels : Follows(w, x, c)
    <3> SUFFICES ASSUME NEW c \in Channels PROVE Follows(w, x, c) OBVIOUS
    <3>1. CASE c = d BY <2>3, <2>4, <2>6, <2>7, <3>1 DEF Follows
    <3>2. CASE c # d BY <2>3, <2>4, <2>7, <3>2 DEF Follows
    <3> QED BY <3>1, <3>2
  <2> QED BY <2>2, <2>3, <2>5, <2>6, <2>8, CallFrame DEF w
<1>6. ASSUME NEW d \in Channels, Put(l, d) PROVE SeenInv'
  <2> DEFINE x == [w EXCEPT !.stage = [@ EXCEPT ![d] = "got"]]
  <2>1. load' = [load EXCEPT ![l] = x] /\ w.stage[d] = "put" BY <1>6 DEF Put
  <2>2. /\ x \in LoadType /\ x.floor = w.floor /\ x.out = w.out /\ x.pc = w.pc
        /\ x.stage = [w.stage EXCEPT ![d] = "got"]
    BY <1>1 DEF LoadType, Stage
  <2>3. \A c \in Channels \ {d} : x.stage[c] = w.stage[c] /\ entry'[c] = entry[c]
    BY <1>1, <1>6, <2>2 DEF LoadType, Put
  <2>4. x.stage[d] = "got" /\ entry'[d].groups = w.out[d]
    BY <1>1, <1>6, <2>2 DEF LoadType, Put
  <2>5. up' = up /\ task' = task /\ failures' = failures BY <1>6 DEF Put
  <2>6. w.pc \notin {"idle", "lookup"} BY <1>1, <2>1
  <2> HIDE DEF x, w
  <2>7. \A c \in Channels : Follows(w, x, c)
    <3> SUFFICES ASSUME NEW c \in Channels PROVE Follows(w, x, c) OBVIOUS
    <3>1. CASE c = d BY <2>1, <2>2, <2>4, <2>6, <3>1 DEF Follows
    <3>2. CASE c # d BY <2>2, <2>3, <2>6, <3>2 DEF Follows
    <3> QED BY <3>1, <3>2
  <2>8. \A c \in Channels :
           entry'[c] = entry[c] \/ (w.stage[c] = "put" /\ entry'[c].groups = w.out[c])
    BY <2>1, <2>3, <2>4
  <2> QED BY <2>1, <2>2, <2>5, <2>7, <2>8, CallFrame DEF w
<1>7. CASE Join(l)
  <2> DEFINE x == [w EXCEPT !.pc = "done"]
  <2>1. load' = [load EXCEPT ![l] = x] /\ \A c \in Channels : w.stage[c] # "put"
    BY <1>7 DEF Join, At
  <2>2. x \in LoadType /\ x.stage = w.stage /\ x.floor = w.floor /\ x.out = w.out /\ x.pc = "done"
    BY <1>1 DEF LoadType
  <2>3. UNCHANGED <<up, entry, task, failures>> BY <1>7 DEF Join
  <2> HIDE DEF x, w
  <2>4. \A c \in Channels : Follows(w, x, c) BY <2>1, <2>2 DEF Follows
  <2> QED BY <2>1, <2>2, <2>3, <2>4, CallFrame DEF w
<1>8. CASE Return(l)
  <2>1. /\ Idle \in LoadType
        /\ \A c \in Channels : Idle.stage[c] = "out" /\ Idle.floor[c] = Nothing
    BY DEF Idle, LoadType, Stage, Groups
  <2>2. load' = [load EXCEPT ![l] = Idle] /\ UNCHANGED <<up, entry, task, failures>>
    BY <1>8 DEF Return
  <2> HIDE DEF w
  <2>3. \A c \in Channels : Follows(w, Idle, c) BY <2>1 DEF Follows
  <2> QED BY <2>1, <2>2, <2>3, CallFrame DEF w
<1> QED BY <1>2, <1>3, <1>4, <1>5, <1>6, <1>7, <1>8 DEF LoaderStep

\* A scan starts: nothing is fresh any more, and nothing older is on its way to a channel
\* of which the scan expects anything.
LEMMA InvalidateSeen ==
    ASSUME TypeOK, SeenInv, NEW l \in Loaders, Invalidate(l) PROVE SeenInv'
<1> DEFINE w == load[l]
           f == [c \in Channels |-> IF InHand(c) THEN Nothing ELSE up[c]]
           x == [w EXCEPT !.pc = "lookup", !.floor = f]
<1>1. /\ up \in [Channels -> Nat] /\ entry \in [Channels -> EntryType]
      /\ load \in [Loaders -> LoadType] /\ task \in [Channels -> [Slots -> Task]]
      /\ Groups \subseteq Nat
  BY CacheTypes
<1>2. load' = [load EXCEPT ![l] = x] /\ w.pc = "idle" /\ UNCHANGED <<up, task, failures>>
  BY DEF Invalidate
<1>3. \A c \in Channels : ~entry'[c].fresh BY <1>1 DEF Invalidate, EntryType
<1>4. \A c \in Channels : f[c] = (IF InHand(c) THEN Nothing ELSE up[c]) OBVIOUS
<1> HIDE DEF f
<1>5. x.floor = f /\ x.stage = w.stage /\ x.out = w.out /\ x.pc = "lookup"
  BY <1>1 DEF LoadType
<1> HIDE DEF x
<1>6. load'[l] = x /\ \A m \in Loaders \ {l} : load'[m] = load[m] BY <1>1, <1>2
<1>7. \A c \in Channels : w.stage[c] = "out" BY <1>2 DEF SeenInv, CallInv
<1>8. \A m \in Loaders : load'[m].stage = load[m].stage /\ load'[m].out = load[m].out
  BY <1>5, <1>6
<1>9. CallInv'
  <2>1. \A c \in Channels : f[c] <= up[c] BY <1>1, <1>4 DEF Nothing
  <2>2. \A m \in Loaders, c \in Channels : Floor(m, c)' <= up'[c]
    BY <1>2, <1>5, <1>6, <2>1 DEF SeenInv, CallInv, Floor
  <2> QED BY <1>5, <1>6, <1>7, <2>2 DEF SeenInv, CallInv
<1>10. ASSUME failures' = 0, NEW m \in Loaders, NEW c \in Channels PROVE Newer(m, c)'
  <2>1. Newer(m, c) BY <1>2, <1>10 DEF SeenInv, NewerInv
  <2>2. CASE m # l
    <3>1. Floor(m, c)' = Floor(m, c) BY <1>6, <2>2 DEF Floor
    <3> QED BY <1>2, <1>3, <1>8, <2>1, <3>1 DEF Newer
  <2>3. CASE m = l
    <3>1. Floor(m, c)' = f[c] /\ load'[m].stage[c] = "out"
      BY <1>5, <1>6, <1>7, <2>3 DEF Floor
    <3>2. CASE InHand(c)
      <4>1. f[c] = 0 BY <1>4, <3>2 DEF Nothing
      <4>2. \A n \in Loaders : load'[n].out[c] >= 0
        <5> SUFFICES ASSUME NEW n \in Loaders PROVE load[n].out[c] >= 0
          BY <1>8
        <5>1. load[n] \in LoadType BY <1>1
        <5>2. load[n].out[c] \in Groups BY <5>1 DEF LoadType
        <5>3. \A y \in Nat : y >= 0 OBVIOUS
        <5> QED BY <1>1, <5>2, <5>3
      <4>3. \A s \in Slots : task[c][s].pc = "store" =>
               task[c][s].groups # Nothing /\ task[c][s].groups >= 0
        <5>1. \A s \in Slots : task[c][s].groups \in Nat BY <1>1 DEF Task
        <5> QED BY <2>1, <5>1 DEF Newer
      <4> QED BY <1>2, <1>3, <3>1, <4>1, <4>2, <4>3 DEF Newer
    <3>3. CASE ~InHand(c)
      BY <1>2, <1>3, <1>8, <3>1, <3>3 DEF Newer, InHand
    <3> QED BY <3>2, <3>3
  <2> QED BY <2>2, <2>3
<1> QED BY <1>9, <1>10 DEF SeenInv, NewerInv

\* "Synchronous paths fetch the ratios after the scan": what a scan reorders routes by is no
\* older than the scan's own invalidation, unless an upstream call failed or another fetch was
\* under way when it began (reorderGatewayRoutes), with any number of callers and refreshes.
THEOREM ResortIsCurrent == Spec => []ResortSeesScan
<1>1. Init => SeenInv
  <2>1. 0 <= 1 OBVIOUS
  <2> QED BY <2>1 DEF Init, SeenInv, CallInv, NewerInv, Newer, Floor, Idle, Free, Nothing
<1>2. TypeOK /\ SeenInv /\ [Next]_vars => SeenInv'
  <2>1. UNCHANGED vars /\ SeenInv => SeenInv'
    BY DEF vars, SeenInv, CallInv, NewerInv, Newer, Floor
  <2> QED BY <2>1, RefreshSeen, ChangeSeen, CallSeen, InvalidateSeen DEF Next
<1>3. SeenInv => ResortSeesScan
  BY DEF SeenInv, NewerInv, Newer, Floor, ResortSeesScan, At
<1> QED BY <1>1, <1>2, <1>3, TypeCorrect, PTL DEF Spec

-----------------------------------------------------------------------------
(* The upstream keys of a channel, for any routes, groups, goroutines and   *)
(* calls of EnsureRouteKeys, overlapping or not.  KeysInv: as long as no    *)
(* route moves, a key is only ever taken by routes of one source group.     *)
(* CountInv: the keys that have a name, or that a goroutine is about to     *)
(* give it, and the calls about to create one, are together no more than    *)
(* the calls that have been at the name at a time.  A goroutine adds to     *)
(* them only when it has found no key of the name, and then each of them    *)
(* is the doing of another call that is at the name now.                    *)

\* The instance counts as the library does.
LEMMA EnsureCounts == ASSUME NEW S PROVE Ensure!Cardinality(S) = Cardinality(S)
BY DEF Ensure!Cardinality, Cardinality

LEMMA EnsureFinite == ASSUME NEW S PROVE Ensure!IsFiniteSet(S) <=> IsFiniteSet(S)
BY DEF Ensure!IsFiniteSet, IsFiniteSet

Ids == Ensure!KeyIds \cup {Ensure!NoKey}
KeyRow == [name : SourceGroups \cup Routes, group : SourceGroups]
RouteRow == [group : SourceGroups, key : Ids, name : SourceGroups \cup Routes]
Holding(ids) == [pc : Ensure!Stages, group : SourceGroups \cup {Ensure!Done.group}, key : ids,
                 old : SourceGroups \cup Routes \cup {Ensure!NoKey}, found : ids]
Goroutine == Holding(Ids)

Types ==
    /\ Ensure!KeyIds = 1..Cardinality(Ensure!KeyIds) /\ Cardinality(Ensure!KeyIds) \in Nat
    /\ remote \in [Ensure!KeyIds -> KeyRow]
    /\ bound \in [Routes -> RouteRow]
    /\ work \in [Calls -> [Routes -> Goroutine]]
    /\ running \in SUBSET Calls
    /\ begun \in 0..MaxCalls /\ edits \in 0..MaxEdits /\ errors \in 0..MaxErrors

\* The names a key of route rt in group g may have: its own of old, or the stable one.
Own(rt, g, k) == k \in Ensure!KeyIds /\ remote[k].name \in {rt, g}

\* A goroutine w of route rt may rely on what it has found.
Relies(w) ==
    /\ w.pc # "done" => w.group \in SourceGroups
    /\ w.pc \in {"update", "reveal", "bind"} => w.found \in Ensure!KeyIds

\* Its keys are the route's or the group's, as long as no route moves.
Stays(rt, w) ==
    w.pc # "done" =>
        /\ w.group = bound[rt].group
        /\ w.old \in {rt, w.group}
        /\ w.key # Ensure!NoKey => Own(rt, w.group, w.key)
        /\ w.pc = "update" => Own(rt, w.group, w.found)
        /\ w.pc \in {"reveal", "bind"} => remote[w.found].name = w.group

\* And so are the keys the routes are given.
Given(rt) ==
    /\ bound[rt].name \in {rt, bound[rt].group}
    /\ bound[rt].key # Ensure!NoKey => Own(rt, bound[rt].group, bound[rt].key)
    /\ bound[rt].name \in SourceGroups =>
          bound[rt].key # Ensure!NoKey /\ remote[bound[rt].key].name = bound[rt].group

KeysMatch == \A k \in Ensure!KeyIds : remote[k].name \in SourceGroups => remote[k].group = remote[k].name

\* The mutex of a name.
Mutex ==
    \A c \in Calls, a, b \in Routes :
        /\ work[c][a].pc \in Ensure!Critical /\ work[c][b].pc \in Ensure!Critical
        /\ work[c][a].group = work[c][b].group
        => a = b

KeysInv ==
    /\ Types /\ Mutex /\ KeysMatch
    /\ \A c \in Calls, rt \in Routes : Relies(work[c][rt])
    /\ edits = 0 => /\ \A rt \in Routes : Given(rt)
                    /\ \A c \in Calls, rt \in Routes : Stays(rt, work[c][rt])

-----------------------------------------------------------------------------
(* Steps of one goroutine *)

\* One that leaves keys and routes as they are.
LEMMA MoveStep ==
    ASSUME KeysInv, NEW c \in Calls, NEW rt \in Routes, NEW v \in Goroutine,
           work' = [work EXCEPT ![c][rt] = v],
           UNCHANGED <<remote, bound, running, begun, edits>>, errors' \in 0..MaxErrors,
           Relies(v), edits = 0 => Stays(rt, v),
           v.pc \in Ensure!Critical => \/ v.group = work[c][rt].group /\ work[c][rt].pc \in Ensure!Critical
                                \/ \A x \in Ensure!At(c, Ensure!Critical) : work[c][x].group # v.group
    PROVE  KeysInv'
<1>1. work \in [Calls -> [Routes -> Goroutine]] BY DEF KeysInv, Types
<1>2. /\ work' \in [Calls -> [Routes -> Goroutine]] /\ work'[c][rt] = v
      /\ \A d \in Calls, x \in Routes : d # c \/ x # rt => work'[d][x] = work[d][x]
  BY <1>1
<1>3. Types'
  BY <1>2 DEF KeysInv, Types, Ensure!KeyIds, Ids, KeyRow, RouteRow, Goroutine, Holding
<1>4. Mutex'
  <2> SUFFICES ASSUME NEW d \in Calls, NEW a \in Routes, NEW b \in Routes,
                      work'[d][a].pc \in Ensure!Critical, work'[d][b].pc \in Ensure!Critical,
                      work'[d][a].group = work'[d][b].group
               PROVE  a = b
    BY DEF Mutex
  <2>1. CASE d # c BY <1>2, <2>1 DEF KeysInv, Mutex
  <2>2. CASE d = c /\ a # rt /\ b # rt BY <1>2, <2>2 DEF KeysInv, Mutex
  <2>3. CASE d = c /\ a = rt /\ b # rt
    <3>1. work'[c][a] = v /\ work'[c][b] = work[c][b] /\ b \in Ensure!At(c, Ensure!Critical)
      BY <1>2, <2>3 DEF Ensure!At
    <3> QED BY <2>3, <3>1 DEF KeysInv, Mutex
  <2>4. CASE d = c /\ a # rt /\ b = rt
    <3>1. work'[c][b] = v /\ work'[c][a] = work[c][a] /\ a \in Ensure!At(c, Ensure!Critical)
      BY <1>2, <2>4 DEF Ensure!At
    <3> QED BY <2>4, <3>1 DEF KeysInv, Mutex
  <2> QED BY <2>1, <2>2, <2>3, <2>4
<1>5. KeysMatch' BY DEF KeysInv, KeysMatch, Ensure!KeyIds
<1>6. \A d \in Calls, x \in Routes : Relies(work[d][x])'
  BY <1>2 DEF KeysInv, Relies, Ensure!Named, Ensure!KeyIds
<1>7. edits' = 0 => \A x \in Routes : Given(x)' BY DEF KeysInv, Given, Own, Ensure!KeyIds
<1>8. edits' = 0 => \A d \in Calls, x \in Routes : Stays(x, work[d][x])'
  <2> SUFFICES ASSUME edits = 0, NEW d \in Calls, NEW x \in Routes
               PROVE  Stays(x, work[d][x])'
    OBVIOUS
  <2>1. Stays(x, work[d][x]) /\ ((d = c /\ x = rt) => Stays(x, v))
    BY DEF KeysInv
  <2>2. Stays(x, work'[d][x]) BY <1>2, <2>1
  <2> QED BY <2>2 DEF Stays, Own, Ensure!KeyIds
<1> QED BY <1>3, <1>4, <1>5, <1>6, <1>7, <1>8 DEF KeysInv

\* One that gives a key, id, the name and the group of its route: an old key, or a new one.
LEMMA KeyStep ==
    ASSUME Ensure!EnsureAssumption, KeysInv,
           NEW c \in Calls, NEW rt \in Routes, NEW w, w = work[c][rt],
           NEW id, NEW v \in Holding(Ids \cup {id}),
           w.pc \in Ensure!Critical, w.group \in SourceGroups,
           \/ id \in Ensure!KeyIds /\ (edits = 0 => remote[id].name \in {rt, w.group})
           \/ id = Ensure!NewId,
           remote' = [k \in Ensure!KeyIds \cup {id} |-> IF k = id THEN Ensure!Ensured(w) ELSE remote[k]],
           work' = [work EXCEPT ![c][rt] = v],
           \/ v.pc = "done"
           \/ /\ v.pc = "reveal" /\ v.found = id
              /\ v.group = w.group /\ v.key = w.key /\ v.old = w.old,
           UNCHANGED <<bound, running, begun, edits>>, errors' \in 0..MaxErrors
    PROVE  KeysInv'
<1> DEFINE g == w.group
<1>1. /\ work \in [Calls -> [Routes -> Goroutine]] /\ bound \in [Routes -> RouteRow]
      /\ remote \in [Ensure!KeyIds -> KeyRow] /\ w = work[c][rt]
  BY DEF KeysInv, Types
<1>2. /\ work'[c][rt] = v
      /\ \A d \in Calls, x \in Routes : d # c \/ x # rt => work'[d][x] = work[d][x]
  BY <1>1
<1>3. /\ Ensure!KeyIds' = Ensure!KeyIds \cup {id} /\ remote'[id] = Ensure!Ensured(w)
      /\ \A k \in Ensure!KeyIds \ {id} : remote'[k] = remote[k]
  BY DEF Ensure!KeyIds
<1>4. Ensure!Ensured(w) \in KeyRow /\ Ensure!Ensured(w).name = g /\ Ensure!Ensured(w).group = g
  BY DEF Ensure!Ensured, KeyRow
<1>5. /\ id \notin Ensure!KeyIds => id = Ensure!NewId
      /\ Ensure!KeyIds' = 1..Cardinality(Ensure!KeyIds') /\ Cardinality(Ensure!KeyIds') \in Nat
  <2> DEFINE n == Cardinality(Ensure!KeyIds)
  <2>1. Ensure!KeyIds = 1..n /\ n \in Nat BY DEF KeysInv, Types
  <2>2. CASE id \in Ensure!KeyIds
    <3>1. Ensure!KeyIds' = Ensure!KeyIds BY <1>3, <2>2
    <3> QED BY <2>1, <2>2, <3>1
  <2>3. CASE id \notin Ensure!KeyIds
    <3>1. id = n + 1 BY <2>3, EnsureCounts DEF Ensure!NewId
    <3> HIDE DEF n
    <3>2. Ensure!KeyIds' = 1..n + 1 BY <1>3, <2>1, <3>1
    <3>3. Cardinality(1..n + 1) = n + 1
      <4>1. 1 \in Int /\ n + 1 \in Int /\ ~(1 > n + 1) /\ (n + 1) - 1 + 1 = n + 1 BY <2>1
      <4> QED BY <4>1, FS_Interval
    <3> QED BY <2>1, <2>3, <3>1, <3>2, <3>3 DEF n
  <2> QED BY <2>2, <2>3
<1>6. Ids \subseteq Ids' /\ Ids' = Ids \cup {id} BY <1>3 DEF Ids
<1>7. Types'
  <2>1. remote' \in [Ensure!KeyIds' -> KeyRow] BY <1>1, <1>3, <1>4
  <2>2. RouteRow \subseteq RouteRow' BY <1>6 DEF RouteRow
  <2>3. bound' \in [Routes -> RouteRow'] BY <1>1, <2>2
  <2>4. Goroutine \subseteq Goroutine' /\ v \in Goroutine' BY <1>6 DEF Goroutine, Holding
  <2>5. work \in [Calls -> [Routes -> Goroutine']] BY <1>1, <2>4
  <2>6. work' \in [Calls -> [Routes -> Goroutine']] BY <2>4, <2>5
  <2> QED BY <1>5, <2>1, <2>3, <2>6 DEF KeysInv, Types, KeyRow
<1>9. Mutex'
  <2>1. v.pc \in Ensure!Critical => v.group = g BY DEF Ensure!Critical
  <2>2. \A x \in Routes : work[c][x].pc \in Ensure!Critical /\ work[c][x].group = g => x = rt
    BY <1>1 DEF KeysInv, Mutex
  <2> SUFFICES ASSUME NEW d \in Calls, NEW a \in Routes, NEW b \in Routes,
                      work'[d][a].pc \in Ensure!Critical, work'[d][b].pc \in Ensure!Critical,
                      work'[d][a].group = work'[d][b].group
               PROVE  a = b
    BY DEF Mutex
  <2>3. CASE d # c \/ (a # rt /\ b # rt) BY <1>2, <2>3 DEF KeysInv, Mutex
  <2>4. CASE d = c /\ a = rt /\ b # rt
    <3>1. v.group = g /\ work[c][b].pc \in Ensure!Critical /\ work[c][b].group = g
      BY <1>2, <2>1, <2>4
    <3> QED BY <2>2, <2>4, <3>1
  <2>5. CASE d = c /\ a # rt /\ b = rt
    <3>1. v.group = g /\ work[c][a].pc \in Ensure!Critical /\ work[c][a].group = g
      BY <1>2, <2>1, <2>5
    <3> QED BY <2>2, <2>5, <3>1
  <2> QED BY <2>3, <2>4, <2>5
<1>11. KeysMatch' BY <1>3, <1>4 DEF KeysInv, KeysMatch
<1>12. ASSUME NEW d \in Calls, NEW x \in Routes PROVE Relies(work[d][x])'
  <2>1. CASE d = c /\ x = rt
    <3>1. v.pc # "done" => v.group \in SourceGroups /\ v.found \in Ensure!KeyIds' BY <1>3
    <3> QED BY <1>2, <2>1, <3>1 DEF Relies
  <2>2. CASE d # c \/ x # rt
    <3>1. work'[d][x] = work[d][x] /\ Relies(work[d][x]) BY <1>2, <2>2 DEF KeysInv
    <3> QED BY <1>3, <3>1 DEF Relies
  <2> QED BY <2>1, <2>2
<1>13. ASSUME edits' = 0
       PROVE  /\ \A x \in Routes : Given(x)'
              /\ \A d \in Calls, x \in Routes : Stays(x, work[d][x])'
  <2>1. /\ \A x \in Routes : Given(x)
        /\ \A d \in Calls, x \in Routes : Stays(x, work[d][x])
    BY <1>13 DEF KeysInv
  <2>2. \A x \in Routes : bound[x].group \in SourceGroups BY <1>1 DEF RouteRow
  <2>3. g = bound[rt].group BY <1>1, <2>1 DEF Stays, Ensure!Critical
  <2>4. ASSUME NEW x \in Routes, NEW k, Own(x, bound[x].group, k)
        PROVE  /\ k \in Ensure!KeyIds' /\ remote'[k].name \in {x, bound[x].group}
               /\ remote[k].name = bound[x].group => remote'[k].name = bound[x].group
    <3>1. k \in Ensure!KeyIds /\ k \in Ensure!KeyIds' /\ remote[k].name \in {x, bound[x].group}
      BY <1>3, <2>4 DEF Own
    <3>2. CASE k # id BY <1>3, <3>1, <3>2
    <3>3. CASE k = id
      <4>1. id # Ensure!NewId
        <5> DEFINE n == Cardinality(Ensure!KeyIds)
        <5>1. Ensure!KeyIds = 1..n /\ n \in Nat BY DEF KeysInv, Types
        <5>2. Ensure!NewId = n + 1 BY EnsureCounts DEF Ensure!NewId
        <5> HIDE DEF n
        <5> QED BY <3>1, <3>3, <5>1, <5>2
      <4>2. remote[k].name \in {rt, g} BY <1>13, <3>3, <4>1
      <4>3. SourceGroups \cap Routes = {} BY DEF Ensure!EnsureAssumption
      <4>4. bound[x].group = g BY <2>2, <2>3, <3>1, <4>2, <4>3
      <4>5. remote'[k].name = g BY <1>3, <1>4, <3>3
      <4> QED BY <3>1, <4>4, <4>5
    <3> QED BY <3>2, <3>3
  <2>5. ASSUME NEW x \in Routes PROVE Given(x)'
    <3>1. Given(x) /\ bound' = bound BY <2>1
    <3>2. bound[x].key # Ensure!NoKey => Own(x, bound[x].group, bound[x].key) BY <3>1 DEF Given
    <3>3. bound[x].key # Ensure!NoKey =>
            bound[x].key \in Ensure!KeyIds' /\ remote'[bound[x].key].name \in {x, bound[x].group}
      BY <2>4, <3>2
    <3>4. bound[x].name \in SourceGroups => bound[x].key # Ensure!NoKey /\ remote'[bound[x].key].name = bound[x].group
      BY <2>4, <3>1, <3>2 DEF Given
    <3> QED BY <3>1, <3>3, <3>4 DEF Given, Own
  <2>6. ASSUME NEW d \in Calls, NEW x \in Routes PROVE Stays(x, work[d][x])'
    <3>1. bound' = bound OBVIOUS
    <3>2. CASE d # c \/ x # rt
      <4> DEFINE y == work[d][x]
      <4>1. work'[d][x] = y /\ Stays(x, y) BY <1>2, <2>1, <3>2
      <4> HIDE DEF y
      <4>2. y.pc # "done" =>
              /\ y.group = bound[x].group /\ y.old \in {x, y.group}
              /\ y.key # Ensure!NoKey => Own(x, bound[x].group, y.key)
              /\ y.pc = "update" => Own(x, bound[x].group, y.found)
              /\ y.pc \in {"reveal", "bind"} => remote[y.found].name = bound[x].group
        BY <4>1 DEF Stays
      <4>3. y.pc \in {"reveal", "bind"} => y.found \in Ensure!KeyIds
        BY <1>2 DEF y, KeysInv, Relies
      <4>4. y.pc \in {"reveal", "bind"} => Own(x, bound[x].group, y.found)
        BY <4>2, <4>3 DEF Own
      <4>5. y.pc # "done" =>
              /\ y.key # Ensure!NoKey =>
                    y.key \in Ensure!KeyIds' /\ remote'[y.key].name \in {x, bound[x].group}
              /\ y.pc = "update" =>
                    y.found \in Ensure!KeyIds' /\ remote'[y.found].name \in {x, bound[x].group}
              /\ y.pc \in {"reveal", "bind"} => remote'[y.found].name = bound[x].group
        BY <2>4, <4>2, <4>4
      <4> QED BY <3>1, <4>1, <4>2, <4>5 DEF Stays, Own
    <3>3. CASE d = c /\ x = rt
      <4>1. work'[d][x] = v /\ Stays(rt, w) BY <1>1, <1>2, <2>1, <3>3
      <4>2. w.pc # "done" BY DEF Ensure!Critical
      <4>3. /\ w.group = bound[rt].group /\ w.old \in {rt, w.group}
            /\ w.key # Ensure!NoKey => Own(rt, bound[rt].group, w.key)
        BY <4>1, <4>2 DEF Stays
      <4>4. w.key # Ensure!NoKey => w.key \in Ensure!KeyIds' /\ remote'[w.key].name \in {rt, w.group}
        BY <2>4, <4>3
      <4>5. remote'[id].name = g BY <1>3, <1>4
      <4> QED BY <3>1, <3>3, <4>1, <4>3, <4>4, <4>5 DEF Stays, Own
    <3> QED BY <3>2, <3>3
  <2> QED BY <2>5, <2>6
<1> QED BY <1>7, <1>9, <1>11, <1>12, <1>13 DEF KeysInv

\* What the stages of a goroutine mean for what it relies on.
LEMMA StageFacts ==
    ASSUME KeysInv, NEW c \in Calls, NEW rt \in Routes
    PROVE  /\ work \in [Calls -> [Routes -> Goroutine]] /\ work[c][rt] \in Goroutine
           /\ Relies(work[c][rt]) /\ (edits = 0 => Stays(rt, work[c][rt]))
           /\ errors \in 0..MaxErrors /\ bound[rt] \in RouteRow
           /\ bound \in [Routes -> RouteRow] /\ remote \in [Ensure!KeyIds -> KeyRow]
           /\ Ensure!Done \in Goroutine /\ Ensure!Done.pc = "done"
BY DEF KeysInv, Types, Ensure!Done, Goroutine, Holding, Ensure!Stages, Ids

LEMMA DoneIsFine == ASSUME NEW rt PROVE Relies(Ensure!Done) /\ Stays(rt, Ensure!Done)
BY DEF Relies, Stays, Ensure!Done

\* Stages in which nothing is looked up.
LEMMA PassStep ==
    ASSUME KeysInv, NEW c \in Calls, NEW rt \in Routes, NEW stage \in Ensure!Stages,
           Ensure!Moves(c, rt, stage),
           UNCHANGED <<remote, bound, running, begun, edits, errors>>,
           LET w == work[c][rt] IN
           /\ stage \notin {"update", "create"}
           /\ w.pc = "done" => stage = "done"
           /\ stage = "reveal" => w.pc = "reveal"
           /\ stage = "bind" => w.pc \in {"reveal", "bind"}
           /\ stage \in Ensure!Critical => w.pc \in Ensure!Critical \/ ~Ensure!Locked(c, rt)
    PROVE  KeysInv'
<1> DEFINE w == work[c][rt]
           v == [w EXCEPT !.pc = stage]
<1>1. /\ work \in [Calls -> [Routes -> Goroutine]] /\ w \in Goroutine
      /\ Relies(w) /\ (edits = 0 => Stays(rt, w)) /\ errors \in 0..MaxErrors
  BY StageFacts
<1>2. work' = [work EXCEPT ![c][rt] = v] BY <1>1 DEF Ensure!Moves
<1>3. /\ v \in Goroutine /\ v.pc = stage /\ v.group = w.group /\ v.key = w.key
      /\ v.old = w.old /\ v.found = w.found
  BY <1>1 DEF Goroutine, Holding
<1> HIDE DEF v
<1>4. Relies(v)
  <2>1. v.pc # "done" => w.pc # "done" BY <1>3
  <2> QED BY <1>1, <1>3, <2>1 DEF Relies
<1>5. edits = 0 => Stays(rt, v)
  <2>1. v.pc # "done" => w.pc # "done" BY <1>3
  <2> QED BY <1>1, <1>3, <2>1 DEF Stays
<1>6. v.pc \in Ensure!Critical => \/ v.group = w.group /\ w.pc \in Ensure!Critical
                           \/ \A x \in Ensure!At(c, Ensure!Critical) : work[c][x].group # v.group
  BY <1>3 DEF Ensure!Locked
<1> QED BY <1>1, <1>2, <1>3, <1>4, <1>5, <1>6, MoveStep

\* A search finds the only key of the name, or one of the route's own.
LEMMA FindStep ==
    ASSUME Ensure!EnsureAssumption, KeysInv, NEW c \in Calls, NEW rt \in Routes,
           work[c][rt].pc \in {"search", "list"}, NEW k \in Ensure!Match(work[c][rt]),
           work[c][rt].pc = "search" => k \in Ensure!Named(work[c][rt].group),
           Ensure!Finds(c, rt, k, "update"),
           UNCHANGED <<remote, bound, running, begun, edits, errors>>
    PROVE  KeysInv'
<1> DEFINE w == work[c][rt]
           v == [w EXCEPT !.pc = "update", !.found = k]
<1>1. /\ work \in [Calls -> [Routes -> Goroutine]] /\ w \in Goroutine
      /\ Relies(w) /\ (edits = 0 => Stays(rt, w)) /\ errors \in 0..MaxErrors
  BY StageFacts
<1>2. work' = [work EXCEPT ![c][rt] = v] BY <1>1 DEF Ensure!Finds
<1>3. k \in Ensure!KeyIds BY DEF Ensure!Match, Ensure!Named
<1>4. /\ v \in Goroutine /\ v.pc = "update" /\ v.group = w.group /\ v.key = w.key
      /\ v.old = w.old /\ v.found = k
  BY <1>1, <1>3 DEF Goroutine, Holding, Ensure!Stages, Ids
<1>5. w.group \in SourceGroups BY <1>1 DEF Relies
<1>7. edits = 0 => Own(rt, w.group, k)
  <2> SUFFICES ASSUME edits = 0 PROVE remote[k].name \in {rt, w.group}
    BY <1>3 DEF Own
  <2>1. /\ w.old \in {rt, w.group}
        /\ w.key # Ensure!NoKey => Own(rt, w.group, w.key)
    BY <1>1 DEF Stays
  <2>2. Ensure!NoKey \notin Ensure!KeyIds BY DEF KeysInv, Types, Ensure!NoKey
  <2>3. \/ k \in Ensure!Named(w.group)
        \/ k = w.key
        \/ k \in Ensure!Named(w.old)
    BY DEF Ensure!Match
  <2> QED BY <1>3, <2>1, <2>2, <2>3 DEF Ensure!Named, Own
<1> HIDE DEF v
<1>8. Relies(v) BY <1>3, <1>4, <1>5 DEF Relies
<1>9. edits = 0 => Stays(rt, v) BY <1>1, <1>4, <1>7 DEF Stays
<1>10. v.group = w.group /\ w.pc \in Ensure!Critical BY <1>4 DEF Ensure!Critical
<1> QED BY <1>1, <1>2, <1>4, <1>8, <1>9, <1>10, MoveStep

LEMMA SearchStep ==
    ASSUME Ensure!EnsureAssumption, KeysInv, NEW c \in Calls, NEW rt \in Routes,
           Ensure!Search(c, rt) \/ Ensure!ListAll(c, rt)
    PROVE  KeysInv'
<1> DEFINE w == work[c][rt]
<1>1. /\ work \in [Calls -> [Routes -> Goroutine]] /\ w \in Goroutine
      /\ Relies(w) /\ (edits = 0 => Stays(rt, w)) /\ errors \in 0..MaxErrors
  BY StageFacts
<1>2. UNCHANGED <<remote, bound, running, begun, edits, errors>>
  BY DEF Ensure!Search, Ensure!ListAll
<1>3. CASE Ensure!Search(c, rt)
  <2>1. w.pc = "search" BY <1>3 DEF Ensure!Search
  <2>2. CASE Ensure!Named(w.group) = {}
    <3>1. Ensure!Moves(c, rt, "list") BY <1>3, <2>2 DEF Ensure!Search
    <3> QED BY <1>2, <2>1, <3>1, PassStep DEF Ensure!Stages, Ensure!Critical
  <2>3. CASE Ensure!Named(w.group) # {}
    <3>1. PICK k \in Ensure!Named(w.group) : Ensure!Finds(c, rt, k, "update")
      BY <1>3, <2>3 DEF Ensure!Search
    <3>2. k \in Ensure!Match(w) BY <2>3 DEF Ensure!Match
    <3> QED BY <1>2, <2>1, <3>1, <3>2, FindStep
  <2> QED BY <2>2, <2>3
<1>4. CASE Ensure!ListAll(c, rt)
  <2>1. w.pc = "list" BY <1>4 DEF Ensure!ListAll
  <2>2. CASE Ensure!Match(w) = {}
    <3> DEFINE v == [w EXCEPT !.pc = "create"]
    <3>1. work' = [work EXCEPT ![c][rt] = v]
      BY <1>1, <1>4, <2>2 DEF Ensure!ListAll, Ensure!Moves
    <3>2. /\ v \in Goroutine /\ v.pc = "create" /\ v.group = w.group /\ v.key = w.key
          /\ v.old = w.old
      BY <1>1 DEF Goroutine, Holding, Ensure!Stages
    <3> HIDE DEF v
    <3>4. Relies(v) BY <1>1, <2>1, <3>2 DEF Relies
    <3>5. edits = 0 => Stays(rt, v) BY <1>1, <2>1, <3>2 DEF Stays
    <3>6. v.group = w.group /\ w.pc \in Ensure!Critical BY <2>1, <3>2 DEF Ensure!Critical
    <3> QED BY <1>1, <1>2, <3>1, <3>2, <3>4, <3>5, <3>6, MoveStep
  <2>3. CASE Ensure!Match(w) # {}
    <3>1. PICK k \in Ensure!Match(w) : Ensure!Finds(c, rt, k, "update")
      BY <1>4, <2>3 DEF Ensure!ListAll
    <3> QED BY <1>2, <2>1, <3>1, FindStep
  <2> QED BY <2>2, <2>3
<1> QED BY <1>3, <1>4

\* A key is renamed, or made.
LEMMA GiveStep ==
    ASSUME Ensure!EnsureAssumption, KeysInv, NEW c \in Calls, NEW rt \in Routes,
           Ensure!Update(c, rt) \/ Ensure!Create(c, rt)
    PROVE  KeysInv'
<1> DEFINE w == work[c][rt]
<1>1. /\ work \in [Calls -> [Routes -> Goroutine]] /\ w \in Goroutine /\ w.key \in Ids
      /\ Relies(w) /\ (edits = 0 => Stays(rt, w)) /\ errors \in 0..MaxErrors
      /\ remote \in [Ensure!KeyIds -> KeyRow]
  BY StageFacts DEF Goroutine, Holding
<1>2. CASE Ensure!Update(c, rt)
  <2> DEFINE id == w.found
             v == [w EXCEPT !.pc = "reveal"]
  <2>1. /\ w.pc = "update" /\ work' = [work EXCEPT ![c][rt] = v]
        /\ remote' = [remote EXCEPT ![id] = Ensure!Ensured(w)]
        /\ UNCHANGED <<bound, running, begun, edits, errors>>
    BY <1>1, <1>2 DEF Ensure!Update, Ensure!Moves
  <2>2. /\ v \in Goroutine /\ v.pc = "reveal" /\ v.found = id /\ v.group = w.group
        /\ v.key = w.key /\ v.old = w.old
    BY <1>1 DEF Goroutine, Holding, Ensure!Stages
  <2>3. /\ w.pc \in Ensure!Critical /\ w.group \in SourceGroups /\ id \in Ensure!KeyIds
        /\ edits = 0 => remote[id].name \in {rt, w.group}
    BY <1>1, <2>1 DEF Relies, Stays, Own, Ensure!Critical
  <2>4. remote' = [k \in Ensure!KeyIds \cup {id} |-> IF k = id THEN Ensure!Ensured(w) ELSE remote[k]]
    BY <1>1, <2>1, <2>3
  <2>5. v \in Holding(Ids \cup {id}) BY <2>2 DEF Goroutine, Holding
  <2>6. w = work[c][rt] /\ errors' \in 0..MaxErrors /\ UNCHANGED <<bound, running, begun, edits>>
    BY <1>1, <2>1
  <2>7. work' = [work EXCEPT ![c][rt] = v] BY <2>1
  <2> HIDE DEF v, w, id
  <2>8. id \in Ensure!KeyIds /\ (edits = 0 => remote[id].name \in {rt, w.group})
    BY <2>3
  <2>9. v.pc = "reveal" /\ v.found = id /\ v.group = w.group /\ v.key = w.key /\ v.old = w.old
    BY <2>2
  <2>10. w.pc \in Ensure!Critical /\ w.group \in SourceGroups BY <2>3
  <2> QED BY <2>4, <2>5, <2>6, <2>7, <2>8, <2>9, <2>10, KeyStep
<1>3. CASE Ensure!Create(c, rt)
  <2> DEFINE id == Ensure!NewId
             v == [w EXCEPT !.pc = "reveal", !.found = id]
  <2>1. /\ w.pc = "create" /\ work' = [work EXCEPT ![c][rt] = v]
        /\ remote' = [k \in Ensure!KeyIds \cup {id} |-> IF k = id THEN Ensure!Ensured(w) ELSE remote[k]]
        /\ UNCHANGED <<bound, running, begun, edits, errors>>
    BY <1>1, <1>3 DEF Ensure!Create, Ensure!Finds, Ensure!Added
  <2>2. w.pc \in Ensure!Critical /\ w.group \in SourceGroups
    BY <1>1, <2>1 DEF Relies, Ensure!Critical
  <2> HIDE DEF id
  <2>3. /\ v \in Holding(Ids \cup {id}) /\ v.pc = "reveal" /\ v.found = id /\ v.group = w.group
        /\ v.key = w.key /\ v.old = w.old
    BY <1>1 DEF Goroutine, Holding, Ensure!Stages
  <2>4. id = Ensure!NewId BY DEF id
  <2> HIDE DEF v, w
  <2> QED BY <1>1, <2>1, <2>2, <2>3, <2>4, KeyStep DEF w
<1> QED BY <1>2, <1>3

LEMMA FailStep ==
    ASSUME Ensure!EnsureAssumption, KeysInv, NEW c \in Calls, NEW rt \in Routes, Ensure!Fail(c, rt)
    PROVE  KeysInv'
<1> DEFINE w == work[c][rt]
<1>1. /\ work \in [Calls -> [Routes -> Goroutine]] /\ w \in Goroutine
      /\ Relies(w) /\ errors \in 0..MaxErrors /\ Ensure!Done \in Goroutine /\ Ensure!Done.pc = "done"
  BY StageFacts
<1>2. /\ w.pc \in Ensure!Critical /\ work' = [work EXCEPT ![c][rt] = Ensure!Done]
      /\ UNCHANGED <<bound, running, begun, edits>>
  BY <1>1 DEF Ensure!Fail
<1>3. errors' \in 0..MaxErrors BY <1>1 DEF Ensure!Fail, Ensure!EnsureAssumption
<1>4. CASE remote' = remote
  <2>1. Ensure!Done.pc \notin Ensure!Critical BY <1>1 DEF Ensure!Critical
  <2> QED BY <1>1, <1>2, <1>3, <1>4, <2>1, DoneIsFine, MoveStep
<1>5. CASE w.pc = "create" /\ remote' = Ensure!Added(w)
  <2> DEFINE id == Ensure!NewId
  <2>1. remote' = [k \in Ensure!KeyIds \cup {id} |-> IF k = id THEN Ensure!Ensured(w) ELSE remote[k]]
    BY <1>5 DEF Ensure!Added
  <2>2. w.group \in SourceGroups BY <1>1, <1>5 DEF Relies
  <2> HIDE DEF id
  <2>3. id = Ensure!NewId BY DEF id
  <2>4. Ensure!Done \in Holding(Ids \cup {id}) BY <1>1 DEF Goroutine, Holding
  <2> HIDE DEF w
  <2> QED BY <1>1, <1>2, <1>3, <2>1, <2>2, <2>3, <2>4, KeyStep DEF w
<1> QED BY <1>2, <1>4, <1>5 DEF Ensure!Fail

\* UpdateSourceKey: the key that was found is now the route's.
LEMMA BindStep ==
    ASSUME Ensure!EnsureAssumption, KeysInv, NEW c \in Calls, NEW rt \in Routes, Ensure!Bind(c, rt)
    PROVE  KeysInv'
<1> DEFINE w == work[c][rt]
           b == [bound[rt] EXCEPT !.key = w.found, !.name = w.group]
<1>1. /\ work \in [Calls -> [Routes -> Goroutine]] /\ w \in Goroutine
      /\ Relies(w) /\ (edits = 0 => Stays(rt, w)) /\ errors \in 0..MaxErrors
      /\ bound[rt] \in RouteRow /\ bound \in [Routes -> RouteRow]
      /\ Ensure!Done \in Goroutine /\ Ensure!Done.pc = "done"
  BY StageFacts
<1>2. /\ w.pc = "bind" /\ bound' = [bound EXCEPT ![rt] = b] /\ work' = [work EXCEPT ![c][rt] = Ensure!Done]
      /\ UNCHANGED <<remote, running, begun, edits, errors>>
  BY <1>1 DEF Ensure!Bind
<1>3. w.group \in SourceGroups /\ w.found \in Ensure!KeyIds BY <1>1, <1>2 DEF Relies
<1>4. /\ b \in RouteRow /\ b.key = w.found /\ b.name = w.group /\ b.group = bound[rt].group
  BY <1>1, <1>3 DEF RouteRow, Ids
<1> HIDE DEF b
<1>5. /\ bound'[rt] = b /\ \A x \in Routes \ {rt} : bound'[x] = bound[x]
      /\ \A x \in Routes : bound'[x].group = bound[x].group
  BY <1>1, <1>2, <1>4
<1>6. /\ work'[c][rt] = Ensure!Done
      /\ \A d \in Calls, x \in Routes : d # c \/ x # rt => work'[d][x] = work[d][x]
  BY <1>1, <1>2
<1>7. Ensure!KeyIds' = Ensure!KeyIds /\ Ids' = Ids /\ Goroutine' = Goroutine /\ RouteRow' = RouteRow
  BY <1>2 DEF Ensure!KeyIds, Ids, Goroutine, RouteRow
<1>8. Types' BY <1>1, <1>2, <1>4, <1>7 DEF KeysInv, Types, KeyRow
<1>9. Mutex'
  <2>1. Ensure!Done.pc \notin Ensure!Critical BY <1>1 DEF Ensure!Critical
  <2> SUFFICES ASSUME NEW d \in Calls, NEW x \in Routes, NEW y \in Routes,
                      work'[d][x].pc \in Ensure!Critical, work'[d][y].pc \in Ensure!Critical,
                      work'[d][x].group = work'[d][y].group
               PROVE  x = y
    BY DEF Mutex
  <2>2. d # c \/ (x # rt /\ y # rt) BY <1>6, <2>1
  <2> QED BY <1>6, <2>2 DEF KeysInv, Mutex
<1>10. KeysMatch' BY <1>2 DEF KeysInv, KeysMatch, Ensure!KeyIds
<1>11. \A d \in Calls, x \in Routes : Relies(work[d][x])'
  <2>1. Relies(Ensure!Done)' BY <1>1 DEF Relies
  <2> SUFFICES ASSUME NEW d \in Calls, NEW x \in Routes PROVE Relies(work[d][x])'
    OBVIOUS
  <2>2. CASE d # c \/ x # rt
    <3>1. Relies(work[d][x]) /\ work'[d][x] = work[d][x] BY <1>6, <2>2 DEF KeysInv
    <3> QED BY <1>2, <3>1 DEF Relies, Ensure!Named, Ensure!KeyIds
  <2>3. CASE d = c /\ x = rt
    <3>1. work'[d][x] = Ensure!Done BY <1>6, <2>3
    <3> QED BY <1>1, <3>1 DEF Relies
  <2> QED BY <2>2, <2>3
<1>12. ASSUME edits' = 0
       PROVE  /\ \A x \in Routes : Given(x)'
              /\ \A d \in Calls, x \in Routes : Stays(x, work[d][x])'
  <2>1. /\ \A x \in Routes : Given(x)
        /\ \A d \in Calls, x \in Routes : Stays(x, work[d][x])
    BY <1>2, <1>12 DEF KeysInv
  <2>2. remote[w.found].name = w.group /\ w.group = bound[rt].group
    BY <1>2, <2>1 DEF Stays
  <2>3. Ensure!NoKey \notin Ensure!KeyIds BY DEF KeysInv, Types, Ensure!NoKey
  <2>4. ASSUME NEW x \in Routes PROVE Given(x)'
    <3>1. CASE x # rt
      <4>1. Given(x) /\ bound'[x] = bound[x] BY <1>5, <2>1, <3>1
      <4> QED BY <1>2, <4>1 DEF Given, Own, Ensure!KeyIds
    <3>2. CASE x = rt
      <4>1. bound'[x] = b /\ b.key # Ensure!NoKey /\ b.name = b.group /\ remote'[b.key].name = b.group
            /\ b.key \in Ensure!KeyIds'
        BY <1>2, <1>3, <1>4, <1>5, <1>7, <2>2, <2>3, <3>2
      <4> QED BY <4>1 DEF Given, Own
    <3> QED BY <3>1, <3>2
  <2>5. ASSUME NEW d \in Calls, NEW x \in Routes PROVE Stays(x, work[d][x])'
    <3>1. CASE d # c \/ x # rt
      <4>1. Stays(x, work[d][x]) /\ work'[d][x] = work[d][x] /\ bound'[x].group = bound[x].group
        BY <1>5, <1>6, <2>1, <3>1
      <4> QED BY <1>2, <4>1 DEF Stays, Own, Ensure!KeyIds
    <3>2. CASE d = c /\ x = rt
      <4>1. work'[d][x] = Ensure!Done BY <1>6, <3>2
      <4> QED BY <1>1, <4>1 DEF Stays
    <3> QED BY <3>1, <3>2
  <2> QED BY <2>4, <2>5
<1> QED BY <1>8, <1>9, <1>10, <1>11, <1>12 DEF KeysInv

LEMMA RouteKeys ==
    ASSUME Ensure!EnsureAssumption, KeysInv, NEW c \in Calls, NEW rt \in Routes,
           Ensure!RouteStep(c, rt) \/ Ensure!Fail(c, rt)
    PROVE  KeysInv'
<1>1. ASSUME Ensure!Admit(c, rt) PROVE KeysInv'
  <2>1. PICK stage \in {"lock", "done"} : Ensure!Moves(c, rt, stage) BY <1>1 DEF Ensure!Admit
  <2>2. work[c][rt].pc = "wait" BY <1>1 DEF Ensure!Admit
  <2> QED BY <1>1, <2>1, <2>2, PassStep DEF Ensure!Admit, Ensure!Stages, Ensure!Critical
<1>2. ASSUME Ensure!Lock(c, rt) PROVE KeysInv'
  BY <1>2, PassStep DEF Ensure!Lock, Ensure!Stages, Ensure!Critical
<1>3. ASSUME Ensure!Reveal(c, rt) PROVE KeysInv'
  BY <1>3, PassStep DEF Ensure!Reveal, Ensure!Stages, Ensure!Critical
<1> QED BY <1>1, <1>2, <1>3, SearchStep, GiveStep, FailStep, BindStep DEF Ensure!RouteStep

-----------------------------------------------------------------------------
(* Calls, and edits of routes *)

\* A call begins when no other is under way, with the routes as they are.
LEMMA BeginStep ==
    ASSUME Ensure!EnsureAssumption, KeysInv, NEW c \in Calls, Ensure!BeginCall(c)
    PROVE  KeysInv'
<1> DEFINE v(rt) == [pc |-> "wait", group |-> bound[rt].group, key |-> bound[rt].key,
                     old |-> bound[rt].name, found |-> Ensure!NoKey]
           f == [rt \in Routes |-> IF rt \in RoutesOf[c] THEN v(rt) ELSE Ensure!Done]
<1>1. /\ work \in [Calls -> [Routes -> Goroutine]] /\ bound \in [Routes -> RouteRow]
      /\ Ensure!Done \in Goroutine /\ Ensure!Done.pc = "done"
  BY DEF KeysInv, Types, Ensure!Done, Goroutine, Holding, Ensure!Stages, Ids
<1>2. /\ work' = [work EXCEPT ![c] = f] /\ UNCHANGED <<remote, bound, edits, errors>>
      /\ running' = running \cup {c} /\ begun' = begun + 1 /\ begun < MaxCalls
  BY DEF Ensure!BeginCall
<1>3. \A rt \in Routes : v(rt) \in Goroutine
  <2> SUFFICES ASSUME NEW rt \in Routes PROVE v(rt) \in Goroutine
    OBVIOUS
  <2>1. /\ bound[rt].group \in SourceGroups /\ bound[rt].key \in Ids
        /\ bound[rt].name \in SourceGroups \cup Routes
    BY <1>1 DEF RouteRow
  <2> QED BY <2>1 DEF Goroutine, Holding, Ensure!Stages, Ids
<1>4. f \in [Routes -> Goroutine] BY <1>1, <1>3
<1>5. /\ \A rt \in Routes : work'[c][rt] = f[rt]
      /\ \A d \in Calls, rt \in Routes : d # c => work'[d][rt] = work[d][rt]
  BY <1>1, <1>2
<1>6. \A rt \in Routes : f[rt] = v(rt) \/ f[rt] = Ensure!Done OBVIOUS
<1>7. begun' \in 0..MaxCalls BY <1>2 DEF KeysInv, Types, Ensure!EnsureAssumption
<1>8. \A rt \in Routes : /\ v(rt).pc = "wait" /\ v(rt).group = bound[rt].group
                          /\ v(rt).key = bound[rt].key /\ v(rt).old = bound[rt].name
  OBVIOUS
<1> HIDE DEF f, v
<1>9. Types'
  <2>1. Goroutine' = Goroutine /\ RouteRow' = RouteRow
    BY <1>2 DEF Goroutine, RouteRow, Ids, Ensure!KeyIds
  <2>2. work' \in [Calls -> [Routes -> Goroutine']] BY <1>1, <1>2, <1>4, <2>1
  <2> QED BY <1>2, <1>7, <2>1, <2>2 DEF KeysInv, Types, Ensure!KeyIds, KeyRow
<1>10. \A rt \in Routes : f[rt].pc \in {"wait", "done"} BY <1>1, <1>6, <1>8
<1>11. Mutex'
  <2> SUFFICES ASSUME NEW d \in Calls, NEW a \in Routes, NEW b \in Routes,
                      work'[d][a].pc \in Ensure!Critical, work'[d][b].pc \in Ensure!Critical,
                      work'[d][a].group = work'[d][b].group
               PROVE  a = b
    BY DEF Mutex
  <2>1. d # c BY <1>5, <1>10 DEF Ensure!Critical
  <2> QED BY <1>5, <2>1 DEF KeysInv, Mutex
<1>12. KeysMatch' BY <1>2 DEF KeysInv, KeysMatch, Ensure!KeyIds
<1>13. \A d \in Calls, rt \in Routes : Relies(work[d][rt])'
  <2> SUFFICES ASSUME NEW d \in Calls, NEW rt \in Routes PROVE Relies(work[d][rt])'
    OBVIOUS
  <2>1. bound[rt].group \in SourceGroups BY <1>1 DEF RouteRow
  <2>2. f[rt].pc # "done" => f[rt].group \in SourceGroups BY <1>1, <1>6, <1>8, <2>1
  <2>3. CASE d = c BY <1>5, <1>10, <2>2, <2>3 DEF Relies
  <2>4. CASE d # c
    <3>1. Relies(work[d][rt]) /\ work'[d][rt] = work[d][rt] BY <1>5, <2>4 DEF KeysInv
    <3> QED BY <1>2, <3>1 DEF Relies, Ensure!KeyIds
  <2> QED BY <2>3, <2>4
<1>14. ASSUME edits' = 0
       PROVE  /\ \A rt \in Routes : Given(rt)'
              /\ \A d \in Calls, rt \in Routes : Stays(rt, work[d][rt])'
  <2>1. \A rt \in Routes : Given(rt) BY <1>2, <1>14 DEF KeysInv
  <2>2. \A rt \in Routes : Given(rt)' BY <1>2, <2>1 DEF Given, Own, Ensure!KeyIds
  <2> SUFFICES ASSUME NEW d \in Calls, NEW rt \in Routes PROVE Stays(rt, work[d][rt])'
    BY <2>2
  <2>6. CASE d # c
    <3>1. Stays(rt, work[d][rt]) /\ work'[d][rt] = work[d][rt] BY <1>2, <1>5, <1>14, <2>6 DEF KeysInv
    <3> QED BY <1>2, <3>1 DEF Stays, Own, Ensure!KeyIds
  <2>3. d = c => work'[d][rt] = f[rt] BY <1>5
  <2>4. CASE d = c /\ f[rt] = Ensure!Done BY <1>1, <2>3, <2>4 DEF Stays
  <2>5. CASE d = c /\ f[rt] = v(rt)
    <3>1. Given(rt)' /\ bound' = bound BY <1>2, <2>2
    <3>2. /\ f[rt].pc = "wait" /\ f[rt].group = bound[rt].group /\ f[rt].key = bound[rt].key
          /\ f[rt].old = bound[rt].name
      BY <1>8, <2>5
    <3> QED BY <2>3, <2>5, <3>1, <3>2 DEF Stays, Given, Own
  <2> QED BY <1>6, <2>4, <2>5, <2>6
<1> QED BY <1>9, <1>11, <1>12, <1>13, <1>14 DEF KeysInv

LEMMA EndStep == ASSUME KeysInv, NEW c \in Calls, Ensure!EndCall(c) PROVE KeysInv'
<1>1. UNCHANGED <<remote, bound, work, begun, edits, errors>> /\ running' \in SUBSET Calls
  BY DEF Ensure!EndCall, KeysInv, Types
<1>2. Types'
  BY <1>1 DEF KeysInv, Types, Ensure!KeyIds, Ids, KeyRow, RouteRow, Goroutine, Holding
<1>3. Mutex' /\ KeysMatch' BY <1>1 DEF KeysInv, Mutex, KeysMatch, Ensure!KeyIds
<1>4. \A d \in Calls, x \in Routes : Relies(work[d][x])'
  BY <1>1 DEF KeysInv, Relies, Ensure!Named, Ensure!KeyIds
<1>5. ASSUME NEW x \in Routes PROVE Given(x)' <=> Given(x)
  BY <1>1 DEF Given, Own, Ensure!KeyIds
<1>6. ASSUME NEW d \in Calls, NEW x \in Routes PROVE Stays(x, work[d][x])' <=> Stays(x, work[d][x])
  BY <1>1 DEF Stays, Own, Ensure!KeyIds
<1>7. edits' = 0 => /\ \A x \in Routes : Given(x)'
                    /\ \A d \in Calls, x \in Routes : Stays(x, work[d][x])'
  BY <1>1, <1>5, <1>6 DEF KeysInv
<1> QED BY <1>2, <1>3, <1>4, <1>7 DEF KeysInv

LEMMA StutterKeys == ASSUME KeysInv, UNCHANGED Ensure!vars PROVE KeysInv'
<1>1. UNCHANGED <<remote, bound, work, running, begun, edits, errors>> BY DEF Ensure!vars
<1>2. Types'
  BY <1>1 DEF KeysInv, Types, Ensure!KeyIds, Ids, KeyRow, RouteRow, Goroutine, Holding
<1>3. Mutex' /\ KeysMatch' BY <1>1 DEF KeysInv, Mutex, KeysMatch, Ensure!KeyIds
<1>4. \A d \in Calls, x \in Routes : Relies(work[d][x])'
  BY <1>1 DEF KeysInv, Relies, Ensure!Named, Ensure!KeyIds
<1>5. ASSUME NEW x \in Routes PROVE Given(x)' <=> Given(x)
  BY <1>1 DEF Given, Own, Ensure!KeyIds
<1>6. ASSUME NEW d \in Calls, NEW x \in Routes PROVE Stays(x, work[d][x])' <=> Stays(x, work[d][x])
  BY <1>1 DEF Stays, Own, Ensure!KeyIds
<1>7. edits' = 0 => /\ \A x \in Routes : Given(x)'
                    /\ \A d \in Calls, x \in Routes : Stays(x, work[d][x])'
  BY <1>1, <1>5, <1>6 DEF KeysInv
<1> QED BY <1>2, <1>3, <1>4, <1>7 DEF KeysInv

\* After a route has moved, only the names at the upstream are still promised.
LEMMA EditStep ==
    ASSUME Ensure!EnsureAssumption, KeysInv, NEW rt \in Routes, NEW g \in SourceGroups, Ensure!ChangeGroup(rt, g)
    PROVE  KeysInv'
<1> DEFINE b == [bound[rt] EXCEPT !.group = g]
<1>1. /\ bound' = [bound EXCEPT ![rt] = b] /\ UNCHANGED <<remote, running, work, begun, errors>>
      /\ bound \in [Routes -> RouteRow]
  BY DEF Ensure!ChangeGroup, KeysInv, Types
<1>2. edits' \in 0..MaxEdits /\ edits' # 0
  BY DEF Ensure!ChangeGroup, KeysInv, Types, Ensure!EnsureAssumption
<1>3. b \in RouteRow BY <1>1 DEF RouteRow
<1> HIDE DEF b
<1>4. bound' \in [Routes -> RouteRow] BY <1>1, <1>3
<1>5. Types'
 
    BY <1>1, <1>2, <1>4
      DEF KeysInv, Types, Ensure!KeyIds, Ids, KeyRow, RouteRow, Goroutine, Holding
<1>6. Mutex' /\ KeysMatch' BY <1>1 DEF KeysInv, Mutex, KeysMatch, Ensure!KeyIds
<1>7. \A d \in Calls, x \in Routes : Relies(work[d][x])'
  BY <1>1 DEF KeysInv, Relies, Ensure!Named, Ensure!KeyIds
<1> QED BY <1>2, <1>5, <1>6, <1>7 DEF KeysInv

LEMMA InitKeys == ASSUME Ensure!EnsureAssumption, Ensure!Init PROVE KeysInv
<1>0. PICK grp \in [Routes -> SourceGroups], made \in [Routes -> SourceGroups], legacy \in SUBSET Routes,
           id \in [Routes -> 1..Ensure!Cardinality(Routes)] :
        /\ \A a, b \in legacy : id[a] = id[b] => a = b
        /\ {id[rt] : rt \in legacy} = 1..Ensure!Cardinality(legacy)
        /\ \A rt \in Routes \ legacy : id[rt] = 1 /\ made[rt] = grp[rt]
        /\ remote = [k \in 1..Ensure!Cardinality(legacy) |->
                       LET rt == CHOOSE a \in legacy : id[a] = k
                       IN  [name |-> rt, group |-> made[rt]]]
        /\ bound = [rt \in Routes |->
                      [group |-> grp[rt],
                       key |-> IF rt \in legacy THEN id[rt] ELSE Ensure!NoKey,
                       name |-> rt]]
  BY Zenon DEF Ensure!Init
<1>1. /\ id \in [Routes -> 1..Cardinality(Routes)]
      /\ \A a, b \in legacy : id[a] = id[b] => a = b
      /\ {id[rt] : rt \in legacy} = 1..Cardinality(legacy)
      /\ \A rt \in Routes \ legacy : id[rt] = 1 /\ made[rt] = grp[rt]
      /\ remote = [k \in 1..Cardinality(legacy) |->
                     LET rt == CHOOSE a \in legacy : id[a] = k
                     IN  [name |-> rt, group |-> made[rt]]]
      /\ bound = [rt \in Routes |->
                    [group |-> grp[rt],
                     key |-> IF rt \in legacy THEN id[rt] ELSE Ensure!NoKey,
                     name |-> rt]]
  BY <1>0, EnsureCounts
<1> DEFINE n == Cardinality(legacy)
<1>2. n \in Nat
  <2>1. IsFiniteSet(legacy) BY EnsureFinite, FS_Subset DEF Ensure!EnsureAssumption
  <2> QED BY <2>1, FS_CardinalityType
<1>3. Ensure!KeyIds = 1..n BY <1>1 DEF Ensure!KeyIds
<1>4. Cardinality(1..n) = n
  <2>1. CASE n = 0
    <3>1. 1..n = {} BY <2>1
    <3> QED BY <2>1, <3>1, FS_EmptySet
  <2>2. CASE n # 0
    <3> HIDE DEF n
    <3>1. 1 \in Int /\ n \in Int /\ ~(1 > n) /\ n - 1 + 1 = n BY <1>2, <2>2
    <3> QED BY <3>1, FS_Interval
  <2> QED BY <2>1, <2>2
<1>5. \A rt \in legacy : id[rt] \in Ensure!KeyIds BY <1>1, <1>3
<1>6. ASSUME NEW k \in Ensure!KeyIds
      PROVE  \E rt \in legacy : id[rt] = k /\ remote[k] = [name |-> rt, group |-> made[rt]]
  <2>1. \E a \in legacy : id[a] = k BY <1>1, <1>3
  <2> QED BY <1>1, <1>3, <2>1
<1>7. \A rt \in legacy : remote[id[rt]].name = rt BY <1>1, <1>5, <1>6
<1>8. remote \in [Ensure!KeyIds -> KeyRow]
  <2>1. ASSUME NEW k \in Ensure!KeyIds PROVE remote[k] \in KeyRow
    <3>1. PICK rt \in legacy : remote[k] = [name |-> rt, group |-> made[rt]] BY <1>6
    <3>2. rt \in Routes /\ made[rt] \in SourceGroups OBVIOUS
    <3> QED BY <3>1, <3>2 DEF KeyRow
  <2>2. remote = [k \in Ensure!KeyIds |-> remote[k]] BY <1>1, <1>3
  <2> QED BY <2>1, <2>2
<1>9. /\ \A rt \in Routes : bound[rt].group = grp[rt] /\ bound[rt].name = rt
      /\ \A rt \in legacy : bound[rt].key = id[rt]
      /\ \A rt \in Routes \ legacy : bound[rt].key = Ensure!NoKey
  BY <1>1
<1>10. bound \in [Routes -> RouteRow]
  <2>1. \A rt \in Routes : [group |-> grp[rt],
                             key |-> IF rt \in legacy THEN id[rt] ELSE Ensure!NoKey,
                             name |-> rt] \in RouteRow
    BY <1>5 DEF RouteRow, Ids
  <2> QED BY <1>1, <2>1
<1>11. /\ Ensure!Done \in Goroutine /\ Ensure!Done.pc = "done"
       /\ work = [c \in Calls |-> [rt \in Routes |-> Ensure!Done]]
  BY DEF Ensure!Init, Ensure!Done, Goroutine, Holding, Ensure!Stages, Ids
<1>12. 0 \in 0..MaxCalls /\ 0 \in 0..MaxEdits /\ 0 \in 0..MaxErrors
  BY DEF Ensure!EnsureAssumption
<1>13. running = {} /\ begun = 0 /\ edits = 0 /\ errors = 0 BY DEF Ensure!Init
<1>14. Types BY <1>2, <1>3, <1>4, <1>8, <1>10, <1>11, <1>12, <1>13 DEF Types
<1>15. \A k \in Ensure!KeyIds : remote[k].name \in Routes /\ remote[k].name \notin SourceGroups
  <2> SUFFICES ASSUME NEW k \in Ensure!KeyIds
               PROVE  remote[k].name \in Routes /\ remote[k].name \notin SourceGroups
    OBVIOUS
  <2>1. PICK rt \in legacy : remote[k] = [name |-> rt, group |-> made[rt]] BY <1>6
  <2>2. rt \in Routes /\ rt \notin SourceGroups BY DEF Ensure!EnsureAssumption
  <2> QED BY <2>1, <2>2
<1>16. KeysMatch BY <1>15 DEF KeysMatch
<1>17. Mutex BY <1>11 DEF Mutex, Ensure!Critical
<1>18. \A c \in Calls, rt \in Routes : Relies(work[c][rt]) /\ Stays(rt, work[c][rt])
  BY <1>11, DoneIsFine
<1>19. \A rt \in Routes : Given(rt)
  <2> SUFFICES ASSUME NEW rt \in Routes PROVE Given(rt)
    OBVIOUS
  <2>1. rt \notin SourceGroups BY DEF Ensure!EnsureAssumption
  <2>2. bound[rt].key # Ensure!NoKey => bound[rt].key \in Ensure!KeyIds /\ remote[bound[rt].key].name = rt
    BY <1>5, <1>7, <1>9
  <2> QED BY <1>9, <2>1, <2>2 DEF Given, Own
<1> QED BY <1>14, <1>16, <1>17, <1>18, <1>19 DEF KeysInv

LEMMA NextKeys ==
    Ensure!EnsureAssumption /\ KeysInv /\ [Ensure!Next]_Ensure!vars => KeysInv'
BY RouteKeys, BeginStep, EndStep, EditStep, StutterKeys DEF Ensure!Next

-----------------------------------------------------------------------------
(* How many keys a name may get *)

Searching == {"search", "list"}

\* The keys that have the name g, or that a goroutine has found and is about to give it.
MayName(g) ==
    {k \in Ensure!KeyIds :
        \/ remote[k].name = g
        \/ \E c \in Calls, rt \in Routes :
              work[c][rt].pc = "update" /\ work[c][rt].group = g /\ work[c][rt].found = k}

\* The calls that have found none and are about to create one.
Makers(g) == {c \in Calls : \E rt \in Routes : work[c][rt].pc = "create" /\ work[c][rt].group = g}

CountInv ==
    /\ most \in [SourceGroups -> 0..Cardinality(Calls)]
    /\ \A g \in SourceGroups :
          /\ Cardinality(Ensure!AtName(g)) <= most[g]
          /\ Cardinality(MayName(g)) + Cardinality(Makers(g)) <= most[g]

LEMMA Finite ==
    ASSUME Ensure!EnsureAssumption, KeysInv, NEW g
    PROVE  /\ IsFiniteSet(MayName(g)) /\ Cardinality(MayName(g)) \in Nat
           /\ IsFiniteSet(Makers(g)) /\ Cardinality(Makers(g)) \in Nat
           /\ IsFiniteSet(Ensure!AtName(g)) /\ Cardinality(Ensure!AtName(g)) \in Nat
           /\ IsFiniteSet(Calls) /\ Cardinality(Calls) \in Nat
<1>1. IsFiniteSet(Calls) BY EnsureFinite DEF Ensure!EnsureAssumption
<1>2. IsFiniteSet(Ensure!KeyIds)
  <2> DEFINE n == Cardinality(Ensure!KeyIds)
  <2>1. Ensure!KeyIds = 1..n /\ n \in Nat BY DEF KeysInv, Types
  <2> HIDE DEF n
  <2>2. 1 \in Int /\ n \in Int BY <2>1
  <2> QED BY <2>1, <2>2, FS_Interval
<1>3. MayName(g) \in SUBSET Ensure!KeyIds BY DEF MayName
<1>4. Makers(g) \in SUBSET Calls /\ Ensure!AtName(g) \in SUBSET Calls BY DEF Makers, Ensure!AtName
<1>5. IsFiniteSet(MayName(g)) BY <1>2, <1>3, FS_Subset
<1>6. IsFiniteSet(Makers(g)) /\ IsFiniteSet(Ensure!AtName(g)) BY <1>1, <1>4, FS_Subset
<1> QED BY <1>1, <1>5, <1>6, FS_CardinalityType

\* Nothing is added: neither a call at a name, nor a key that may get one.
LEMMA NoMore ==
    ASSUME Ensure!EnsureAssumption, KeysInv, CountInv, UNCHANGED most,
           \A g \in SourceGroups : /\ MayName(g)' \subseteq MayName(g)
                                   /\ Makers(g)' \subseteq Makers(g)
                                   /\ Ensure!AtName(g)' \subseteq Ensure!AtName(g)
    PROVE  CountInv'
<1> SUFFICES ASSUME NEW g \in SourceGroups
             PROVE  /\ Cardinality(Ensure!AtName(g)') <= most'[g]
                    /\ Cardinality(MayName(g)') + Cardinality(Makers(g)') <= most'[g]
  BY DEF CountInv
<1>1. MayName(g)' \in SUBSET MayName(g) /\ Makers(g)' \in SUBSET Makers(g)
      /\ Ensure!AtName(g)' \in SUBSET Ensure!AtName(g)
  OBVIOUS
<1> DEFINE a == Cardinality(MayName(g)) b == Cardinality(Makers(g)) n == Cardinality(Ensure!AtName(g))
           aa == Cardinality(MayName(g)') bb == Cardinality(Makers(g)') nn == Cardinality(Ensure!AtName(g)')
<1>2. a \in Nat /\ b \in Nat /\ n \in Nat BY Finite
<1>3. aa <= a /\ aa \in Nat
  BY <1>1, Finite, FS_Subset, FS_CardinalityType
<1>4. bb <= b /\ bb \in Nat
  BY <1>1, Finite, FS_Subset, FS_CardinalityType
<1>5. nn <= n /\ nn \in Nat
  BY <1>1, Finite, FS_Subset, FS_CardinalityType
<1>6. n <= most[g] /\ a + b <= most[g] /\ most[g] \in Nat
  BY Finite DEF CountInv
<1> HIDE DEF a, b, n, aa, bb, nn
<1>7. nn <= most[g] /\ aa + bb <= most[g] BY <1>2, <1>3, <1>4, <1>5, <1>6
<1> QED BY <1>7 DEF aa, bb, nn

\* While no key has a name, every key that may get it and every one that may be made is the
\* doing of another call at the name; a goroutine that is still looking has room for one more.
LEMMA Room ==
    ASSUME Ensure!EnsureAssumption, KeysInv, CountInv, NEW c \in Calls, NEW rt \in Routes,
           NEW g \in SourceGroups, work[c][rt].pc \in Searching, work[c][rt].group = g,
           Ensure!Named(g) = {}
    PROVE  Cardinality(MayName(g)) + Cardinality(Makers(g)) + 1 <= most[g]
<1> DEFINE By(k) == {d \in Calls : \E x \in Routes :
                        work[d][x].pc = "update" /\ work[d][x].group = g /\ work[d][x].found = k}
           f == [k \in MayName(g) |-> CHOOSE d \in Calls : d \in By(k)]
           T == Ensure!AtName(g) \ (Makers(g) \cup {c})
<1>1. ASSUME NEW k \in MayName(g) PROVE f[k] \in By(k) /\ f[k] \in Calls
  <2>1. remote[k].name # g BY DEF MayName, Ensure!Named
  <2>2. \E d \in Calls : d \in By(k) BY <2>1 DEF MayName
  <2> QED BY <2>2
<1>2. ASSUME NEW d \in Calls, NEW x \in Routes, NEW y \in Routes,
             work[d][x].pc \in Ensure!Critical, work[d][y].pc \in Ensure!Critical,
             work[d][x].group = g, work[d][y].group = g
      PROVE  x = y
  BY <1>2 DEF KeysInv, Mutex
<1>3. ASSUME NEW k \in MayName(g) PROVE f[k] \in T
  <2> DEFINE d == f[k]
  <2>1. d \in Calls /\ d \in By(k) BY <1>1
  <2> HIDE DEF d
  <2>2. PICK x \in Routes : work[d][x].pc = "update" /\ work[d][x].group = g /\ work[d][x].found = k
    BY <2>1
  <2>3. d \in Ensure!AtName(g) BY <2>1, <2>2 DEF Ensure!AtName, Ensure!At, Ensure!Critical
  <2>4. d # c BY <1>2, <2>1, <2>2 DEF Searching, Ensure!Critical
  <2>5. d \notin Makers(g) BY <1>2, <2>1, <2>2 DEF Makers, Ensure!Critical
  <2> QED BY <2>3, <2>4, <2>5 DEF d
<1>4. ASSUME NEW k \in MayName(g), NEW m \in MayName(g), f[k] = f[m] PROVE k = m
  <2> DEFINE d == f[k]
  <2>1. d \in Calls /\ d \in By(k) /\ d \in By(m) BY <1>1, <1>4
  <2> HIDE DEF d
  <2>2. PICK x \in Routes : work[d][x].pc = "update" /\ work[d][x].group = g /\ work[d][x].found = k
    BY <2>1
  <2>3. PICK y \in Routes : work[d][y].pc = "update" /\ work[d][y].group = g /\ work[d][y].found = m
    BY <2>1
  <2>4. x = y BY <1>2, <2>1, <2>2, <2>3 DEF Ensure!Critical
  <2> QED BY <2>2, <2>3, <2>4
<1>5. f \in Injection(MayName(g), T)
  <2>1. f \in [MayName(g) -> T] BY <1>3
  <2> QED BY <1>4, <2>1 DEF Injection, IsInjective
<1>6. c \in Ensure!AtName(g) BY DEF Ensure!AtName, Ensure!At, Ensure!Critical, Searching
<1>7. c \notin Makers(g) BY <1>2 DEF Makers, Searching, Ensure!Critical
<1>8. Makers(g) \subseteq Ensure!AtName(g)
  BY DEF Makers, Ensure!AtName, Ensure!At, Ensure!Critical
<1> HIDE DEF f
<1>9. /\ IsFiniteSet(Makers(g) \cup {c})
      /\ Cardinality(Makers(g) \cup {c}) = Cardinality(Makers(g)) + 1
  BY <1>7, Finite, FS_AddElement
<1>10. /\ IsFiniteSet(T)
       /\ Cardinality(T) = Cardinality(Ensure!AtName(g)) - Cardinality(Makers(g) \cup {c})
  <2>1. Ensure!AtName(g) \cap (Makers(g) \cup {c}) = Makers(g) \cup {c} BY <1>6, <1>8
  <2> HIDE DEF T
  <2>2. /\ IsFiniteSet(Ensure!AtName(g) \ (Makers(g) \cup {c}))
        /\ Cardinality(Ensure!AtName(g) \ (Makers(g) \cup {c})) =
              Cardinality(Ensure!AtName(g)) - Cardinality(Ensure!AtName(g) \cap (Makers(g) \cup {c}))
    BY Finite, FS_Difference
  <2> QED BY <2>1, <2>2 DEF T
<1>11. Cardinality(MayName(g)) <= Cardinality(T) BY <1>5, <1>10, FS_Injection
<1> HIDE DEF T
<1>12. Cardinality(Ensure!AtName(g)) <= most[g] /\ most[g] \in Nat
  BY Finite DEF CountInv
<1> QED BY <1>9, <1>10, <1>11, <1>12, Finite

\* One more key, or one more call about to create one: there is room for it, or the call
\* was about to create it.
LEMMA OneMore ==
    ASSUME Ensure!EnsureAssumption, KeysInv, CountInv, UNCHANGED most,
           NEW g \in SourceGroups, NEW c \in Calls, NEW k,
           \A h \in SourceGroups :
              /\ Ensure!AtName(h)' \subseteq Ensure!AtName(h)
              /\ h # g => MayName(h)' \subseteq MayName(h) /\ Makers(h)' \subseteq Makers(h),
           \/ /\ Cardinality(MayName(g)) + Cardinality(Makers(g)) + 1 <= most[g]
              /\ \/ MayName(g)' \subseteq MayName(g) \cup {k} /\ Makers(g)' \subseteq Makers(g)
                 \/ MayName(g)' \subseteq MayName(g) /\ Makers(g)' \subseteq Makers(g) \cup {c}
           \/ /\ c \in Makers(g) /\ Makers(g)' \subseteq Makers(g) \ {c}
              /\ MayName(g)' \subseteq MayName(g) \cup {k}
    PROVE  CountInv'
<1> SUFFICES ASSUME NEW h \in SourceGroups
             PROVE  /\ Cardinality(Ensure!AtName(h)') <= most'[h]
                    /\ Cardinality(MayName(h)') + Cardinality(Makers(h)') <= most'[h]
  BY DEF CountInv
<1> DEFINE a == Cardinality(MayName(h)) b == Cardinality(Makers(h)) n == Cardinality(Ensure!AtName(h))
           A == MayName(h)' B == Makers(h)' N == Ensure!AtName(h)'
<1>1. a \in Nat /\ b \in Nat /\ n \in Nat BY Finite
<1>2. n <= most[h] /\ a + b <= most[h] /\ most[h] \in Nat /\ most' = most
  BY Finite DEF CountInv
<1>3. Cardinality(N) <= n /\ Cardinality(N) \in Nat
  <2>1. N \in SUBSET Ensure!AtName(h) OBVIOUS
  <2> HIDE DEF N
  <2> QED BY <2>1, Finite, FS_Subset, FS_CardinalityType
<1>4. /\ A \subseteq MayName(h) => Cardinality(A) <= a /\ Cardinality(A) \in Nat
      /\ A \subseteq MayName(h) \cup {k} => Cardinality(A) <= a + 1 /\ Cardinality(A) \in Nat
  <2> HIDE DEF A
  <2>1. IsFiniteSet(MayName(h)) BY Finite
  <2>2. /\ IsFiniteSet(MayName(h) \cup {k})
        /\ Cardinality(MayName(h) \cup {k}) = IF k \in MayName(h) THEN a ELSE a + 1
    BY <2>1, FS_AddElement
  <2>3. Cardinality(MayName(h) \cup {k}) <= a + 1 /\ Cardinality(MayName(h) \cup {k}) \in Nat
    BY <1>1, <2>2
  <2>4. ASSUME A \subseteq MayName(h) PROVE Cardinality(A) <= a /\ Cardinality(A) \in Nat
    BY <2>1, <2>4, FS_Subset, FS_CardinalityType
  <2>5. ASSUME A \subseteq MayName(h) \cup {k}
        PROVE  Cardinality(A) <= Cardinality(MayName(h) \cup {k}) /\ Cardinality(A) \in Nat
    BY <2>2, <2>5, FS_Subset, FS_CardinalityType
  <2> HIDE DEF a
  <2> QED BY <1>1, <2>3, <2>4, <2>5
<1>5. /\ B \subseteq Makers(h) => Cardinality(B) <= b /\ Cardinality(B) \in Nat
      /\ B \subseteq Makers(h) \cup {c} => Cardinality(B) <= b + 1 /\ Cardinality(B) \in Nat
      /\ c \in Makers(h) /\ B \subseteq Makers(h) \ {c} =>
            Cardinality(B) + 1 <= b /\ Cardinality(B) \in Nat
  <2> HIDE DEF B
  <2>1. IsFiniteSet(Makers(h)) BY Finite
  <2>2. /\ IsFiniteSet(Makers(h) \cup {c})
        /\ Cardinality(Makers(h) \cup {c}) = IF c \in Makers(h) THEN b ELSE b + 1
    BY <2>1, FS_AddElement
  <2>3. /\ IsFiniteSet(Makers(h) \ {c})
        /\ Cardinality(Makers(h) \ {c}) = IF c \in Makers(h) THEN b - 1 ELSE b
    BY <2>1, FS_RemoveElement
  <2>4. Cardinality(Makers(h) \cup {c}) <= b + 1 /\ Cardinality(Makers(h) \cup {c}) \in Nat
    BY <1>1, <2>2
  <2>5. ASSUME B \subseteq Makers(h) PROVE Cardinality(B) <= b /\ Cardinality(B) \in Nat
    BY <2>1, <2>5, FS_Subset, FS_CardinalityType
  <2>6. ASSUME B \subseteq Makers(h) \cup {c}
        PROVE  Cardinality(B) <= Cardinality(Makers(h) \cup {c}) /\ Cardinality(B) \in Nat
    BY <2>2, <2>6, FS_Subset, FS_CardinalityType
  <2>7. ASSUME c \in Makers(h), B \subseteq Makers(h) \ {c}
        PROVE  Cardinality(B) <= b - 1 /\ Cardinality(B) \in Nat
    BY <2>3, <2>7, FS_Subset, FS_CardinalityType
  <2> HIDE DEF b
  <2> QED BY <1>1, <2>4, <2>5, <2>6, <2>7
<1>6. CASE h # g
  <2>1. A \subseteq MayName(h) /\ B \subseteq Makers(h) BY <1>6
  <2> HIDE DEF a, b, n, A, B, N
  <2>2. Cardinality(A) + Cardinality(B) <= most'[h] BY <1>1, <1>2, <1>4, <1>5, <2>1
  <2>3. Cardinality(N) <= most'[h] BY <1>1, <1>2, <1>3
  <2> QED BY <2>2, <2>3 DEF A, B, N
<1>7. CASE h = g
  <2>1. \/ a + b + 1 <= most[h] /\ A \subseteq MayName(h) \cup {k} /\ B \subseteq Makers(h)
        \/ a + b + 1 <= most[h] /\ A \subseteq MayName(h) /\ B \subseteq Makers(h) \cup {c}
        \/ c \in Makers(h) /\ B \subseteq Makers(h) \ {c} /\ A \subseteq MayName(h) \cup {k}
    BY <1>7
  <2> HIDE DEF a, b, n, A, B, N
  <2>2. Cardinality(A) + Cardinality(B) <= most'[h] BY <1>1, <1>2, <1>4, <1>5, <2>1
  <2>3. Cardinality(N) <= most'[h] BY <1>1, <1>2, <1>3
  <2> QED BY <2>2, <2>3 DEF A, B, N
<1> QED BY <1>6, <1>7

\* A goroutine moves, and neither finds a key nor gets to create one.
LEMMA PassCount ==
    ASSUME Ensure!EnsureAssumption, KeysInv, CountInv, NEW c \in Calls, NEW rt \in Routes, NEW v,
           work' = [work EXCEPT ![c][rt] = v], UNCHANGED <<remote, most>>,
           v.pc \notin {"update", "create"},
           v.pc \in Ensure!Critical => work[c][rt].pc \in Ensure!Critical /\ v.group = work[c][rt].group
    PROVE  CountInv'
<1>1. /\ work'[c][rt] = v
      /\ \A d \in Calls, x \in Routes : d # c \/ x # rt => work'[d][x] = work[d][x]
  BY DEF KeysInv, Types
<1> SUFFICES ASSUME NEW g \in SourceGroups
             PROVE  /\ MayName(g)' \subseteq MayName(g)
                    /\ Makers(g)' \subseteq Makers(g)
                    /\ Ensure!AtName(g)' \subseteq Ensure!AtName(g)
  BY NoMore
<1>2. MayName(g)' \subseteq MayName(g) BY <1>1 DEF MayName, Ensure!KeyIds
<1>3. Makers(g)' \subseteq Makers(g) BY <1>1 DEF Makers
<1>4. Ensure!AtName(g)' \subseteq Ensure!AtName(g)
  <2> SUFFICES ASSUME NEW d \in Calls, NEW x \in Routes,
                      work'[d][x].pc \in Ensure!Critical, work'[d][x].group = g
               PROVE  work[d][x].pc \in Ensure!Critical /\ work[d][x].group = g
    BY DEF Ensure!AtName, Ensure!At
  <2> QED BY <1>1
<1> QED BY <1>2, <1>3, <1>4

\* A goroutine gets the mutex: the witness counts its call.
LEMMA LockCount ==
    ASSUME Ensure!EnsureAssumption, KeysInv, CountInv, NEW c \in Calls, NEW rt \in Routes,
           Ensure!Lock(c, rt)
    PROVE  CountInv'
<1> DEFINE w == work[c][rt]
           v == [w EXCEPT !.pc = "search"]
           S == Ensure!AtName(w.group) \cup {c}
           n == Ensure!Cardinality(S)
<1>1. /\ work \in [Calls -> [Routes -> Goroutine]] /\ w \in Goroutine /\ Relies(w)
  BY StageFacts
<1>2. /\ w.pc = "lock" /\ work' = [work EXCEPT ![c][rt] = v] /\ remote' = remote
      /\ most' = [most EXCEPT ![w.group] = IF n > @ THEN n ELSE @]
  BY <1>1 DEF Ensure!Lock, Ensure!Moves
<1>3. v.pc = "search" /\ v.group = w.group /\ w.group \in SourceGroups
  BY <1>1, <1>2 DEF Goroutine, Holding, Relies
<1> HIDE DEF v
<1>4. /\ work'[c][rt] = v
      /\ \A d \in Calls, x \in Routes : d # c \/ x # rt => work'[d][x] = work[d][x]
  BY <1>1, <1>2
<1>5. n = Cardinality(S) /\ n \in 0..Cardinality(Calls) /\ IsFiniteSet(S)
  <2>1. n = Cardinality(S) BY EnsureCounts
  <2>2. S \in SUBSET Calls BY DEF Ensure!AtName
  <2>3. IsFiniteSet(Calls) /\ Cardinality(Calls) \in Nat BY Finite
  <2>4. IsFiniteSet(S) /\ Cardinality(S) <= Cardinality(Calls) BY <2>2, <2>3, FS_Subset
  <2>5. Cardinality(S) \in Nat BY <2>4, FS_CardinalityType
  <2> QED BY <2>1, <2>3, <2>4, <2>5
<1> HIDE DEF n
<1>6. /\ most' \in [SourceGroups -> 0..Cardinality(Calls)]
      /\ \A g \in SourceGroups : most[g] <= most'[g]
      /\ n <= most'[w.group]
  <2>1. most \in [SourceGroups -> 0..Cardinality(Calls)] /\ Cardinality(Calls) \in Nat
    BY Finite DEF CountInv
  <2> QED BY <1>2, <1>3, <1>5, <2>1
<1> SUFFICES ASSUME NEW g \in SourceGroups
             PROVE  /\ Cardinality(Ensure!AtName(g)') <= most'[g]
                    /\ Cardinality(MayName(g)') + Cardinality(Makers(g)') <= most'[g]
  BY <1>6 DEF CountInv
<1>7. MayName(g)' \in SUBSET MayName(g) BY <1>2, <1>3, <1>4 DEF MayName, Ensure!KeyIds
<1>8. Makers(g)' \in SUBSET Makers(g) BY <1>3, <1>4 DEF Makers
<1>9. /\ g # w.group => Ensure!AtName(g)' \in SUBSET Ensure!AtName(g)
      /\ g = w.group => Ensure!AtName(g)' \in SUBSET S
  BY <1>3, <1>4 DEF Ensure!AtName, Ensure!At
<1>10. /\ Cardinality(Ensure!AtName(g)) <= most[g]
       /\ Cardinality(MayName(g)) + Cardinality(Makers(g)) <= most[g]
       /\ most[g] \in Nat /\ most'[g] \in Nat /\ most[g] <= most'[g]
  BY <1>6, Finite DEF CountInv
<1> DEFINE a == Cardinality(MayName(g)) b == Cardinality(Makers(g))
           aa == Cardinality(MayName(g)') bb == Cardinality(Makers(g)')
<1>11. aa <= a /\ aa \in Nat /\ a \in Nat BY <1>7, Finite, FS_Subset, FS_CardinalityType
<1>12. bb <= b /\ bb \in Nat /\ b \in Nat BY <1>8, Finite, FS_Subset, FS_CardinalityType
<1>13. aa + bb <= most'[g]
  <2>1. a + b <= most[g] /\ most[g] \in Nat /\ most'[g] \in Nat /\ most[g] <= most'[g] BY <1>10
  <2> HIDE DEF a, b, aa, bb
  <2> QED BY <1>11, <1>12, <2>1
<1>14. CASE g # w.group
  <2>1. /\ Cardinality(Ensure!AtName(g)') <= Cardinality(Ensure!AtName(g))
        /\ Cardinality(Ensure!AtName(g)') \in Nat /\ Cardinality(Ensure!AtName(g)) \in Nat
    BY <1>9, <1>14, Finite, FS_Subset, FS_CardinalityType
  <2>2. Cardinality(Ensure!AtName(g)') <= most'[g] BY <1>10, <2>1
  <2> QED BY <1>13, <2>2
<1>15. CASE g = w.group
  <2> HIDE DEF S
  <2>1. /\ Cardinality(Ensure!AtName(g)') <= Cardinality(S)
        /\ Cardinality(Ensure!AtName(g)') \in Nat
    BY <1>5, <1>9, <1>15, FS_Subset, FS_CardinalityType
  <2>2. Cardinality(S) <= most'[g] /\ Cardinality(S) \in Nat BY <1>5, <1>6, <1>15
  <2>3. Cardinality(Ensure!AtName(g)') <= most'[g] BY <1>10, <2>1, <2>2
  <2> QED BY <1>13, <2>3
<1> QED BY <1>14, <1>15

\* A goroutine that looked for a key of the name has found one, or is to create one.
LEMMA SeekCount ==
    ASSUME Ensure!EnsureAssumption, KeysInv, CountInv, NEW c \in Calls, NEW rt \in Routes,
           NEW v \in Goroutine, work' = [work EXCEPT ![c][rt] = v], UNCHANGED <<remote, most>>,
           work[c][rt].pc \in Searching, v.group = work[c][rt].group,
           \/ v.pc = "update" /\ v.found \in Ensure!Match(work[c][rt])
           \/ v.pc = "create" /\ Ensure!Match(work[c][rt]) = {}
    PROVE  CountInv'
<1>1. /\ work'[c][rt] = v
      /\ \A d \in Calls, x \in Routes : d # c \/ x # rt => work'[d][x] = work[d][x]
  BY DEF KeysInv, Types
<1>2. PICK g \in SourceGroups : g = work[c][rt].group BY StageFacts DEF Relies, Searching
<1>3. ASSUME NEW h \in SourceGroups PROVE Ensure!AtName(h)' \subseteq Ensure!AtName(h)
  BY <1>1 DEF Ensure!AtName, Ensure!At, Ensure!Critical, Searching
<1>4. ASSUME NEW h \in SourceGroups, h # g
      PROVE  MayName(h)' \subseteq MayName(h) /\ Makers(h)' \subseteq Makers(h)
  <2>1. MayName(h)' \subseteq MayName(h) BY <1>1, <1>2, <1>4 DEF MayName, Ensure!KeyIds
  <2>2. Makers(h)' \subseteq Makers(h) BY <1>1, <1>2, <1>4 DEF Makers
  <2> QED BY <2>1, <2>2
<1>5. /\ v.pc = "update" => MayName(g)' \subseteq MayName(g) \cup {v.found}
      /\ v.pc = "create" => MayName(g)' \subseteq MayName(g)
  BY <1>1, <1>2 DEF MayName, Ensure!KeyIds
<1>6. /\ v.pc = "update" => Makers(g)' \subseteq Makers(g)
      /\ v.pc = "create" => Makers(g)' \subseteq Makers(g) \cup {c}
  BY <1>1, <1>2 DEF Makers
<1>7. CASE Ensure!Named(g) # {}
  <2>1. v.pc = "update" /\ v.found \in Ensure!Named(g) BY <1>2, <1>7 DEF Ensure!Match
  <2>2. v.found \in MayName(g) BY <2>1 DEF MayName, Ensure!Named
  <2>3. MayName(g)' \subseteq MayName(g) /\ Makers(g)' \subseteq Makers(g) BY <1>5, <1>6, <2>1, <2>2
  <2>4. \A h \in SourceGroups : /\ MayName(h)' \subseteq MayName(h)
                                /\ Makers(h)' \subseteq Makers(h)
                                /\ Ensure!AtName(h)' \subseteq Ensure!AtName(h)
    BY <1>3, <1>4, <2>3
  <2> QED BY <2>4, NoMore
<1>8. CASE Ensure!Named(g) = {}
  <2>1. Cardinality(MayName(g)) + Cardinality(Makers(g)) + 1 <= most[g] BY <1>2, <1>8, Room
  <2>2. \/ MayName(g)' \subseteq MayName(g) \cup {v.found} /\ Makers(g)' \subseteq Makers(g)
        \/ MayName(g)' \subseteq MayName(g) /\ Makers(g)' \subseteq Makers(g) \cup {c}
    BY <1>5, <1>6
  <2>3. \A h \in SourceGroups :
           /\ Ensure!AtName(h)' \subseteq Ensure!AtName(h)
           /\ h # g => MayName(h)' \subseteq MayName(h) /\ Makers(h)' \subseteq Makers(h)
    BY <1>3, <1>4
  <2> QED BY <1>2, <2>1, <2>2, <2>3, OneMore
<1> QED BY <1>7, <1>8

\* A key that may get the name has got it.
LEMMA UpdateCount ==
    ASSUME Ensure!EnsureAssumption, KeysInv, CountInv, NEW c \in Calls, NEW rt \in Routes,
           Ensure!Update(c, rt)
    PROVE  CountInv'
<1> DEFINE w == work[c][rt]
           v == [w EXCEPT !.pc = "reveal"]
<1>1. /\ work \in [Calls -> [Routes -> Goroutine]] /\ w \in Goroutine /\ Relies(w)
      /\ remote \in [Ensure!KeyIds -> KeyRow]
  BY StageFacts
<1>2. /\ w.pc = "update" /\ work' = [work EXCEPT ![c][rt] = v] /\ most' = most
      /\ remote' = [remote EXCEPT ![w.found] = Ensure!Ensured(w)]
  BY <1>1 DEF Ensure!Update, Ensure!Moves
<1>3. v.pc = "reveal" /\ v.group = w.group /\ w.found \in Ensure!KeyIds
  BY <1>1, <1>2 DEF Goroutine, Holding, Relies
<1> HIDE DEF v
<1>4. /\ work'[c][rt] = v
      /\ \A d \in Calls, x \in Routes : d # c \/ x # rt => work'[d][x] = work[d][x]
  BY <1>1, <1>2
<1>5. /\ Ensure!KeyIds' = Ensure!KeyIds /\ remote'[w.found].name = w.group
      /\ \A k \in Ensure!KeyIds : k # w.found => remote'[k] = remote[k]
  BY <1>1, <1>2, <1>3 DEF Ensure!KeyIds, Ensure!Ensured
<1> SUFFICES ASSUME NEW g \in SourceGroups
             PROVE  /\ MayName(g)' \subseteq MayName(g)
                    /\ Makers(g)' \subseteq Makers(g)
                    /\ Ensure!AtName(g)' \subseteq Ensure!AtName(g)
  BY <1>2, NoMore
<1>6. MayName(g)' \subseteq MayName(g)
  <2> SUFFICES ASSUME NEW k \in Ensure!KeyIds,
                      \/ remote'[k].name = g
                      \/ \E d \in Calls, x \in Routes :
                            work'[d][x].pc = "update" /\ work'[d][x].group = g /\ work'[d][x].found = k
               PROVE  k \in MayName(g)
    BY <1>5 DEF MayName
  <2>1. CASE \E d \in Calls, x \in Routes :
                work'[d][x].pc = "update" /\ work'[d][x].group = g /\ work'[d][x].found = k
    BY <1>3, <1>4, <2>1 DEF MayName
  <2>2. CASE remote'[k].name = g /\ k # w.found BY <1>5, <2>2 DEF MayName
  <2>3. CASE remote'[k].name = g /\ k = w.found
    <3>1. w.group = g BY <1>5, <2>3
    <3> QED BY <1>2, <2>3, <3>1 DEF MayName
  <2> QED BY <2>1, <2>2, <2>3
<1>7. Makers(g)' \subseteq Makers(g) BY <1>3, <1>4 DEF Makers
<1>8. Ensure!AtName(g)' \subseteq Ensure!AtName(g)
  BY <1>2, <1>3, <1>4 DEF Ensure!AtName, Ensure!At, Ensure!Critical
<1> QED BY <1>6, <1>7, <1>8

\* A call that was about to create a key has created it, and may not have heard of it.
LEMMA CreateCount ==
    ASSUME Ensure!EnsureAssumption, KeysInv, CountInv, NEW c \in Calls, NEW rt \in Routes, NEW v,
           work[c][rt].pc = "create", remote' = Ensure!Added(work[c][rt]), UNCHANGED most,
           work' = [work EXCEPT ![c][rt] = v],
           v.pc = "done" \/ (v.pc = "reveal" /\ v.group = work[c][rt].group)
    PROVE  CountInv'
<1> DEFINE w == work[c][rt]
<1>1. work \in [Calls -> [Routes -> Goroutine]] /\ Relies(w) BY StageFacts
<1>12. PICK g \in SourceGroups : g = w.group BY <1>1 DEF Relies
<1>13. PICK id : id = Ensure!NewId OBVIOUS
<1>2. /\ work'[c][rt] = v
      /\ \A d \in Calls, x \in Routes : d # c \/ x # rt => work'[d][x] = work[d][x]
  BY <1>1
<1>3. id \notin Ensure!KeyIds
  <2> DEFINE n == Cardinality(Ensure!KeyIds)
  <2>1. Ensure!KeyIds = 1..n /\ n \in Nat BY DEF KeysInv, Types
  <2>2. id = n + 1 BY <1>13, EnsureCounts DEF Ensure!NewId
  <2> HIDE DEF n
  <2> QED BY <2>1, <2>2
<1>4. /\ Ensure!KeyIds' = Ensure!KeyIds \cup {id} /\ remote'[id].name = g
      /\ \A k \in Ensure!KeyIds : remote'[k] = remote[k]
  BY <1>3, <1>12, <1>13 DEF Ensure!KeyIds, Ensure!Added, Ensure!Ensured
<1>5. ASSUME NEW h \in SourceGroups PROVE Ensure!AtName(h)' \subseteq Ensure!AtName(h)
  BY <1>2 DEF Ensure!AtName, Ensure!At, Ensure!Critical
<1>6. ASSUME NEW h \in SourceGroups
      PROVE  MayName(h)' \subseteq IF h = g THEN MayName(h) \cup {id} ELSE MayName(h)
  <2> SUFFICES ASSUME NEW k \in Ensure!KeyIds',
                      \/ remote'[k].name = h
                      \/ \E d \in Calls, x \in Routes :
                            work'[d][x].pc = "update" /\ work'[d][x].group = h /\ work'[d][x].found = k
               PROVE  k \in MayName(h) \/ (h = g /\ k = id)
    BY DEF MayName
  <2>1. CASE \E d \in Calls, x \in Routes :
                work'[d][x].pc = "update" /\ work'[d][x].group = h /\ work'[d][x].found = k
    <3>1. PICK d \in Calls : \E x \in Routes :
                work'[d][x].pc = "update" /\ work'[d][x].group = h /\ work'[d][x].found = k
      BY <2>1
    <3>2. PICK x \in Routes :
                work'[d][x].pc = "update" /\ work'[d][x].group = h /\ work'[d][x].found = k
      BY <3>1
    <3>3. work'[d][x] = work[d][x] BY <1>2, <3>2
    <3>4. Relies(work[d][x]) BY StageFacts
    <3>5. k \in Ensure!KeyIds BY <3>2, <3>3, <3>4 DEF Relies
    <3> QED BY <3>2, <3>3, <3>5 DEF MayName
  <2>2. CASE remote'[k].name = h /\ k # id
    <3>1. k \in Ensure!KeyIds /\ remote[k].name = h BY <1>4, <2>2
    <3> QED BY <3>1 DEF MayName
  <2>3. CASE remote'[k].name = h /\ k = id BY <1>4, <2>3
  <2> QED BY <2>1, <2>2, <2>3
<1>7. ASSUME NEW h \in SourceGroups PROVE Makers(h)' \subseteq Makers(h)
  BY <1>2 DEF Makers
<1>8. c \in Makers(g) BY <1>12 DEF Makers
<1>9. c \notin Makers(g)'
  <2> SUFFICES ASSUME NEW x \in Routes, work'[c][x].pc = "create", work'[c][x].group = g PROVE FALSE
    BY DEF Makers
  <2>1. x # rt BY <1>2
  <2>2. work[c][x].pc = "create" /\ work[c][x].group = g BY <1>2, <2>1
  <2> QED BY <1>12, <2>1, <2>2 DEF KeysInv, Mutex, Ensure!Critical
<1> HIDE DEF w
<1>10. Makers(g)' \subseteq Makers(g) \ {c} /\ MayName(g)' \subseteq MayName(g) \cup {id}
  BY <1>1, <1>6, <1>7, <1>9
<1>11. \A h \in SourceGroups :
          /\ Ensure!AtName(h)' \subseteq Ensure!AtName(h)
          /\ h # g => MayName(h)' \subseteq MayName(h) /\ Makers(h)' \subseteq Makers(h)
  BY <1>5, <1>6, <1>7
<1> QED BY <1>1, <1>8, <1>10, <1>11, OneMore

LEMMA RouteCount ==
    ASSUME Ensure!EnsureAssumption, KeysInv, CountInv, NEW c \in Calls, NEW rt \in Routes,
           Ensure!RouteStep(c, rt) \/ Ensure!Fail(c, rt)
    PROVE  CountInv'
<1> DEFINE w == work[c][rt]
<1>1. /\ work \in [Calls -> [Routes -> Goroutine]] /\ w \in Goroutine
      /\ Ensure!Done \in Goroutine /\ Ensure!Done.pc = "done"
  BY StageFacts
<1>2. ASSUME NEW stage \in Ensure!Stages, Ensure!Moves(c, rt, stage), UNCHANGED <<remote, most>>,
             stage \notin {"update", "create"}, stage \in Ensure!Critical => w.pc \in Ensure!Critical
      PROVE  CountInv'
  <2> DEFINE v == [w EXCEPT !.pc = stage]
  <2>1. work' = [work EXCEPT ![c][rt] = v] BY <1>1, <1>2 DEF Ensure!Moves
  <2>2. v.pc = stage /\ v.group = w.group BY <1>1 DEF Goroutine, Holding
  <2> HIDE DEF v
  <2> QED BY <1>2, <2>1, <2>2, PassCount
<1>3. ASSUME NEW k \in Ensure!KeyIds, Ensure!Finds(c, rt, k, "update"), UNCHANGED <<remote, most>>,
             w.pc \in Searching, k \in Ensure!Match(w)
      PROVE  CountInv'
  <2> DEFINE v == [w EXCEPT !.pc = "update", !.found = k]
  <2>1. work' = [work EXCEPT ![c][rt] = v] BY <1>1, <1>3 DEF Ensure!Finds
  <2>2. v \in Goroutine /\ v.pc = "update" /\ v.group = w.group /\ v.found = k
    BY <1>1 DEF Goroutine, Holding, Ensure!Stages, Ids
  <2> HIDE DEF v
  <2> QED BY <1>3, <2>1, <2>2, SeekCount
<1>4. ASSUME Ensure!Admit(c, rt) PROVE CountInv'
  <2>1. PICK stage \in {"lock", "done"} : Ensure!Moves(c, rt, stage) BY <1>4 DEF Ensure!Admit
  <2> QED BY <1>2, <1>4, <2>1 DEF Ensure!Admit, Ensure!Stages, Ensure!Critical
<1>5. ASSUME Ensure!Search(c, rt) PROVE CountInv'
  <2>1. w.pc = "search" /\ UNCHANGED <<remote, most>> BY <1>5 DEF Ensure!Search
  <2>2. CASE Ensure!Named(w.group) = {}
    <3>1. Ensure!Moves(c, rt, "list") BY <1>5, <2>2 DEF Ensure!Search
    <3> QED BY <1>2, <2>1, <3>1 DEF Ensure!Stages, Ensure!Critical
  <2>3. CASE Ensure!Named(w.group) # {}
    <3>1. PICK k \in Ensure!Named(w.group) : Ensure!Finds(c, rt, k, "update")
      BY <1>5, <2>3 DEF Ensure!Search
    <3>2. k \in Ensure!Match(w) /\ k \in Ensure!KeyIds BY <2>3 DEF Ensure!Match, Ensure!Named
    <3> QED BY <1>3, <2>1, <3>1, <3>2 DEF Searching
  <2> QED BY <2>2, <2>3
<1>6. ASSUME Ensure!ListAll(c, rt) PROVE CountInv'
  <2>1. w.pc = "list" /\ UNCHANGED <<remote, most>> BY <1>6 DEF Ensure!ListAll
  <2>2. CASE Ensure!Match(w) = {}
    <3> DEFINE v == [w EXCEPT !.pc = "create"]
    <3>1. work' = [work EXCEPT ![c][rt] = v] BY <1>1, <1>6, <2>2 DEF Ensure!ListAll, Ensure!Moves
    <3>2. v \in Goroutine /\ v.pc = "create" /\ v.group = w.group
      BY <1>1 DEF Goroutine, Holding, Ensure!Stages
    <3> HIDE DEF v
    <3> QED BY <2>1, <2>2, <3>1, <3>2, SeekCount DEF Searching
  <2>3. CASE Ensure!Match(w) # {}
    <3>1. PICK k \in Ensure!Match(w) : Ensure!Finds(c, rt, k, "update")
      BY <1>6, <2>3 DEF Ensure!ListAll
    <3>2. k \in Ensure!KeyIds BY DEF Ensure!Match, Ensure!Named
    <3> QED BY <1>3, <2>1, <3>1, <3>2 DEF Searching
  <2> QED BY <2>2, <2>3
<1>7. ASSUME Ensure!Create(c, rt) PROVE CountInv'
  <2> DEFINE id == Ensure!NewId
             v == [w EXCEPT !.pc = "reveal", !.found = id]
  <2>1. /\ w.pc = "create" /\ work' = [work EXCEPT ![c][rt] = v]
        /\ remote' = Ensure!Added(w) /\ most' = most
    BY <1>1, <1>7 DEF Ensure!Create, Ensure!Finds
  <2> HIDE DEF id
  <2>2. v.pc = "reveal" /\ v.group = w.group BY <1>1 DEF Goroutine, Holding
  <2> HIDE DEF v
  <2> QED BY <2>1, <2>2, CreateCount
<1>8. ASSUME Ensure!Reveal(c, rt) PROVE CountInv'
  BY <1>2, <1>8 DEF Ensure!Reveal, Ensure!Stages, Ensure!Critical
<1>9. ASSUME Ensure!Bind(c, rt) PROVE CountInv'
  <2>1. work' = [work EXCEPT ![c][rt] = Ensure!Done] /\ UNCHANGED <<remote, most>>
    BY <1>9 DEF Ensure!Bind
  <2> QED BY <1>1, <2>1, PassCount DEF Ensure!Critical
<1>10. ASSUME Ensure!Fail(c, rt) PROVE CountInv'
  <2>1. /\ work' = [work EXCEPT ![c][rt] = Ensure!Done] /\ UNCHANGED most
        /\ remote' = remote \/ (w.pc = "create" /\ remote' = Ensure!Added(w))
    BY <1>10 DEF Ensure!Fail
  <2>2. CASE remote' = remote BY <1>1, <2>1, <2>2, PassCount DEF Ensure!Critical
  <2>3. CASE w.pc = "create" /\ remote' = Ensure!Added(w) BY <1>1, <2>1, <2>3, CreateCount
  <2> QED BY <2>1, <2>2, <2>3
<1> QED BY <1>4, <1>5, <1>6, <1>7, <1>8, <1>9, <1>10, LockCount, UpdateCount DEF Ensure!RouteStep

\* A call begins or ends, a route moves: no goroutine is at a name that was not there.
LEMMA CallCount ==
    ASSUME Ensure!EnsureAssumption, KeysInv, CountInv,
           \/ \E c \in Calls : Ensure!BeginCall(c) \/ Ensure!EndCall(c)
           \/ \E rt \in Routes, g \in SourceGroups : Ensure!ChangeGroup(rt, g)
           \/ UNCHANGED Ensure!vars
    PROVE  CountInv'
<1>1. CASE \E c \in Calls : Ensure!BeginCall(c)
  <2>1. PICK c \in Calls : Ensure!BeginCall(c) BY <1>1
  <2>2. UNCHANGED <<remote, most>> BY <2>1 DEF Ensure!BeginCall
  <2>3. ASSUME NEW d \in Calls, NEW x \in Routes
        PROVE  work'[d][x] = work[d][x] \/ work'[d][x].pc \in {"wait", "done"}
    BY <2>1 DEF Ensure!BeginCall, Ensure!Done, KeysInv, Types
  <2> SUFFICES ASSUME NEW g \in SourceGroups
               PROVE  /\ MayName(g)' \subseteq MayName(g)
                      /\ Makers(g)' \subseteq Makers(g)
                      /\ Ensure!AtName(g)' \subseteq Ensure!AtName(g)
    BY <2>2, NoMore
  <2>4. MayName(g)' \subseteq MayName(g) BY <2>2, <2>3 DEF MayName, Ensure!KeyIds
  <2>5. Makers(g)' \subseteq Makers(g) BY <2>3 DEF Makers
  <2>6. Ensure!AtName(g)' \subseteq Ensure!AtName(g)
    BY <2>3 DEF Ensure!AtName, Ensure!At, Ensure!Critical
  <2> QED BY <2>4, <2>5, <2>6
<1>2. CASE UNCHANGED <<remote, work, most>>
  <2> SUFFICES ASSUME NEW g \in SourceGroups
               PROVE  /\ MayName(g)' \subseteq MayName(g)
                      /\ Makers(g)' \subseteq Makers(g)
                      /\ Ensure!AtName(g)' \subseteq Ensure!AtName(g)
    BY <1>2, NoMore
  <2> QED BY <1>2 DEF MayName, Makers, Ensure!AtName, Ensure!At, Ensure!KeyIds
<1> QED BY <1>1, <1>2 DEF Ensure!EndCall, Ensure!ChangeGroup, Ensure!vars

LEMMA InitCount == ASSUME Ensure!EnsureAssumption, Ensure!Init, KeysInv PROVE CountInv
<1>1. /\ work = [c \in Calls |-> [rt \in Routes |-> Ensure!Done]] /\ Ensure!Done.pc = "done"
      /\ most = [g \in SourceGroups |-> 0]
  BY DEF Ensure!Init, Ensure!Done
<1>2. \A k \in Ensure!KeyIds : remote[k].name \in Routes
  <2>3. PICK grp \in [Routes -> SourceGroups], made \in [Routes -> SourceGroups], legacy \in SUBSET Routes,
             id \in [Routes -> 1..Ensure!Cardinality(Routes)] :
          /\ \A a, b \in legacy : id[a] = id[b] => a = b
          /\ {id[rt] : rt \in legacy} = 1..Ensure!Cardinality(legacy)
          /\ \A rt \in Routes \ legacy : id[rt] = 1 /\ made[rt] = grp[rt]
          /\ remote = [k \in 1..Ensure!Cardinality(legacy) |->
                         LET rt == CHOOSE a \in legacy : id[a] = k
                         IN  [name |-> rt, group |-> made[rt]]]
          /\ bound = [rt \in Routes |->
                        [group |-> grp[rt],
                         key |-> IF rt \in legacy THEN id[rt] ELSE Ensure!NoKey,
                         name |-> rt]]
    BY Zenon DEF Ensure!Init
  <2> SUFFICES ASSUME NEW k \in Ensure!KeyIds PROVE remote[k].name \in Routes
    OBVIOUS
  <2>4. k \in {id[rt] : rt \in legacy} BY <2>3 DEF Ensure!KeyIds
  <2>5. remote[k].name = CHOOSE a \in legacy : id[a] = k BY <2>3 DEF Ensure!KeyIds
  <2>6. \E a \in legacy : id[a] = k BY <2>4
  <2> QED BY <2>5, <2>6
<1> SUFFICES ASSUME NEW g \in SourceGroups
             PROVE  /\ Cardinality(Ensure!AtName(g)) <= most[g]
                    /\ Cardinality(MayName(g)) + Cardinality(Makers(g)) <= most[g]
  <2>1. Cardinality(Calls) \in Nat BY Finite
  <2> QED BY <1>1, <2>1 DEF CountInv
<1>3. Ensure!AtName(g) = {} BY <1>1 DEF Ensure!AtName, Ensure!At, Ensure!Critical
<1>4. Makers(g) = {} BY <1>1 DEF Makers
<1>5. MayName(g) = {}
  <2>1. g \notin Routes BY DEF Ensure!EnsureAssumption
  <2> QED BY <1>1, <1>2, <2>1 DEF MayName
<1> QED BY <1>1, <1>3, <1>4, <1>5, FS_EmptySet

LEMMA KeysInvariant ==
    ASSUME Ensure!EnsureAssumption
    PROVE  Ensure!Spec => [](KeysInv /\ CountInv)
<1>1. Ensure!Init => KeysInv /\ CountInv BY InitKeys, InitCount
<1>2. KeysInv /\ CountInv /\ [Ensure!Next]_Ensure!vars => CountInv'
  BY RouteCount, CallCount DEF Ensure!Next
<1> QED BY <1>1, <1>2, NextKeys, PTL DEF Ensure!Spec

-----------------------------------------------------------------------------
(* The theorems *)

\* Goroutines and routes only ever hold ids the upstream has given out, and everything else
\* keeps its type, for any routes and any bounds.
THEOREM KeyTypes ==
    ASSUME Ensure!EnsureAssumption
    PROVE  Ensure!Spec => []Ensure!TypeOK
<1>1. KeysInv /\ CountInv => Ensure!TypeOK
  <2> SUFFICES ASSUME KeysInv, CountInv PROVE Ensure!TypeOK
    OBVIOUS
  <2>1. most \in [SourceGroups -> 0..Ensure!Cardinality(Calls)] BY EnsureCounts DEF CountInv
  <2> QED BY <2>1 DEF KeysInv, Types, Ensure!TypeOK, KeyRow, RouteRow, Goroutine, Holding, Ids
<1> QED BY <1>1, KeysInvariant, PTL

\* "Ensure of keys of one name is serial" (EnsureRouteKeys): whatever fails in between,
\* however many goroutines work and however calls overlap, a name is given to no more keys
\* than calls that have been at it at a time, so to one if calls do not meet; and the key of
\* a route belongs to the source group the route was given it for, as long as no route moves.
THEOREM KeysStaySound ==
    ASSUME Ensure!EnsureAssumption
    PROVE  Ensure!Spec => []Ensure!KeysAreSound
<1>1. ASSUME KeysInv PROVE Ensure!KeyServesItsGroup
  <2> SUFFICES ASSUME edits = 0, NEW rt \in Routes, bound[rt].name \in SourceGroups
              
               PROVE  bound[rt].key \in Ensure!KeyIds /\ remote[bound[rt].key].group = bound[rt].name
    BY DEF Ensure!KeyServesItsGroup
  <2> DEFINE k == bound[rt].key
  <2>1. Given(rt) BY <1>1 DEF KeysInv
  <2>2. bound[rt].name = bound[rt].group
    <3>1. SourceGroups \cap Routes = {} BY DEF Ensure!EnsureAssumption
    <3> QED BY <2>1, <3>1 DEF Given
  <2>3. k \in Ensure!KeyIds /\ remote[k].name = bound[rt].name BY <2>1, <2>2 DEF Given, Own
  <2> QED BY <1>1, <2>3 DEF KeysInv, KeysMatch
<1>2. ASSUME KeysInv, CountInv PROVE Ensure!KeysPerName
  <2> SUFFICES ASSUME NEW g \in SourceGroups PROVE Cardinality(Ensure!Named(g)) <= most[g]
    BY EnsureCounts DEF Ensure!KeysPerName
  <2> DEFINE a == Cardinality(MayName(g)) b == Cardinality(Makers(g)) n == Cardinality(Ensure!Named(g))
  <2>1. Ensure!Named(g) \in SUBSET MayName(g) BY DEF Ensure!Named, MayName
  <2>2. n <= a /\ n \in Nat BY <1>2, <2>1, Finite, FS_Subset, FS_CardinalityType
  <2>3. a \in Nat /\ b \in Nat /\ a + b <= most[g] /\ most[g] \in Nat
    BY <1>2, Finite DEF CountInv
  <2> HIDE DEF a, b, n
  <2>4. n <= most[g] BY <2>2, <2>3
  <2> QED BY <2>4 DEF n
<1> QED BY <1>1, <1>2, KeysInvariant, PTL DEF Ensure!KeysAreSound

-----------------------------------------------------------------------------
(* Both machines, as MCSourceGroupCache puts them next to each other *)

\* Whichever runs, either behaves as its own specification.
LEMMA Apart == MCSpec => Spec /\ Ensure!Spec
<1>1. MCInit => Init /\ Ensure!Init BY DEF MCInit, EnsureIdle
<1>2. [MCNext]_allVars => [Next]_vars /\ [Ensure!Next]_(Ensure!vars)
  BY DEF MCNext, allVars, ensureVars, vars, Ensure!vars
<1> QED BY <1>1, <1>2, PTL DEF MCSpec, Spec, Ensure!Spec

\* Every variable of the cache and of the keys keeps its type, and no call asks more
\* channels at once than the semaphore allows.
THEOREM MachineTypes ==
    ASSUME CacheAssumption, Ensure!EnsureAssumption PROVE MCSpec => []TypesOK
BY TypeCorrect, KeyTypes, Apart, PTL DEF TypesOK

\* A name is given to no more keys than calls that met at it, and the key of a route is of
\* the source group the route was given it for, as long as no route moves.
THEOREM KeysRemainSound ==
    ASSUME Ensure!EnsureAssumption PROVE MCSpec => []KeysAreSound
BY KeysStaySound, Apart, PTL DEF KeysAreSound
=============================================================================
