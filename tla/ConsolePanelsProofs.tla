------------------------ MODULE ConsolePanelsProofs -------------------------
(***************************************************************************)
(* The panels of the gateway page, proved for any models, groups, keys,    *)
(* providers and filters and any number of clicks and requests: a write    *)
(* changes what was asked for and nothing beside it, the flags that lock   *)
(* the buttons are exact, and a panel at rest shows what the server has.   *)
(* Each panel has an invariant, stated next to its properties in its own   *)
(* module, and the panels are put together at the end (PartInv).           *)
(***************************************************************************)
EXTENDS MCConsolePanels, FiniteSetTheorems, TLAPS

-----------------------------------------------------------------------------
(* Testing the models of a group (ModelTest) *)

LEMMA TestStarts == Test!Init => Test!TestInv
BY DEF Test!Init, Test!TestInv, Test!FlagNamesATest, Test!DialogShowsItsModel, Test!NoneShown

LEMMA TestFlag ==
    ASSUME Test!FlagNamesATest, Test!Next PROVE Test!FlagNamesATest'
<1>1. ASSUME NEW m \in Models, NEW r \in Routes \cup {Every}, Test!RunModelTestFor(m, r)
      PROVE  Test!FlagNamesATest'
  <2>1. PICK t : t = [group |-> c1, model |-> m, route |-> r]
    OBVIOUS
  <2>2. c7' = c7 \cup {t} /\ c3' = [model |-> m, route |-> r]
    BY <1>1, <2>1 DEF Test!RunModelTestFor
  <2>3. t \in c7' /\ t.model = c3'.model /\ t.route = c3'.route
    BY <2>1, <2>2
  <2> QED
    BY <2>3 DEF Test!FlagNamesATest
<1>2. ASSUME NEW m \in Models, Test!OpenModelTest(m)
      PROVE  Test!FlagNamesATest'
  BY <1>2 DEF Test!FlagNamesATest, Test!OpenModelTest
<1>3. CASE \/ Test!CloseDialog \/ \E g \in Groups : Test!SelectGroup(g)
           \/ \E t \in c7 : Test!TestAnswered(t) \/ Test!TestFailed(t)
  BY <1>3 DEF Test!FlagNamesATest, Test!CloseDialog, Test!SelectGroup, Test!TestAnswered, Test!TestFailed
<1> QED
  BY <1>1, <1>2, <1>3 DEF Test!Next

\* An answer is shown only in a dialog that is open for its model.
LEMMA TestDialog ==
    ASSUME Test!TestInv, Test!Next
    PROVE  Test!DialogShowsItsModel' /\ c6' \in [model : {c6'.model}, of : {c6'.of}]
<1>1. CASE Test!CloseDialog
  BY <1>1 DEF Test!TestInv, Test!DialogShowsItsModel, Test!CloseDialog
<1>2. ASSUME NEW m \in Models, Test!OpenModelTest(m) \/ \E r \in Routes \cup {Every} : Test!RunModelTestFor(m, r)
      PROVE  Test!DialogShowsItsModel' /\ c6' \in [model : {c6'.model}, of : {c6'.of}]
  BY <1>2 DEF Test!TestInv, Test!DialogShowsItsModel, Test!OpenModelTest, Test!RunModelTestFor
<1>3. ASSUME NEW g \in Groups, Test!SelectGroup(g)
      PROVE  Test!DialogShowsItsModel' /\ c6' \in [model : {c6'.model}, of : {c6'.of}]
  BY <1>3 DEF Test!DialogShowsItsModel, Test!SelectGroup, Test!NoneShown
<1>4. ASSUME NEW t \in c7, Test!TestAnswered(t)
      PROVE  Test!DialogShowsItsModel' /\ c6' \in [model : {c6'.model}, of : {c6'.of}]
  <2>1. PICK some : c6' = Test!DialogAfter(t, some)
    BY <1>4 DEF Test!TestAnswered
  <2>2. UNCHANGED <<c4, c5>>
    BY <1>4 DEF Test!TestAnswered
  <2>3. CASE c4 /\ c5 = t.model
    <3>1. PICK of : of = Test!Measured(t, c6.of, some)
      OBVIOUS
    <3>2. c6' = [c6 EXCEPT !.model = t.model, !.of = of]
      BY <2>1, <2>3, <3>1 DEF Test!DialogAfter
    <3>3. c6' \in [model : {t.model}, of : {of}]
      BY <3>2 DEF Test!TestInv
    <3> QED
      BY <2>2, <2>3, <3>3 DEF Test!DialogShowsItsModel
  <2>4. CASE ~(c4 /\ c5 = t.model)
    BY <2>1, <2>2, <2>4 DEF Test!DialogAfter, Test!TestInv, Test!DialogShowsItsModel
  <2> QED
    BY <2>3, <2>4
<1>5. ASSUME NEW t \in c7, Test!TestFailed(t)
      PROVE  Test!DialogShowsItsModel' /\ c6' \in [model : {c6'.model}, of : {c6'.of}]
  BY <1>5 DEF Test!TestInv, Test!DialogShowsItsModel, Test!TestFailed
<1> QED
  BY <1>1, <1>2, <1>3, <1>4, <1>5 DEF Test!Next

LEMMA TestStep ==
    ASSUME Test!TestInv, Test!Next PROVE Test!TestInv'
BY TestFlag, TestDialog DEF Test!TestInv

-----------------------------------------------------------------------------
(* The table of usage records (UsageTable) *)

\* A number of another range comes from an answer; every other step takes it away with
\* the range, or leaves both.
LEMMA LogStep ==
    ASSUME Log!Next PROVE Log!StaleCountStep
<1>1. ASSUME NEW x \in Log!Ranges, Log!ChangeRange(x)
      PROVE  Log!StaleCountStep
  BY <1>1 DEF Log!StaleCountStep, Log!CountFits, Log!ChangeRange, Log!NoCount
<1>2. CASE Log!OpenDialog \/ Log!Reload
  BY <1>2 DEF Log!StaleCountStep, Log!CountFits, Log!OpenDialog, Log!Reload, Log!NoCount
<1>3. CASE Log!PreviewAnswered
  BY <1>3 DEF Log!StaleCountStep, Log!PreviewAnswered
<1>4. CASE UNCHANGED <<c7, c9>>
  BY <1>4 DEF Log!StaleCountStep, Log!CountFits
<1>5. (\E q \in Requests : Log!Attempt(q)) \/ (\E c \in Columns : Log!ToggleCol(c)) => UNCHANGED <<c7, c9>>
  BY DEF Log!Attempt, Log!ToggleCol, Log!dialog
<1>6. Log!ShowPage \/ Log!ResetCols \/ Log!CloseDialog => UNCHANGED <<c7, c9>>
  BY DEF Log!ShowPage, Log!ResetCols, Log!CloseDialog, Log!dialog
<1>7. Log!Tick \/ Log!RunPreview \/ Log!RunCleanup \/ Log!CleanupAnswered \/ Log!Failed => UNCHANGED <<c7, c9>>
  BY DEF Log!Tick, Log!RunPreview, Log!RunCleanup, Log!CleanupAnswered, Log!Failed
<1> QED
  BY <1>1, <1>2, <1>3, <1>4, <1>5, <1>6, <1>7 DEF Log!Next

-----------------------------------------------------------------------------
(* The model list of a group (ModelList) *)

LEMMA ListStarts == List!Init => List!ListInv
BY DEF List!Init, List!ListInv

LEMMA ListLocalCustom == List!Custom(c3) \subseteq Models /\ List!Custom(c3) \subseteq List!LocalCustom
BY DEF List!Custom, List!LocalCustom

\* A new call holds the buttons only if nothing does.
LEMMA ListCalls ==
    ASSUME List!ListInv, NEW n, c8' = c8 \cup {n},
           List!IsCall(n), n.had \subseteq Models, n.had \subseteq n.models,
           IF List!Holds(n) THEN ~c6 /\ c6' = TRUE ELSE UNCHANGED c6
    PROVE  List!ListInv'
<1>1. \A c \in c8' : List!IsCall(c) /\ c.had \subseteq Models /\ c.had \subseteq c.models
  BY DEF List!ListInv
<1>2. CASE List!Holds(n)
  BY <1>1, <1>2 DEF List!ListInv, List!IsCall, List!Holds
<1>3. CASE ~List!Holds(n)
  BY <1>1, <1>3 DEF List!ListInv, List!IsCall, List!Holds
<1> QED
  BY <1>2, <1>3

\* A call goes on.
LEMMA ListMoves ==
    ASSUME List!ListInv, NEW c \in c8, NEW list, NEW md, NEW st, UNCHANGED c6,
           c8' = (c8 \ {c}) \cup {[c EXCEPT !.state = st, !.list = list, !.mode = md]}
    PROVE  List!ListInv'
<1>1. c \in [op : {c.op}, had : {c.had}, models : {c.models}, pending : {c.pending},
             list : {c.list}, mode : {c.mode}, state : {c.state}]
  BY DEF List!ListInv, List!IsCall
<1> DEFINE new == [c EXCEPT !.state = st, !.list = list, !.mode = md]
<1>2. new \in [op : {c.op}, had : {c.had}, models : {c.models}, pending : {c.pending},
               list : {list}, mode : {md}, state : {st}]
  BY <1>1
<1>3. c8' = (c8 \ {c}) \cup {new}
  OBVIOUS
<1> HIDE DEF new
<1> QED
  BY <1>2, <1>3 DEF List!ListInv, List!IsCall, List!Holds

\* A call ends, and gives the buttons back if it held them.
LEMMA ListEnds ==
    ASSUME List!ListInv, NEW c \in c8, c8' = c8 \ {c}, c6' = (c6 /\ c.op = "catalog")
    PROVE  List!ListInv'
BY DEF List!ListInv, List!IsCall, List!Holds

LEMMA ListStep ==
    ASSUME List!ListInv, List!Next PROVE List!ListInv'
<1>1. CASE List!TypeCustomModel \/ List!AddCustomModel \/ List!OpenCatalog \/ List!ChooseModels \/ List!CloseCatalog
           \/ (\E m \in Models : List!DeleteModel(m)) \/ \E md \in List!ModeNames : List!ChooseMode(md)
  <2>1. UNCHANGED <<c6, c8>>
    BY <1>1 DEF List!TypeCustomModel, List!AddCustomModel, List!OpenCatalog, List!ChooseModels,
       List!CloseCatalog, List!DeleteModel, List!ChooseMode
  <2> QED
    BY <2>1 DEF List!ListInv, List!IsCall, List!Holds
<1>2. CASE List!SyncModels
  <2>1. PICK n : n = List!Call("sync", List!Custom(c3), List!LocalCustom, c3, c4)
    OBVIOUS
  <2>2. n.op = "sync" /\ n.had = List!Custom(c3) /\ n.models = List!LocalCustom
    BY <2>1 DEF List!Call
  <2>3. List!IsCall(n)
    BY <2>1 DEF List!Call, List!IsCall
  <2>4. n.had \subseteq Models /\ n.had \subseteq n.models
    BY <2>2, ListLocalCustom
  <2>5. c8' = c8 \cup {n} /\ IF List!Holds(n) THEN ~c6 /\ c6' = TRUE ELSE UNCHANGED c6
    BY <1>2, <2>1, <2>2 DEF List!SyncModels, List!Holds
  <2> QED
    BY <2>3, <2>4, <2>5, ListCalls
<1>3. CASE List!SaveConfig
  <2>1. PICK n : n = List!Call("save", {}, {}, c3, c4)
    OBVIOUS
  <2>2. n.op = "save" /\ n.had = {} /\ n.models = {}
    BY <2>1 DEF List!Call
  <2>3. List!IsCall(n)
    BY <2>1 DEF List!Call, List!IsCall
  <2>4. n.had \subseteq Models /\ n.had \subseteq n.models
    BY <2>2
  <2>5. c8' = c8 \cup {n} /\ IF List!Holds(n) THEN ~c6 /\ c6' = TRUE ELSE UNCHANGED c6
    BY <1>3, <2>1, <2>2 DEF List!SaveConfig, List!Holds
  <2> QED
    BY <2>3, <2>4, <2>5, ListCalls
<1>4. CASE List!ApplyCatalog
  <2>1. PICK n : n = List!Call("catalog", {}, c7.chosen, c3, c4)
    OBVIOUS
  <2>2. n.op = "catalog" /\ n.had = {} /\ n.models = c7.chosen
    BY <2>1 DEF List!Call
  <2>3. List!IsCall(n)
    BY <2>1 DEF List!Call, List!IsCall
  <2>4. n.had \subseteq Models /\ n.had \subseteq n.models
    BY <2>2
  <2>5. c8' = c8 \cup {n} /\ IF List!Holds(n) THEN ~c6 /\ c6' = TRUE ELSE UNCHANGED c6
    BY <1>4, <2>1, <2>2 DEF List!ApplyCatalog, List!Holds
  <2> QED
    BY <2>3, <2>4, <2>5, ListCalls
<1>5. ASSUME NEW c \in c8, List!ReadRow(c)
      PROVE  List!ListInv'
  BY <1>5, ListMoves DEF List!ReadRow
<1>6. ASSUME NEW c \in c8, List!WriteRow(c)
      PROVE  List!ListInv'
  <2>1. PICK list, md : list = c1' /\ md = c2'
    OBVIOUS
  <2> QED
    BY <1>6, <2>1, ListMoves DEF List!WriteRow
<1>7. ASSUME NEW c \in c8, List!Answered(c) \/ List!Failed(c)
      PROVE  List!ListInv'
  <2>1. c8' = c8 \ {c}
    BY <1>7 DEF List!Answered, List!Failed
  <2>2. c6' = (c6 /\ c.op = "catalog")
    BY <1>7 DEF List!ListInv, List!Answered, List!Failed, List!SyncAnswered, List!CatalogAnswered, List!SaveAnswered
  <2> QED
    BY <2>1, <2>2, ListEnds
<1> QED
  BY <1>1, <1>2, <1>3, <1>4, <1>5, <1>6, <1>7 DEF List!Next

\* What was sent with a synchronisation is in the draft after its answer.
LEMMA ListSyncStep ==
    ASSUME List!ListInv, List!Next PROVE List!SyncStep
<1> SUFFICES ASSUME NEW c \in c8, c.op = "sync", c.state = "done", c \notin c8', c3' # c3
             PROVE  c.had \subseteq List!In(c3')
  BY DEF List!SyncStep
<1>1. c.had \subseteq Models /\ c.had \subseteq c.models
  BY DEF List!ListInv
<1>2. List!SyncAnswered(c)
  <2>1. CASE \E d \in c8 : List!Answered(d)
    BY <2>1 DEF List!Answered, List!CatalogAnswered, List!SaveAnswered, List!SyncAnswered
  <2>2. CASE \E d \in c8 : List!ReadRow(d) \/ List!WriteRow(d) \/ List!Failed(d)
    BY <2>2 DEF List!ReadRow, List!WriteRow, List!Failed
  <2>3. CASE List!TypeCustomModel \/ List!AddCustomModel \/ List!OpenCatalog \/ List!ChooseModels \/ List!CloseCatalog
             \/ List!SyncModels \/ List!SaveConfig \/ List!ApplyCatalog
             \/ (\E m \in Models : List!DeleteModel(m)) \/ \E md \in List!ModeNames : List!ChooseMode(md)
    BY <2>3 DEF List!TypeCustomModel, List!AddCustomModel, List!OpenCatalog, List!ChooseModels,
       List!CloseCatalog, List!DeleteModel, List!ChooseMode, List!SyncModels, List!SaveConfig, List!ApplyCatalog
  <2> QED
    BY <2>1, <2>2, <2>3 DEF List!Next
<1>3. c3' = [m \in Models |-> IF c.list[m] = "no" /\ m \in c.models THEN "custom" ELSE c.list[m]]
  BY <1>2 DEF List!SyncAnswered
<1> QED
  BY <1>1, <1>3 DEF List!In

\* Only the writing of the synchronisation itself takes it on and changes the row.
LEMMA ListStoredStep ==
    ASSUME List!ListInv, List!Next PROVE List!StoredStep
<1> SUFFICES ASSUME NEW c \in c8, c.op = "sync", c.state = "read", c \notin c8', c1' # c1
             PROVE  List!Custom(c.list) \cup c.had \subseteq List!In(c1')
  BY DEF List!StoredStep
<1>1. c.had \subseteq Models /\ c.had \subseteq c.models
  BY DEF List!ListInv
<1>2. List!WriteRow(c)
  <2>1. CASE \E d \in c8 : List!WriteRow(d)
    BY <2>1 DEF List!WriteRow
  <2>2. CASE \E d \in c8 : List!Answered(d) \/ List!ReadRow(d) \/ List!Failed(d)
    BY <2>2 DEF List!Answered, List!ReadRow, List!Failed
  <2>3. CASE List!TypeCustomModel \/ List!AddCustomModel \/ List!OpenCatalog \/ List!ChooseModels \/ List!CloseCatalog
             \/ List!SyncModels \/ List!SaveConfig \/ List!ApplyCatalog
             \/ (\E m \in Models : List!DeleteModel(m)) \/ \E md \in List!ModeNames : List!ChooseMode(md)
    BY <2>3 DEF List!TypeCustomModel, List!AddCustomModel, List!OpenCatalog, List!ChooseModels, List!Click,
       List!CloseCatalog, List!DeleteModel, List!ChooseMode, List!SyncModels, List!SaveConfig, List!ApplyCatalog
  <2> QED
    BY <2>1, <2>2, <2>3 DEF List!Next
<1>3. PICK up : c1' = [m \in Models |-> IF m \in up THEN "sync"
                                      ELSE IF m \in List!Custom(c.list) \cup c.models THEN "custom" ELSE "no"]
  BY <1>2 DEF List!WriteRow, List!Synced
<1>4. List!Custom(c.list) \subseteq Models
  BY DEF List!Custom
<1> QED
  BY <1>1, <1>3, <1>4 DEF List!In

\* One that holds is a single one.
LEMMA ListBusyIsExact == List!ListInv => List!BusyIsExact
<1> SUFFICES ASSUME List!ListInv PROVE List!BusyIsExact
  OBVIOUS
<1>1. PICK holding : holding = {c \in c8 : c.op # "catalog"}
  OBVIOUS
<1>2. holding = {} \/ \E c : holding = {c}
  BY <1>1 DEF List!ListInv, List!Holds
<1>3. c6 <=> holding # {}
  BY <1>1 DEF List!ListInv, List!Holds
<1>4. List!Cardinality(holding) = Cardinality(holding)
  BY DEF List!Cardinality, Cardinality
<1>5. Cardinality(holding) = 0 \/ Cardinality(holding) = 1
  BY <1>2, FS_EmptySet, FS_Singleton
<1> QED
  BY <1>1, <1>3, <1>4, <1>5 DEF List!BusyIsExact

-----------------------------------------------------------------------------
(* Rules for selected keys (KeyRules) *)

\* The parts of the invariant: what the variables hold, and a call.
RulesVars ==
    /\ c1 \subseteq c2 /\ c2 \subseteq KeyIds /\ c4 \subseteq c2
    /\ Rules!AllNamed(c3) /\ Rules!AllNamed(c5) /\ c6 \in BOOLEAN
RulesCall(c) ==
    /\ Rules!IsCall(c) /\ Rules!Named(c.rule) /\ Rules!AllNamed(c.row) /\ c.ids \subseteq c2
    /\ c.op \in Rules!Kinds \cup {"create"} => c.holds
    /\ c.holds => c6
    /\ c.state = "checked" => Rules!Read(c)

LEMMA RulesParts ==
    Rules!RulesInv <=> /\ RulesVars
                       /\ \A c \in c7 : RulesCall(c)
                       /\ \A c, d \in c7 : c.holds /\ d.holds => c = d
BY DEF Rules!RulesInv, Rules!RuleTypes, RulesVars, RulesCall

LEMMA RulesEveryone == Rules!Named(Rules!Everyone) /\ Rules!AllNamed([kind \in Rules!Kinds |-> Rules!Everyone])
BY DEF Rules!Named, Rules!AllNamed, Rules!Everyone, Rules!Rule

LEMMA RulesStart == Rules!Init => Rules!RulesInv
<1> SUFFICES ASSUME Rules!Init PROVE Rules!RulesInv
  OBVIOUS
<1>1. Rules!AllNamed(c3)
  BY DEF Rules!Init, Rules!AllNamed, Rules!Named, Rules!Rule, Rules!Everyone
<1> QED
  BY <1>1 DEF Rules!Init, Rules!RulesInv, Rules!RuleTypes

\* Rules stay named while ids are given out, and so does a call that nothing touches.
LEMMA RulesNamed ==
    ASSUME c2 \subseteq c2', NEW rule, NEW rules
    PROVE  /\ Rules!Named(rule) => Rules!Named(rule)'
           /\ Rules!AllNamed(rules) => Rules!AllNamed(rules)'
BY DEF Rules!Named, Rules!AllNamed

LEMMA RulesOther ==
    ASSUME Rules!RulesInv, NEW d \in c7, c2 \subseteq c2', d.holds => c6',
           (d.state = "checked" /\ Rules!Read(d)) => Rules!Read(d)'
    PROVE  RulesCall(d)'
<1>1. RulesCall(d)
  BY RulesParts
<1>2. Rules!Named(d.rule)' /\ Rules!AllNamed(d.row)'
  BY <1>1, RulesNamed DEF RulesCall
<1> QED
  BY <1>1, <1>2 DEF RulesCall, Rules!IsCall

\* A call is followed by another, or by none.
LEMMA RulesReplaced ==
    ASSUME Rules!RulesInv, NEW c \in c7, NEW n, c7' = (c7 \ {c}) \cup {n},
           RulesCall(n)', n.holds => c.holds, RulesVars', \A d \in c7 \ {c} : RulesCall(d)'
    PROVE  Rules!RulesInv'
<1>1. \A d, e \in c7' : d.holds /\ e.holds => d = e
  BY DEF Rules!RulesInv
<1>2. \A d \in c7' : RulesCall(d)'
  OBVIOUS
<1> QED
  BY <1>1, <1>2 DEF Rules!RulesInv, Rules!RuleTypes, RulesVars, RulesCall

LEMMA RulesDropped ==
    ASSUME Rules!RulesInv, NEW c \in c7, c7' = c7 \ {c}, RulesVars', \A d \in c7 \ {c} : RulesCall(d)'
    PROVE  Rules!RulesInv'
<1>1. \A d, e \in c7' : d.holds /\ e.holds => d = e
  BY DEF Rules!RulesInv
<1> QED
  BY <1>1 DEF Rules!RulesInv, Rules!RuleTypes, RulesVars, RulesCall

\* A new call, at a click.
LEMMA RulesNewCall ==
    ASSUME Rules!RulesInv, NEW n, c7' = c7 \cup {n},
           Rules!IsCall(n), n.state = "sent", Rules!Named(n.rule), n.ids \subseteq c2,
           n.row = [kind \in Rules!Kinds |-> Rules!Everyone],
           n.op \in Rules!Kinds \cup {"create"} => n.holds,
           IF n.holds THEN ~c6 /\ c6' = TRUE ELSE UNCHANGED c6,
           UNCHANGED <<c1, c2, c3, c4, c5>>
    PROVE  Rules!RulesInv'
<1>1. RulesVars'
  BY RulesParts, RulesNamed DEF RulesVars
<1>2. RulesCall(n)'
  BY RulesEveryone, RulesNamed DEF RulesCall, Rules!IsCall
<1>3. \A d \in c7 : RulesCall(d)'
  <2> SUFFICES ASSUME NEW d \in c7 PROVE RulesCall(d)'
    OBVIOUS
  <2>1. d.holds => c6
    BY DEF Rules!RulesInv
  <2>2. Rules!Read(d) => Rules!Read(d)'
    BY DEF Rules!Read, Rules!NoWider
  <2> QED
    BY <2>1, <2>2, RulesOther
<1>4. \A d, e \in c7' : d.holds /\ e.holds => d = e
  BY DEF Rules!RulesInv
<1>5. \A d \in c7' : RulesCall(d)'
  BY <1>2, <1>3
<1> QED
  BY <1>1, <1>4, <1>5 DEF Rules!RulesInv, Rules!RuleTypes, RulesVars, RulesCall

\* Edits of the drafts name keys of the list.
LEMMA RulesEdits ==
    ASSUME Rules!RulesInv, NEW kind \in Rules!Kinds,
           Rules!ScopeAll(kind) \/ Rules!ScopeSelected(kind) \/ Rules!SelectKeys(kind)
    PROVE  Rules!RulesInv'
<1>1. UNCHANGED <<c1, c2, c3, c4, c6, c7>>
  BY DEF Rules!ScopeAll, Rules!ScopeSelected, Rules!SelectKeys, Rules!Click
<1>2. RulesVars
  BY RulesParts
<1>3. PICK rule : Rules!Named(rule) /\ c5' = [c5 EXCEPT ![kind] = rule]
  <2>1. CASE Rules!ScopeAll(kind)
    BY <2>1, RulesEveryone DEF Rules!ScopeAll
  <2>2. CASE Rules!ScopeSelected(kind)
    <3>1. PICK k \in c4 : c5' = [c5 EXCEPT ![kind] = [scope |-> "selected", ids |-> {k}]]
      BY <2>2 DEF Rules!ScopeSelected
    <3>2. Rules!Named([scope |-> "selected", ids |-> {k}])
      BY <1>2 DEF RulesVars, Rules!Named, Rules!Rule
    <3> QED
      BY <3>1, <3>2
  <2>3. CASE Rules!SelectKeys(kind)
    <3>1. PICK old : old = c5[kind]
      OBVIOUS
    <3>2. PICK k \in c4 : \E ids \in {c4, {}, old.ids \cup {k}, old.ids \ {k}} : c5' = [c5 EXCEPT ![kind].ids = ids]
      BY <2>3, <3>1 DEF Rules!SelectKeys
    <3>3. Rules!Named(old) /\ old.scope = "selected"
      BY <1>2, <2>3, <3>1 DEF RulesVars, Rules!AllNamed, Rules!SelectKeys
    <3>4. PICK ids : ids \subseteq c2 /\ c5' = [c5 EXCEPT ![kind].ids = ids]
      BY <1>2, <3>2, <3>3 DEF RulesVars, Rules!Named
    <3>5. Rules!Named([old EXCEPT !.ids = ids])
      BY <1>2, <3>3, <3>4 DEF RulesVars, Rules!Named, Rules!Rule
    <3>6. c5' = [c5 EXCEPT ![kind] = [old EXCEPT !.ids = ids]]
      BY <3>1, <3>4
    <3> QED
      BY <3>5, <3>6
  <2> QED
    BY <2>1, <2>2, <2>3
<1>4. Rules!AllNamed(c5)'
  BY <1>1, <1>2, <1>3 DEF RulesVars, Rules!AllNamed, Rules!Named
<1>5. RulesVars'
  BY <1>1, <1>2, <1>4 DEF RulesVars, Rules!AllNamed, Rules!Named
<1>6. \A d \in c7' : RulesCall(d)'
  <2> SUFFICES ASSUME NEW d \in c7 PROVE RulesCall(d)'
    BY <1>1
  <2>1. Rules!Read(d) => Rules!Read(d)'
    BY <1>1 DEF Rules!Read, Rules!NoWider
  <2> QED
    BY <1>1, <2>1, RulesOther DEF Rules!RulesInv
<1>7. \A d, e \in c7' : d.holds /\ e.holds => d = e
  BY <1>1 DEF Rules!RulesInv
<1> QED
  BY <1>5, <1>6, <1>7 DEF Rules!RulesInv, Rules!RuleTypes, RulesVars, RulesCall

LEMMA RulesClicks ==
    ASSUME Rules!RulesInv,
           Rules!SavePromptInjection \/ Rules!SaveGroupConfig \/ Rules!CreateKey \/ \E k \in KeyIds : Rules!DeleteKey(k)
    PROVE  Rules!RulesInv'
<1>1. Rules!Named(c5["prompt"]) /\ Rules!Named(c5["tier"]) /\ c4 \subseteq c2
  BY RulesParts DEF RulesVars, Rules!AllNamed, Rules!Kinds
<1>2. CASE Rules!SavePromptInjection
  <2>1. PICK n : n = Rules!Call("prompt", c5["prompt"], {}, TRUE)
    OBVIOUS
  <2>2. Rules!IsCall(n)
    BY <2>1 DEF Rules!Call, Rules!IsCall
  <2>3. /\ n.op = "prompt" /\ n.rule = c5["prompt"] /\ n.ids = {} /\ n.holds = TRUE /\ n.state = "sent"
        /\ n.row = [kind \in Rules!Kinds |-> Rules!Everyone]
    BY <2>1 DEF Rules!Call
  <2>4. c7' = c7 \cup {n} /\ UNCHANGED <<c1, c2, c3, c4, c5>> /\ ~c6 /\ c6' = TRUE
    BY <1>2, <2>1 DEF Rules!SavePromptInjection, Rules!Click
  <2> QED
    BY <1>1, <2>2, <2>3, <2>4, RulesEveryone, RulesNewCall DEF Rules!Kinds
<1>3. CASE Rules!SaveGroupConfig
  <2>1. PICK n : n = Rules!Call("tier", c5["tier"], {}, TRUE)
    OBVIOUS
  <2>2. Rules!IsCall(n)
    BY <2>1 DEF Rules!Call, Rules!IsCall
  <2>3. /\ n.op = "tier" /\ n.rule = c5["tier"] /\ n.ids = {} /\ n.holds = TRUE /\ n.state = "sent"
        /\ n.row = [kind \in Rules!Kinds |-> Rules!Everyone]
    BY <2>1 DEF Rules!Call
  <2>4. c7' = c7 \cup {n} /\ UNCHANGED <<c1, c2, c3, c4, c5>> /\ ~c6 /\ c6' = TRUE
    BY <1>3, <2>1 DEF Rules!SaveGroupConfig, Rules!Click
  <2> QED
    BY <1>1, <2>2, <2>3, <2>4, RulesEveryone, RulesNewCall DEF Rules!Kinds
<1>4. CASE Rules!CreateKey
  <2>1. PICK n : n = Rules!Call("create", Rules!Everyone, {}, TRUE)
    OBVIOUS
  <2>2. Rules!IsCall(n)
    BY <2>1 DEF Rules!Call, Rules!IsCall
  <2>3. /\ n.op = "create" /\ n.rule = Rules!Everyone /\ n.ids = {} /\ n.holds = TRUE /\ n.state = "sent"
        /\ n.row = [kind \in Rules!Kinds |-> Rules!Everyone]
    BY <2>1 DEF Rules!Call
  <2>4. c7' = c7 \cup {n} /\ UNCHANGED <<c1, c2, c3, c4, c5>> /\ ~c6 /\ c6' = TRUE
    BY <1>4, <2>1 DEF Rules!CreateKey, Rules!Click
  <2> QED
    BY <1>1, <2>2, <2>3, <2>4, RulesEveryone, RulesNewCall DEF Rules!Kinds
<1>5. ASSUME NEW k \in KeyIds, Rules!DeleteKey(k)
      PROVE  Rules!RulesInv'
  <2>1. PICK n : n = Rules!Call("delete", Rules!Everyone, {k}, FALSE)
    OBVIOUS
  <2>2. Rules!IsCall(n)
    BY <2>1 DEF Rules!Call, Rules!IsCall
  <2>3. /\ n.op = "delete" /\ n.rule = Rules!Everyone /\ n.ids = {k} /\ n.holds = FALSE /\ n.state = "sent"
        /\ n.row = [kind \in Rules!Kinds |-> Rules!Everyone]
    BY <2>1 DEF Rules!Call
  <2>4. c7' = c7 \cup {n} /\ UNCHANGED <<c1, c2, c3, c4, c5>> /\ UNCHANGED c6
    BY <1>5, <2>1 DEF Rules!DeleteKey, Rules!Click
  <2>5. k \in c2
    BY <1>1, <1>5 DEF Rules!DeleteKey
  <2> QED
    BY <2>2, <2>3, <2>4, <2>5, RulesEveryone, RulesNewCall DEF Rules!Kinds
<1> QED
  BY <1>2, <1>3, <1>4, <1>5

\* What is read is the row, with the rule that is saved.
LEMMA RulesChecks ==
    ASSUME Rules!RulesInv, NEW c \in c7, Rules!CheckUpdate(c) PROVE Rules!RulesInv'
<1>1. RulesVars /\ RulesCall(c) /\ c.op \in Rules!Kinds /\ c.state = "sent" /\ c.holds /\ c6
  BY RulesParts DEF RulesCall, Rules!CheckUpdate
<1>2. UNCHANGED <<c1, c2, c3, c4, c5>>
  BY DEF Rules!CheckUpdate
<1>3. RulesVars'
  BY <1>1, <1>2 DEF RulesVars, Rules!AllNamed, Rules!Named, Rules!CheckUpdate
<1>4. \A d \in c7 \ {c} : RulesCall(d)'
  <2> SUFFICES ASSUME NEW d \in c7 \ {c} PROVE RulesCall(d)'
    OBVIOUS
  <2>1. ~d.holds
    BY <1>1 DEF Rules!RulesInv
  <2>2. Rules!Read(d) => Rules!Read(d)'
    BY <1>2 DEF Rules!Read, Rules!NoWider
  <2> QED
    BY <1>2, <2>1, <2>2, RulesOther
<1>5. CASE c7' = c7 \ {c}
  BY <1>3, <1>4, <1>5, RulesDropped
<1>6. CASE c7' # c7 \ {c}
  <2>1. PICK read : read = [c3 EXCEPT ![c.op] = c.rule]
    OBVIOUS
  <2>2. c \in [op : {c.op}, rule : {c.rule}, ids : {c.ids}, holds : BOOLEAN, state : {c.state}, row : {c.row}]
    BY <1>1 DEF RulesCall, Rules!IsCall
  <2> DEFINE n == [c EXCEPT !.state = "checked", !.row = read]
  <2>3. n \in [op : {c.op}, rule : {c.rule}, ids : {c.ids}, holds : {c.holds}, state : {"checked"}, row : {read}]
    BY <2>2
  <2>4. c7' = (c7 \ {c}) \cup {n}
    BY <1>6, <2>1 DEF Rules!CheckUpdate
  <2> HIDE DEF n
  <2>5. Rules!AllNamed(read) /\ read[c.op] = c.rule /\ \A kind \in Rules!Kinds \ {c.op} : read[kind] = c3[kind]
    BY <1>1, <2>1 DEF RulesVars, RulesCall, Rules!AllNamed, Rules!Named
  <2>6. Rules!Read(n)'
    BY <1>1, <1>2, <2>3, <2>5 DEF Rules!Read, Rules!NoWider
  <2>7. c6'
    BY <1>1, <1>6 DEF Rules!CheckUpdate
  <2>8. Rules!Named(c.rule)' /\ Rules!AllNamed(read)' /\ (c.ids \subseteq c2)'
    BY <1>1, <1>2, <2>5, RulesNamed DEF RulesCall
  <2>9. RulesCall(n)'
    BY <1>1, <2>2, <2>3, <2>6, <2>7, <2>8 DEF RulesCall, Rules!IsCall
  <2> QED
    BY <1>1, <1>3, <1>4, <2>4, <2>9, RulesReplaced
<1> QED
  BY <1>5, <1>6

\* A call that goes on, in another state that is not one of having read.
LEMMA RulesMoves ==
    ASSUME Rules!RulesInv, NEW c \in c7, NEW st, st # "checked", NEW ids, ids \subseteq c2',
           c7' = (c7 \ {c}) \cup {[c EXCEPT !.state = st, !.ids = ids]}, UNCHANGED c6,
           c2 \subseteq c2', RulesVars',
           \A d \in c7 \ {c} : d.state = "checked" /\ Rules!Read(d) => Rules!Read(d)'
    PROVE  Rules!RulesInv'
<1>1. RulesCall(c) /\ \A d \in c7 : d.holds => c6
  BY RulesParts DEF RulesCall
<1>2. c \in [op : {c.op}, rule : {c.rule}, ids : {c.ids}, holds : BOOLEAN, state : {c.state}, row : {c.row}]
  BY <1>1 DEF RulesCall, Rules!IsCall
<1> DEFINE n == [c EXCEPT !.state = st, !.ids = ids]
<1>3. n \in [op : {c.op}, rule : {c.rule}, ids : {ids}, holds : {c.holds}, state : {st}, row : {c.row}]
  BY <1>2
<1>4. c7' = (c7 \ {c}) \cup {n}
  OBVIOUS
<1> HIDE DEF n
<1>5. Rules!Named(c.rule)' /\ Rules!AllNamed(c.row)'
  BY <1>1, RulesNamed DEF RulesCall
<1>6. RulesCall(n)'
  BY <1>1, <1>2, <1>3, <1>5 DEF RulesCall, Rules!IsCall
<1>7. \A d \in c7 \ {c} : RulesCall(d)'
  BY <1>1, RulesOther
<1> QED
  BY <1>3, <1>4, <1>6, <1>7, RulesReplaced

\* While a save has read the row nothing else has.
LEMMA RulesWrites ==
    ASSUME Rules!RulesInv, NEW c \in c7, Rules!WriteUpdate(c) PROVE Rules!RulesInv'
<1>1. RulesVars /\ RulesCall(c) /\ c.holds
  BY RulesParts DEF RulesCall, Rules!WriteUpdate
<1>2. c3' = c.row /\ UNCHANGED <<c1, c2, c4, c5, c6>>
  BY DEF Rules!WriteUpdate
<1>3. RulesVars'
  BY <1>1, <1>2 DEF RulesVars, RulesCall, Rules!AllNamed, Rules!Named
<1>4. \A d \in c7 \ {c} : d.state # "checked"
  BY <1>1 DEF Rules!RulesInv, Rules!Read
<1>5. c \in [op : {c.op}, rule : {c.rule}, ids : {c.ids}, holds : BOOLEAN, state : {c.state}, row : {c.row}]
  BY <1>1 DEF RulesCall, Rules!IsCall
<1>6. [c EXCEPT !.state = "done"] = [c EXCEPT !.state = "done", !.ids = c.ids]
  BY <1>5
<1>7. c7' = (c7 \ {c}) \cup {[c EXCEPT !.state = "done", !.ids = c.ids]} /\ c.ids \subseteq c2'
  BY <1>1, <1>2, <1>6 DEF Rules!WriteUpdate, RulesCall
<1> QED
  BY <1>2, <1>3, <1>4, <1>7, RulesMoves

\* A deletion makes a prompt rule narrower, and so what had been read is no wider yet.
LEMMA RulesDelete ==
    ASSUME Rules!RulesInv, NEW c \in c7, Rules!ServeDelete(c) PROVE Rules!RulesInv'
<1>1. RulesVars /\ RulesCall(c)
  BY RulesParts
<1>2. PICK k \in c.ids :
         IF k \in c1
         THEN /\ c1' = c1 \ {k}
              /\ c3' = [c3 EXCEPT !["prompt"] = Rules!RemoveKeyID(c3["prompt"], k)]
              /\ c7' = (c7 \ {c}) \cup {[c EXCEPT !.state = "done"]}
         ELSE c7' = c7 \ {c} /\ UNCHANGED <<c1, c3>>
  BY DEF Rules!ServeDelete
<1>3. UNCHANGED <<c2, c4, c5, c6>>
  BY DEF Rules!ServeDelete
<1>4. CASE k \in c1
  <2>1. PICK old, new : old = c3["prompt"] /\ new = Rules!RemoveKeyID(old, k)
    OBVIOUS
  <2>2. Rules!Named(old) /\ c3 \in [Rules!Kinds -> Rules!Rule] /\ Rules!Named(c3["tier"])
    BY <1>1, <2>1 DEF RulesVars, Rules!AllNamed, Rules!Kinds
  <2>3. Rules!Named(new) /\ new.scope = old.scope /\ old.ids \ {k} \subseteq new.ids
    BY <2>1, <2>2 DEF Rules!Named, Rules!RemoveKeyID, Rules!Rule
  <2>4. c3' = [c3 EXCEPT !["prompt"] = new] /\ c1' = c1 \ {k}
    BY <1>2, <1>4, <2>1
  <2>5. c3'["prompt"] = new /\ c3'["tier"] = c3["tier"]
    BY <2>2, <2>4 DEF Rules!Kinds
  <2>6. Rules!AllNamed(c3)'
    BY <1>3, <2>2, <2>3, <2>4 DEF Rules!AllNamed, Rules!Named, Rules!Kinds
  <2>7. RulesVars'
    BY <1>1, <1>3, <2>4, <2>6 DEF RulesVars, Rules!AllNamed, Rules!Named
  <2>8. \A d \in c7 \ {c} : d.state = "checked" /\ Rules!Read(d) => Rules!Read(d)'
    <3> SUFFICES ASSUME NEW d \in c7 \ {c}, Rules!Read(d), NEW kind \in Rules!Kinds \ {d.op},
                        c3'[kind].scope # "all"
                 PROVE  Rules!NoWider(d.row[kind], c3[kind])'
      BY DEF Rules!Read
    <3>1. CASE kind = "tier"
      BY <2>4, <2>5, <3>1 DEF Rules!Read, Rules!NoWider
    <3>2. CASE kind = "prompt"
      BY <2>1, <2>3, <2>4, <2>5, <3>2 DEF Rules!Read, Rules!NoWider
    <3> QED
      BY <3>1, <3>2 DEF Rules!Kinds
  <2>9. c \in [op : {c.op}, rule : {c.rule}, ids : {c.ids}, holds : BOOLEAN, state : {c.state}, row : {c.row}]
    BY <1>1 DEF RulesCall, Rules!IsCall
  <2>10. [c EXCEPT !.state = "done"] = [c EXCEPT !.state = "done", !.ids = c.ids]
    BY <2>9
  <2>11. c7' = (c7 \ {c}) \cup {[c EXCEPT !.state = "done", !.ids = c.ids]} /\ c.ids \subseteq c2'
    BY <1>1, <1>2, <1>3, <1>4, <2>10 DEF RulesCall
  <2> QED
    BY <1>3, <2>7, <2>8, <2>11, RulesMoves
<1>5. CASE k \notin c1
  <2>1. RulesVars' /\ \A d \in c7 : Rules!Read(d) => Rules!Read(d)'
    BY <1>1, <1>2, <1>3, <1>5 DEF RulesVars, Rules!AllNamed, Rules!Named, Rules!Read, Rules!NoWider
  <2>2. \A d \in c7 \ {c} : RulesCall(d)'
    BY <1>3, <2>1, RulesOther DEF Rules!RulesInv
  <2> QED
    BY <1>2, <1>5, <2>1, <2>2, RulesDropped
<1> QED
  BY <1>4, <1>5

\* No rule names an id that was never given out.
LEMMA RulesCreate ==
    ASSUME Rules!RulesInv, NEW c \in c7, Rules!ServeCreate(c) PROVE Rules!RulesInv'
<1>1. RulesVars /\ \A d \in c7 : RulesCall(d)
  BY RulesParts
<1>2. PICK k \in KeyIds \ c2 : c1' = c1 \cup {k} /\ c2' = c2 \cup {k}
  BY DEF Rules!ServeCreate
<1>3. UNCHANGED <<c3, c4, c5, c6>>
  BY DEF Rules!ServeCreate
<1>4. RulesVars'
  BY <1>1, <1>2, <1>3, RulesNamed DEF RulesVars
<1>5. \A d \in c7 : Rules!Read(d) => Rules!Read(d)'
  <2> SUFFICES ASSUME NEW d \in c7, Rules!Read(d), NEW kind \in Rules!Kinds \ {d.op}, c3[kind].scope # "all"
               PROVE  Rules!NoWider(d.row[kind], c3[kind])'
    BY <1>3 DEF Rules!Read
  <2>1. d.row[kind].ids \subseteq c2
    BY <1>1 DEF RulesCall, Rules!AllNamed, Rules!Named
  <2> QED
    BY <1>2, <1>3, <2>1 DEF Rules!Read, Rules!NoWider
<1>6. c \in [op : {c.op}, rule : {c.rule}, ids : {c.ids}, holds : BOOLEAN, state : {c.state}, row : {c.row}]
  BY <1>1 DEF RulesCall, Rules!IsCall
<1>7. [c EXCEPT !.state = "done"] = [c EXCEPT !.state = "done", !.ids = c.ids]
  BY <1>6
<1>8. c7' = (c7 \ {c}) \cup {[c EXCEPT !.state = "done", !.ids = c.ids]} /\ c.ids \subseteq c2'
  BY <1>1, <1>2, <1>7 DEF Rules!ServeCreate, RulesCall
<1> QED
  BY <1>2, <1>3, <1>4, <1>5, <1>8, RulesMoves

LEMMA RulesList ==
    ASSUME Rules!RulesInv, NEW c \in c7, Rules!ServeList(c) PROVE Rules!RulesInv'
<1>1. RulesVars /\ RulesCall(c)
  BY RulesParts
<1>2. UNCHANGED <<c1, c2, c3, c4, c5, c6>>
  BY DEF Rules!ServeList
<1>3. RulesVars' /\ \A d \in c7 : Rules!Read(d) => Rules!Read(d)'
  BY <1>1, <1>2 DEF RulesVars, Rules!AllNamed, Rules!Named, Rules!Read, Rules!NoWider
<1>4. PICK ids : ids = c1
  OBVIOUS
<1>5. c7' = (c7 \ {c}) \cup {[c EXCEPT !.state = "done", !.ids = ids]} /\ ids \subseteq c2'
  BY <1>1, <1>2, <1>4 DEF Rules!ServeList, RulesVars
<1> QED
  BY <1>2, <1>3, <1>5, RulesMoves

\* An answer: to a save it gives the draft back as saved, to a deletion or a creation a
\* load of the keys follows, which still holds what the creation held.
LEMMA RulesAnswers ==
    ASSUME Rules!RulesInv, NEW c \in c7, Rules!Answered(c) PROVE Rules!RulesInv'
<1>1. RulesVars /\ RulesCall(c) /\ \A d \in c7 : d.holds => c6
  BY RulesParts DEF RulesCall
<1>2. UNCHANGED <<c1, c2, c3>>
  BY DEF Rules!Answered
<1>3. \A d \in c7 : Rules!Read(d) => Rules!Read(d)'
  BY <1>2 DEF Rules!Read, Rules!NoWider
<1>4. CASE Rules!UpdateAnswered(c)
  <2>1. c.holds /\ c7' = c7 \ {c} /\ c6' = FALSE /\ c4' = c4
    BY <1>1, <1>4 DEF Rules!UpdateAnswered, RulesCall
  <2>2. \A d \in c7 \ {c} : RulesCall(d)'
    <3>1. \A d \in c7 \ {c} : ~d.holds
      BY <2>1 DEF Rules!RulesInv
    <3> QED
      BY <1>2, <1>3, <3>1, RulesOther
  <2>3. Rules!AllNamed(c5)'
    <3>1. CASE c.op = "prompt"
      <4>1. PICK rule : rule = c.row["prompt"]
        OBVIOUS
      <4>2. Rules!Named(rule)
        BY <1>1, <4>1 DEF RulesCall, Rules!AllNamed, Rules!Kinds
      <4>3. c5' = [c5 EXCEPT !["prompt"] = rule]
        BY <1>4, <3>1, <4>1 DEF Rules!UpdateAnswered
      <4> QED
        BY <1>1, <1>2, <4>2, <4>3 DEF RulesVars, Rules!AllNamed, Rules!Named
    <3>2. CASE c.op # "prompt"
      BY <1>1, <1>2, <1>4, <3>2 DEF Rules!UpdateAnswered, RulesVars, Rules!AllNamed, Rules!Named
    <3> QED
      BY <3>1, <3>2
  <2>4. RulesVars'
    BY <1>1, <1>2, <2>1, <2>3 DEF RulesVars, Rules!AllNamed, Rules!Named
  <2> QED
    BY <2>1, <2>2, <2>4, RulesDropped
<1>5. CASE Rules!KeyWriteAnswered(c)
  <2>1. PICK n : n = Rules!Call("keys", Rules!Everyone, {}, c.holds)
    OBVIOUS
  <2>2. c7' = (c7 \ {c}) \cup {n} /\ UNCHANGED <<c4, c5, c6>>
    BY <1>5, <2>1 DEF Rules!KeyWriteAnswered
  <2>3. /\ n.op = "keys" /\ n.rule = Rules!Everyone /\ n.ids = {} /\ n.holds = c.holds /\ n.state = "sent"
        /\ n.row = [kind \in Rules!Kinds |-> Rules!Everyone]
    BY <2>1 DEF Rules!Call
  <2>4. c.holds \in BOOLEAN
    BY <1>1 DEF RulesCall, Rules!IsCall
  <2>5. Rules!IsCall(n)
    BY <2>1, <2>4 DEF Rules!Call, Rules!IsCall
  <2>6. RulesVars'
    BY <1>1, <1>2, <2>2 DEF RulesVars, Rules!AllNamed, Rules!Named
  <2>7. RulesCall(n)'
    BY <1>1, <1>2, <2>2, <2>3, <2>5, RulesEveryone, RulesNamed DEF RulesCall, Rules!IsCall, Rules!Kinds
  <2>8. \A d \in c7 \ {c} : RulesCall(d)'
    BY <1>1, <1>2, <1>3, <2>2, RulesOther
  <2> QED
    BY <2>2, <2>3, <2>6, <2>7, <2>8, RulesReplaced
<1>6. CASE Rules!KeysAnswered(c)
  <2>1. c7' = c7 \ {c} /\ c6' = (c6 /\ ~c.holds) /\ c4' = c.ids /\ c5' = c5
    BY <1>6 DEF Rules!KeysAnswered
  <2>2. \A d \in c7 \ {c} : RulesCall(d)'
    <3>1. \A d \in c7 \ {c} : d.holds => c6'
      BY <1>1, <2>1 DEF Rules!RulesInv
    <3> QED
      BY <1>2, <1>3, <3>1, RulesOther
  <2>3. RulesVars'
    BY <1>1, <1>2, <2>1 DEF RulesVars, RulesCall, Rules!AllNamed, Rules!Named
  <2> QED
    BY <2>1, <2>2, <2>3, RulesDropped
<1> QED
  BY <1>4, <1>5, <1>6 DEF Rules!Answered

LEMMA RulesFail ==
    ASSUME Rules!RulesInv, NEW c \in c7, Rules!Failed(c) PROVE Rules!RulesInv'
<1>1. RulesVars /\ RulesCall(c) /\ \A d \in c7 : d.holds => c6
  BY RulesParts DEF RulesCall
<1>2. UNCHANGED <<c1, c2, c3, c4, c5>> /\ c7' = c7 \ {c} /\ c6' = (c6 /\ ~c.holds)
  BY DEF Rules!Failed
<1>3. \A d \in c7 \ {c} : d.holds => c6'
  BY <1>1, <1>2 DEF Rules!RulesInv
<1>4. \A d \in c7 : Rules!Read(d) => Rules!Read(d)'
  BY <1>2 DEF Rules!Read, Rules!NoWider
<1>5. \A d \in c7 \ {c} : RulesCall(d)'
  BY <1>2, <1>3, <1>4, RulesOther
<1>6. RulesVars'
  BY <1>1, <1>2 DEF RulesVars, Rules!AllNamed, Rules!Named
<1> QED
  BY <1>2, <1>5, <1>6, RulesDropped

LEMMA RulesStep ==
    ASSUME Rules!RulesInv, Rules!Next PROVE Rules!RulesInv'
BY RulesEdits, RulesClicks, RulesChecks, RulesWrites, RulesDelete, RulesCreate, RulesList, RulesAnswers,
   RulesFail DEF Rules!Next

\* Only these two write the row.
LEMMA RulesRowIsWritten ==
    ASSUME Rules!Next
    PROVE  \/ \E c \in c7 : Rules!WriteUpdate(c) \/ Rules!ServeDelete(c)
           \/ c3' = c3 /\ c1 \subseteq c1'
<1>1. ASSUME NEW c \in c7, Rules!CheckUpdate(c) \/ Rules!ServeCreate(c) \/ Rules!ServeList(c)
                           \/ Rules!Answered(c) \/ Rules!Failed(c)
      PROVE  c3' = c3 /\ c1 \subseteq c1'
  BY <1>1 DEF Rules!CheckUpdate, Rules!ServeCreate, Rules!ServeList, Rules!Answered, Rules!Failed
<1>2. ASSUME NEW kind \in Rules!Kinds, Rules!ScopeAll(kind) \/ Rules!ScopeSelected(kind) \/ Rules!SelectKeys(kind)
      PROVE  c3' = c3 /\ c1 \subseteq c1'
  BY <1>2 DEF Rules!ScopeAll, Rules!ScopeSelected, Rules!SelectKeys, Rules!Click
<1>3. CASE \/ Rules!SavePromptInjection \/ Rules!SaveGroupConfig \/ Rules!CreateKey
           \/ \E k \in KeyIds : Rules!DeleteKey(k)
  BY <1>3 DEF Rules!SavePromptInjection, Rules!SaveGroupConfig, Rules!CreateKey, Rules!DeleteKey, Rules!Click
<1> QED
  BY <1>1, <1>2, <1>3 DEF Rules!Next

\* The one that wrote has read the row, and is not under way as it was.
LEMMA RulesWriter ==
    ASSUME Rules!RulesInv, NEW c \in c7, Rules!WriteUpdate(c)
    PROVE  /\ c.op \in Rules!Kinds /\ c.state = "checked" /\ c \notin c7'
           /\ c3' = c.row /\ c1' = c1 /\ Rules!Read(c)
<1>1. c \in [op : {c.op}, rule : {c.rule}, ids : {c.ids}, holds : BOOLEAN, state : {c.state}, row : {c.row}]
  BY RulesParts DEF RulesCall, Rules!IsCall
<1>2. c # [c EXCEPT !.state = "done"]
  BY <1>1 DEF Rules!WriteUpdate
<1> QED
  BY <1>2 DEF Rules!WriteUpdate, Rules!RulesInv

\* A deletion leaves the tier rule, and the prompt rule without the key.
LEMMA RulesNarrow ==
    ASSUME Rules!RulesInv, NEW c \in c7, Rules!ServeDelete(c)
    PROVE  \E k : /\ c1' = c1 \ {k}
                  /\ c3'["tier"] = c3["tier"] /\ c3'["prompt"].scope = c3["prompt"].scope
                  /\ c3'["prompt"].ids \subseteq c3["prompt"].ids \ (c1 \cap {k})
<1>1. Rules!AllNamed(c3)
  BY RulesParts DEF RulesVars
<1>2. PICK k \in c.ids :
         IF k \in c1
         THEN /\ c1' = c1 \ {k}
              /\ c3' = [c3 EXCEPT !["prompt"] = Rules!RemoveKeyID(c3["prompt"], k)]
         ELSE UNCHANGED <<c1, c3>>
  BY DEF Rules!ServeDelete
<1>3. PICK old, new : old = c3["prompt"] /\ new = Rules!RemoveKeyID(old, k)
  OBVIOUS
<1>4. Rules!Named(old) /\ c3 \in [Rules!Kinds -> Rules!Rule]
  BY <1>1, <1>3 DEF Rules!AllNamed, Rules!Kinds
<1>5. new.scope = old.scope /\ new.ids \subseteq old.ids \ {k}
  BY <1>3, <1>4 DEF Rules!Named, Rules!RemoveKeyID, Rules!Rule
<1>6. CASE k \in c1
  <2>1. c3' = [c3 EXCEPT !["prompt"] = new]
    BY <1>2, <1>3, <1>6
  <2>2. c3'["prompt"] = new /\ c3'["tier"] = c3["tier"]
    BY <1>4, <2>1 DEF Rules!Kinds
  <2> QED
    BY <1>2, <1>3, <1>5, <1>6, <2>2
<1>7. CASE k \notin c1
  <2>1. c1' = c1 \ {k} /\ c3' = c3 /\ c1 \cap {k} = {}
    BY <1>2, <1>7
  <2>2. c3["prompt"].ids \subseteq c3["prompt"].ids \ (c1 \cap {k})
    BY <2>1
  <2> QED
    BY <2>1, <2>2
<1> QED
  BY <1>6, <1>7

LEMMA RulesWidenStep ==
    ASSUME Rules!RulesInv, Rules!Next PROVE Rules!WidenStep
<1> SUFFICES ASSUME NEW kind \in Rules!Kinds, NEW k \in c1', Rules!Applies(c3'[kind], k), ~Rules!Applies(c3[kind], k)
             PROVE  \E c \in c7 : c.op = kind /\ c.state = "checked" /\ c \notin c7' /\ Rules!Applies(c.rule, k)
  BY DEF Rules!WidenStep
<1>1. ASSUME NEW c \in c7, Rules!ServeDelete(c)
      PROVE  FALSE
  <2>1. c3'[kind].scope = c3[kind].scope /\ c3'[kind].ids \subseteq c3[kind].ids
    BY <1>1, RulesNarrow DEF Rules!Kinds
  <2> QED
    BY <2>1 DEF Rules!Applies
<1>2. PICK c \in c7 : Rules!WriteUpdate(c)
  BY <1>1, RulesRowIsWritten
<1>3. /\ c.op \in Rules!Kinds /\ c.state = "checked" /\ c \notin c7'
      /\ c3' = c.row /\ c1' = c1 /\ Rules!Read(c)
  BY <1>2, RulesWriter
<1>4. kind = c.op
  BY <1>3 DEF Rules!Read, Rules!NoWider, Rules!Applies
<1> QED
  BY <1>3, <1>4 DEF Rules!Read

LEMMA RulesDanglingStep ==
    ASSUME Rules!RulesInv, Rules!Next PROVE Rules!DanglingStep
<1> SUFFICES ASSUME NEW k, k \in c3'["prompt"].ids, k \notin c1', ~(k \in c3["prompt"].ids /\ k \notin c1)
             PROVE  \E c \in c7 : c.op \in Rules!Kinds /\ c.state = "checked" /\ c \notin c7'
  BY DEF Rules!DanglingStep
<1>1. ASSUME NEW c \in c7, Rules!ServeDelete(c)
      PROVE  FALSE
  BY <1>1, RulesNarrow
<1> QED
  BY <1>1, RulesRowIsWritten, RulesWriter

-----------------------------------------------------------------------------
(* The usage records (UsageBrowser) *)

\* The parts of the invariant: a request under way, and the rest.
UsageReq(r) ==
    /\ Usage!IsReq(r)
    /\ r.latest => r.op = "load" /\ r.q = c5
    /\ r.op = "clean" => r.q.page = 1
UsageVars == c7 \in BOOLEAN /\ c1 \in Usage!Filter /\ c4 \subseteq Usage!AllModels

LEMMA UsageParts ==
    Usage!UsageInv <=> (\A r \in c8 : UsageReq(r)) /\ UsageVars /\ Usage!SpinnerIsExact /\ Usage!TableAnswersLastQuery
BY DEF Usage!UsageInv, UsageReq, UsageVars

\* A request for choices: not a load, and no chain.
Plain(r) == Usage!IsReq(r) /\ r.latest = FALSE /\ r.op \in {"models", "keys", "groups"}

LEMMA UsageOptions ==
    ASSUME NEW f
    PROVE  \A r \in Usage!ForModels(f) \cup Usage!ForKeys(f) \cup Usage!ForGroups : Plain(r)
<1>1. ASSUME NEW op \in {"models", "keys", "groups"}, NEW g, NEW r, r = Usage!Req(op, g, 1)
      PROVE  Plain(r)
  BY <1>1 DEF Usage!Req, Usage!IsReq, Plain
<1> QED
  BY <1>1 DEF Usage!ForModels, Usage!ForKeys, Usage!ForGroups

LEMMA UsageEffects ==
    ASSUME NEW old, NEW new
    PROVE  \A r \in Usage!Effects(old, new) : Plain(r)
BY UsageOptions DEF Usage!Effects

\* A link asks for a filter.
LEMMA UsageLinks == /\ Usage!NoFilter \in Usage!Filter
                    /\ \A l \in Usage!Links : l.f \in Usage!Filter
<1>1. Usage!NoFilter \in Usage!Filter
  BY DEF Usage!NoFilter, Usage!Filter
<1>2. \A f \in MCLinked : f \in Usage!Filter
  BY PanelsAssumption DEF PanelsAssumption, Usage!LinksAssumption, Usage!Filter
<1> QED
  BY <1>1, <1>2 DEF Usage!Links

LEMMA UsageStarts == Usage!Init => Usage!UsageInv
<1> SUFFICES ASSUME Usage!Init PROVE Usage!UsageInv
  OBVIOUS
<1>1. PICK r : r = Usage!Req("load", c1, 1)
  OBVIOUS
<1>2. r.op = "load" /\ r.q = [f |-> c1, page |-> 1] /\ r.latest /\ Usage!IsReq(r)
  BY <1>1 DEF Usage!Req, Usage!IsReq
<1>3. \A s \in c8 : s = r \/ Plain(s)
  BY <1>1, UsageOptions, UsageEffects DEF Usage!Init
<1>4. r \in c8 /\ c5 = [f |-> c1, page |-> 1] /\ c7 = TRUE /\ c4 = {}
  BY <1>1 DEF Usage!Init
<1>5. c1 \in Usage!Filter
  <2>1. c10.f \in Usage!Filter
    BY UsageLinks DEF Usage!Init, Usage!NoQuery
  <2> QED
    BY <2>1 DEF Usage!Init
<1>6. \A s \in c8 : UsageReq(s)
  BY <1>2, <1>3, <1>4 DEF UsageReq, Plain
<1> QED
  BY <1>2, <1>4, <1>5, <1>6 DEF Usage!UsageInv, UsageReq, Usage!SpinnerIsExact, Usage!TableAnswersLastQuery

\* A load takes the number from the one before it.
LEMMA UsageLoads ==
    ASSUME Usage!UsageInv, NEW f, NEW p, NEW rs, rs \subseteq c8, NEW more, \A r \in more : Plain(r),
           Usage!Load(f, p, rs, more), c1' \in Usage!Filter, c4' \subseteq Usage!AllModels
    PROVE  Usage!UsageInv'
<1>1. PICK n : n = Usage!Req("load", f, p)
  OBVIOUS
<1>2. n.op = "load" /\ n.q = [f |-> f, page |-> p] /\ n.latest /\ Usage!IsReq(n)
  BY <1>1 DEF Usage!Req, Usage!IsReq
<1>3. c8' = Usage!Outdated(rs) \cup {n} \cup more /\ c5' = [f |-> f, page |-> p] /\ c7' = TRUE
  BY <1>1 DEF Usage!Load
<1>4. ASSUME NEW r \in rs, NEW s, s = [r EXCEPT !.latest = FALSE]
      PROVE  UsageReq(s)'
  <2>1. r \in [op : {r.op}, q : [f : {r.q.f}, page : {r.q.page}], latest : BOOLEAN]
           /\ (r.op = "clean" => r.q.page = 1)
    BY DEF Usage!UsageInv, Usage!IsReq
  <2>2. s \in [op : {r.op}, q : {r.q}, latest : {FALSE}]
    BY <1>4, <2>1
  <2> QED
    BY <2>1, <2>2 DEF UsageReq, Usage!IsReq
<1>5. \A s \in Usage!Outdated(rs) : UsageReq(s)'
  BY <1>4 DEF Usage!Outdated
<1>6. UsageReq(n)'
  BY <1>2, <1>3 DEF UsageReq, Usage!IsReq
<1>7. \A r \in more : UsageReq(r)'
  BY DEF UsageReq, Plain, Usage!IsReq
<1>8. \A r \in c8' : UsageReq(r)'
  BY <1>3, <1>5, <1>6, <1>7
<1> QED
  BY <1>2, <1>3, <1>8 DEF Usage!UsageInv, UsageReq, Usage!SpinnerIsExact, Usage!TableAnswersLastQuery

\* Steps that add requests without a number.
LEMMA UsageAdds ==
    ASSUME Usage!UsageInv, NEW more, c8' = c8 \cup more,
           \A r \in more : Usage!IsReq(r) /\ ~r.latest /\ (r.op = "clean" => r.q.page = 1),
           UNCHANGED <<c3, c5, c6, c7>>, c1' \in Usage!Filter, c4' \subseteq Usage!AllModels
    PROVE  Usage!UsageInv'
<1>1. \A r \in c8' : UsageReq(r)'
  BY UsageParts DEF UsageReq, Usage!IsReq
<1> QED
  BY <1>1 DEF Usage!UsageInv, UsageReq, Usage!SpinnerIsExact, Usage!TableAnswersLastQuery

LEMMA UsageOneLatest ==
    ASSUME Usage!UsageInv, NEW r \in c8, NEW s \in c8, r.latest, s.latest
    PROVE  r = s
<1>1. /\ r \in [op : {r.op}, q : [f : {r.q.f}, page : {r.q.page}], latest : BOOLEAN]
      /\ s \in [op : {s.op}, q : [f : {s.q.f}, page : {s.q.page}], latest : BOOLEAN]
  BY DEF Usage!UsageInv, Usage!IsReq
<1>2. r.op = s.op /\ r.q = s.q
  BY DEF Usage!UsageInv
<1>3. r.latest = s.latest
  BY <1>1
<1> QED
  BY <1>1, <1>2, <1>3

\* An answer that is not followed by a load, and may add requests for choices.
LEMMA UsageEnds ==
    ASSUME Usage!UsageInv, NEW r \in c8, NEW more, c8' = Usage!Rest(r) \cup more, \A s \in more : Plain(s),
           c1' \in Usage!Filter, c4' \subseteq Usage!AllModels, c5' = c5,
           c7' = (c7 /\ ~r.latest), c7' \/ c3'.q = c5 \/ c6'
    PROVE  Usage!UsageInv'
<1>1. \A s \in c8' : UsageReq(s)'
  BY UsageParts DEF UsageReq, Usage!IsReq, Plain, Usage!Rest
<1>2. c7' \in BOOLEAN
  OBVIOUS
<1>3. c7' <=> \E s \in c8' : s.latest
  <2>1. CASE r.latest
    BY <2>1, UsageOneLatest DEF Plain, Usage!Rest
  <2>2. CASE ~r.latest
    BY <2>2 DEF Plain, Usage!Rest, Usage!UsageInv, Usage!SpinnerIsExact
  <2> QED
    BY <2>1, <2>2
<1> QED
  BY <1>1, <1>2, <1>3 DEF Usage!UsageInv, UsageReq, Usage!SpinnerIsExact, Usage!TableAnswersLastQuery

\* A filter stays one when a part of it is chosen anew.
LEMMA UsageChoices ==
    ASSUME Usage!UsageInv
    PROVE  /\ \A g \in Groups \cup {"all"} : [c1 EXCEPT !.group = g, !.key = "all"] \in Usage!Filter
           /\ \A k \in Usage!Keys \cup {"all"} : [c1 EXCEPT !.key = k] \in Usage!Filter
           /\ \A m \in Usage!AllModels \cup {"all"} : [c1 EXCEPT !.model = m] \in Usage!Filter
           /\ [c1 EXCEPT !.rest = "typed"] \in Usage!Filter
           /\ Usage!NoFilter \in Usage!Filter
<1>1. c1 \in Usage!Filter
  BY UsageParts DEF UsageVars
<1>2. /\ \A g \in Groups \cup {"all"} : [c1 EXCEPT !.group = g, !.key = "all"] \in Usage!Filter
      /\ \A k \in Usage!Keys \cup {"all"} : [c1 EXCEPT !.key = k] \in Usage!Filter
  BY <1>1 DEF Usage!Filter
<1>3. \A m \in Usage!AllModels \cup {"all"} : [c1 EXCEPT !.model = m] \in Usage!Filter
  BY <1>1 DEF Usage!Filter
<1>4. [c1 EXCEPT !.rest = "typed"] \in Usage!Filter
  BY <1>1 DEF Usage!Filter
<1>5. Usage!NoFilter \in Usage!Filter
  BY DEF Usage!NoFilter, Usage!Filter
<1> QED
  BY <1>2, <1>3, <1>4, <1>5

\* What a click loads is what the filter then says, or nothing.
UsageLoaded ==
    \E p, more : Usage!Load(c1', p, c8, more) /\ (\A r \in more : Plain(r)) /\ c1' \in Usage!Filter /\ c4' = c4

LEMMA UsageChooses ==
    ASSUME Usage!UsageInv, NEW f \in Usage!Filter, Usage!Choose(f) PROVE UsageLoaded
<1>1. PICK old : old = c1
  OBVIOUS
<1>2. PICK more : more = Usage!Effects(old, f)
  OBVIOUS
<1>3. c1' = f /\ Usage!Load(f, 1, c8, more) /\ c4' = c4
  BY <1>1, <1>2 DEF Usage!Choose, Usage!Click
<1> QED
  BY <1>2, <1>3, UsageEffects DEF UsageLoaded

LEMMA UsageClicks ==
    ASSUME Usage!UsageInv,
           \/ Usage!PickGroup \/ Usage!PickKey \/ Usage!PickModel \/ Usage!Search \/ Usage!Preset
           \/ Usage!Reset \/ Usage!RefreshUsage \/ Usage!GoPage \/ Usage!SetPageSize
    PROVE  UsageLoaded
<1>1. c1 \in Usage!Filter /\ c4 \subseteq Usage!AllModels
  BY UsageParts DEF UsageVars
<1>2. CASE Usage!PickGroup \/ Usage!PickKey \/ Usage!PickModel
  BY <1>1, <1>2, UsageChoices, UsageChooses DEF Usage!PickGroup, Usage!PickKey, Usage!PickModel, Usage!KeyChoices
<1>3. CASE Usage!Search \/ Usage!SetPageSize
  BY <1>1, <1>3 DEF Usage!Search, Usage!SetPageSize, UsageLoaded, Usage!Click
<1>4. CASE Usage!Preset
  <2>1. PICK old, new, more : old = c1 /\ new = [old EXCEPT !.rest = "typed"] /\ more = Usage!Effects(old, new)
    OBVIOUS
  <2>2. new \in Usage!Filter /\ \A r \in more : Plain(r)
    BY <2>1, UsageChoices, UsageEffects
  <2>3. c1' = new /\ Usage!Load(new, 1, c8, more) /\ c4' = c4
    BY <1>4, <2>1 DEF Usage!Preset, Usage!Click
  <2> QED
    BY <2>2, <2>3 DEF UsageLoaded
<1>5. CASE Usage!Reset
  <2>1. PICK more : more = Usage!Effects(c1, Usage!NoFilter)
    OBVIOUS
  <2>2. \A r \in more : Plain(r)
    BY <2>1, UsageEffects
  <2>3. c1' = Usage!NoFilter /\ Usage!Load(Usage!NoFilter, 1, c8, more) /\ c4' = c4
    BY <1>5, <2>1 DEF Usage!Reset, Usage!Click
  <2> QED
    BY <2>2, <2>3, UsageChoices DEF UsageLoaded
<1>6. CASE Usage!RefreshUsage
  <2>1. PICK more : more = Usage!ForModels(c1) \cup Usage!ForKeys(c1)
    OBVIOUS
  <2>2. c1' = c1 /\ Usage!Load(c1, c2, c8, more) /\ c4' = c4
    BY <1>6, <2>1 DEF Usage!RefreshUsage, Usage!Click
  <2> QED
    BY <1>1, <2>1, <2>2, UsageOptions DEF UsageLoaded
<1>7. CASE Usage!GoPage
  <2>1. PICK p : Usage!Load(c1, p, c8, {}) /\ c1' = c1 /\ c4' = c4
    BY <1>7 DEF Usage!GoPage, Usage!Click
  <2> QED
    BY <1>1, <2>1 DEF UsageLoaded
<1> QED
  BY <1>2, <1>3, <1>4, <1>5, <1>6, <1>7

\* A link is either applied, and loads what it asks for, or was before.
LEMMA UsageFollows ==
    ASSUME Usage!UsageInv, NEW l \in Usage!Links, Usage!Follow(l)
    PROVE  UsageLoaded \/ (UNCHANGED <<c1, c3, c4, c5, c6, c7>> /\ c8' = c8 \cup Usage!ForGroups)
<1>1. CASE l = c11
  BY <1>1 DEF Usage!Follow, Usage!Click
<1>2. CASE l # c11
  <2>1. PICK more : more = Usage!Effects(c1, l.f) \cup Usage!ForGroups
    OBVIOUS
  <2>2. \A r \in more : Plain(r)
    BY <2>1, UsageOptions, UsageEffects
  <2>3. c1' = l.f /\ Usage!Load(l.f, 1, c8, more) /\ c4' = c4
    BY <1>2, <2>1 DEF Usage!Follow, Usage!Click
  <2> QED
    BY <2>2, <2>3, UsageLinks DEF UsageLoaded
<1> QED
  BY <1>1, <1>2

\* What an answer may do to the filter: a part of it falls back to all.
LEMMA UsageFalls ==
    ASSUME Usage!UsageInv, NEW r \in c8, Usage!ModelsAnswered(r) \/ Usage!KeysKnown(r)
    PROVE  /\ UNCHANGED <<c3, c5, c6, c7>> /\ r.op \in {"models", "keys"}
           /\ c1' = c1 \/ Usage!FellBack
           /\ c1' \in Usage!Filter /\ c4' \subseteq Usage!AllModels
           /\ \E more : c8' = Usage!Rest(r) \cup more /\ \A s \in more : Plain(s)
<1>1. c1 \in Usage!Filter /\ c4 \subseteq Usage!AllModels
  BY UsageParts DEF UsageVars
<1>2. CASE Usage!ModelsAnswered(r)
  <2>1. PICK some \in SUBSET Usage!Of(r.q.f, ModelsOf) :
          c4' = some /\ c1' = IF c1.model \in some THEN c1 ELSE [c1 EXCEPT !.model = "all"]
    BY <1>2 DEF Usage!ModelsAnswered
  <2>2. c4' \subseteq Usage!AllModels
    BY <2>1 DEF Usage!Of, Usage!AllModels
  <2>3. c1' \in Usage!Filter /\ (c1' = c1 \/ Usage!FellBack)
    BY <1>1, <2>1, UsageChoices DEF Usage!FellBack
  <2>4. c8' = Usage!Rest(r) \cup {} /\ UNCHANGED <<c3, c5, c6, c7>> /\ r.op = "models"
    BY <1>2 DEF Usage!ModelsAnswered
  <2>5. \E more : c8' = Usage!Rest(r) \cup more /\ \A s \in more : Plain(s)
    <3>1. PICK more : more = {}
      OBVIOUS
    <3>2. c8' = Usage!Rest(r) \cup more /\ \A s \in more : Plain(s)
      BY <2>4, <3>1
    <3> QED
      BY <3>2
  <2> QED
    BY <2>2, <2>3, <2>4, <2>5
<1>3. CASE Usage!KeysKnown(r)
  <2>1. PICK new : /\ new = c1 \/ new = [c1 EXCEPT !.key = "all"]
                   /\ c1' = new /\ c8' = Usage!Rest(r) \cup Usage!Effects(c1, new)
    BY <1>3 DEF Usage!KeysKnown
  <2>2. UNCHANGED <<c3, c4, c5, c6, c7>> /\ r.op = "keys"
    BY <1>3 DEF Usage!KeysKnown
  <2>3. c1' \in Usage!Filter /\ (c1' = c1 \/ Usage!FellBack)
    BY <1>1, <2>1, UsageChoices DEF Usage!FellBack
  <2> QED
    BY <1>1, <2>1, <2>2, <2>3, UsageEffects
<1> QED
  BY <1>2, <1>3

LEMMA UsageStep ==
    ASSUME Usage!UsageInv, Usage!Next PROVE Usage!UsageInv'
<1>1. c1 \in Usage!Filter /\ c4 \subseteq Usage!AllModels /\ c7 \in BOOLEAN
  BY UsageParts DEF UsageVars
<1>2. CASE UsageLoaded
  BY <1>1, <1>2, UsageLoads DEF UsageLoaded
<1>3. CASE Usage!TypeRest
  <2>1. PICK new : new = [c1 EXCEPT !.rest = "typed"]
    OBVIOUS
  <2>2. c1' = new /\ c8' = c8 \cup Usage!ForModels(new) /\ UNCHANGED <<c3, c4, c5, c6, c7>>
    BY <1>3, <2>1 DEF Usage!TypeRest, Usage!Click
  <2>3. \A r \in Usage!ForModels(new) : Plain(r)
    BY UsageOptions
  <2> QED
    BY <1>1, <2>1, <2>2, <2>3, UsageChoices, UsageAdds DEF Plain
<1>4. ASSUME NEW op \in {"refreshAll", "clean"}, Usage!Begin(op)
      PROVE  Usage!UsageInv'
  <2>1. PICK n : n = Usage!Req(op, c1, IF op = "clean" THEN 1 ELSE c2)
    OBVIOUS
  <2>2. Usage!IsReq(n) /\ ~n.latest /\ (n.op = "clean" => n.q.page = 1)
    BY <2>1 DEF Usage!Req, Usage!IsReq
  <2>3. UNCHANGED <<c1, c3, c4, c5, c6, c7>>
    BY <1>4 DEF Usage!Begin, Usage!Click
  <2>4. PICK more : more = {n}
    OBVIOUS
  <2>5. c8' = c8 \cup more
    BY <1>4, <2>1, <2>4 DEF Usage!Begin
  <2> QED
    BY <1>1, <2>2, <2>3, <2>4, <2>5, UsageAdds
<1>5. ASSUME NEW r \in c8, Usage!ModelsAnswered(r) \/ Usage!KeysKnown(r)
      PROVE  Usage!UsageInv'
  <2>1. ~r.latest /\ UNCHANGED <<c3, c5, c6, c7>>
    BY <1>5, UsageFalls DEF Usage!UsageInv
  <2>2. PICK more : c8' = Usage!Rest(r) \cup more /\ \A s \in more : Plain(s)
    BY <1>5, UsageFalls
  <2>3. c7' \/ c3'.q = c5 \/ c6'
    BY <2>1 DEF Usage!UsageInv, Usage!TableAnswersLastQuery
  <2> QED
    BY <1>1, <1>5, <2>1, <2>2, <2>3, UsageFalls, UsageEnds
<1>6. ASSUME NEW r \in c8, Usage!LoadAnswered(r)
      PROVE  Usage!UsageInv'
  <2>1. UNCHANGED <<c1, c4, c5, c6>>
    BY <1>6 DEF Usage!LoadAnswered
  <2>2. r.latest => c3'.q = c5 /\ c7' = FALSE
    BY <1>6 DEF Usage!LoadAnswered, Usage!UsageInv
  <2>3. ~r.latest => UNCHANGED <<c3, c7>>
    BY <1>6 DEF Usage!LoadAnswered
  <2>4. c7' = (c7 /\ ~r.latest)
    BY <1>1, <2>2, <2>3
  <2>5. c7' \/ c3'.q = c5 \/ c6'
    BY <2>1, <2>2, <2>3 DEF Usage!UsageInv, Usage!TableAnswersLastQuery
  <2>6. PICK more : more = {}
    OBVIOUS
  <2>7. c8' = Usage!Rest(r) \cup more
    BY <1>6, <2>6 DEF Usage!LoadAnswered
  <2> QED
    BY <1>1, <2>1, <2>4, <2>5, <2>6, <2>7, UsageEnds
<1>7. ASSUME NEW r \in c8, Usage!Failed(r)
      PROVE  Usage!UsageInv'
  <2>1. UNCHANGED <<c1, c3, c4, c5>> /\ c7' = (c7 /\ ~r.latest)
    BY <1>7 DEF Usage!Failed
  <2>2. (r.latest \/ c6) => c6'
    BY <1>7 DEF Usage!Failed
  <2>3. c7' \/ c3'.q = c5 \/ c6'
    BY <2>1, <2>2 DEF Usage!UsageInv, Usage!TableAnswersLastQuery
  <2>4. PICK more : more = {}
    OBVIOUS
  <2>5. c8' = Usage!Rest(r) \cup more
    BY <1>7, <2>4 DEF Usage!Failed
  <2> QED
    BY <1>1, <2>1, <2>3, <2>4, <2>5, UsageEnds
<1>8. ASSUME NEW r \in c8, Usage!RefreshedAll(r) \/ Usage!Cleaned(r)
      PROVE  Usage!UsageInv'
  <2>1. PICK p, more : /\ Usage!Load(r.q.f, p, Usage!Rest(r), more)
                       /\ \/ more = Usage!ForModels(r.q.f) \cup Usage!ForKeys(r.q.f)
                          \/ more = Usage!ForModels(r.q.f) \cup Usage!ForKeys(r.q.f) \cup Usage!ForKeys(c1)
    BY <1>8 DEF Usage!RefreshedAll, Usage!Cleaned
  <2>2. UNCHANGED <<c1, c4>>
    BY <1>8 DEF Usage!RefreshedAll, Usage!Cleaned
  <2>3. \A s \in more : Plain(s)
    BY <2>1, UsageOptions
  <2>4. Usage!Rest(r) \subseteq c8
    BY DEF Usage!Rest
  <2> QED
    BY <1>1, <2>1, <2>2, <2>3, <2>4, UsageLoads
<1>9. ASSUME NEW r \in c8, Usage!GroupsAnswered(r)
      PROVE  Usage!UsageInv'
  <2>1. UNCHANGED <<c1, c3, c4, c5, c6, c7>> /\ r.op = "groups"
    BY <1>9 DEF Usage!GroupsAnswered
  <2>2. PICK more : more = Usage!ForKeys(c1)
    OBVIOUS
  <2>3. c8' = Usage!Rest(r) \cup more /\ \A s \in more : Plain(s)
    BY <1>9, <2>2, UsageOptions DEF Usage!GroupsAnswered
  <2>4. ~r.latest
    BY <2>1 DEF Usage!UsageInv
  <2>5. c7' \/ c3'.q = c5 \/ c6'
    BY <2>1 DEF Usage!UsageInv, Usage!TableAnswersLastQuery
  <2> QED
    BY <1>1, <2>1, <2>3, <2>4, <2>5, UsageEnds
<1>10. CASE Usage!Leave
  <2>1. PICK more : more = Usage!ForGroups
    OBVIOUS
  <2>2. Usage!Load(Usage!NoFilter, 1, c8, more) /\ UNCHANGED <<c1, c4>>
    BY <1>10, <2>1 DEF Usage!Leave, Usage!Click
  <2>3. \A r \in more : Plain(r)
    BY <2>1, UsageOptions
  <2> QED
    BY <1>1, <2>2, <2>3, UsageLoads
<1>11. ASSUME NEW l \in Usage!Links, Usage!Follow(l)
       PROVE  Usage!UsageInv'
  <2>1. CASE UNCHANGED <<c1, c3, c4, c5, c6, c7>> /\ c8' = c8 \cup Usage!ForGroups
    <3>1. \A r \in Usage!ForGroups : Plain(r)
      BY UsageOptions
    <3> QED
      BY <1>1, <2>1, <3>1, UsageAdds DEF Plain
  <2> QED
    BY <1>2, <1>11, <2>1, UsageFollows
<1> QED
  BY <1>2, <1>3, <1>4, <1>5, <1>6, <1>7, <1>8, <1>9, <1>10, <1>11, UsageClicks
  DEF Usage!Next, Usage!Clicks, Usage!Arrivals

\* A chain that went on is not under way as it was.
LEMMA UsageWentOn ==
    ASSUME Usage!UsageInv, NEW r \in c8, Usage!RefreshedAll(r) \/ Usage!Cleaned(r)
    PROVE  Usage!WentOn
<1>1. \A s \in c8 : s \in [op : {s.op}, q : [f : {s.q.f}, page : {s.q.page}], latest : BOOLEAN]
  BY DEF Usage!UsageInv, Usage!IsReq
<1>2. PICK p, more : /\ \/ more = Usage!ForModels(r.q.f) \cup Usage!ForKeys(r.q.f)
                        \/ more = Usage!ForModels(r.q.f) \cup Usage!ForKeys(r.q.f) \cup Usage!ForKeys(c1)
                     /\ Usage!Load(r.q.f, p, Usage!Rest(r), more)
                     /\ p \in {r.q.page, 1} /\ (p = r.q.page \/ r.op = "clean")
  BY DEF Usage!RefreshedAll, Usage!Cleaned
<1>3. r.op \in {"refreshAll", "clean"} /\ p = r.q.page
  BY <1>2 DEF Usage!RefreshedAll, Usage!Cleaned, Usage!UsageInv
<1>4. c5' = r.q
  <2>1. c5' = [f |-> r.q.f, page |-> p]
    BY <1>2 DEF Usage!Load
  <2>2. r.q \in [f : {r.q.f}, page : {r.q.page}]
    BY <1>1
  <2> QED
    BY <1>3, <2>1, <2>2
<1>5. r \notin more
  BY <1>2, <1>3, UsageOptions DEF Plain
<1>6. r # Usage!Req("load", r.q.f, p)
  BY <1>3 DEF Usage!Req
<1>7. r \notin Usage!Outdated(Usage!Rest(r))
  <2> SUFFICES ASSUME NEW s \in c8, s # r, r = [s EXCEPT !.latest = FALSE]
               PROVE  FALSE
    BY DEF Usage!Outdated, Usage!Rest
  <2>1. r.op = s.op
    BY <1>1
  <2>2. s.latest = FALSE
    BY <1>1, <1>3, <2>1 DEF Usage!UsageInv
  <2> QED
    BY <1>1, <2>2
<1>8. r \notin c8'
  BY <1>2, <1>5, <1>6, <1>7 DEF Usage!Load
<1> QED
  BY <1>3, <1>4, <1>8 DEF Usage!WentOn

LEMMA UsagePartStep ==
    ASSUME Usage!UsageInv, Usage!Next PROVE Usage!PartStep
<1>1. CASE UsageLoaded
  BY <1>1 DEF UsageLoaded, Usage!Load, Usage!PartStep
<1>2. CASE Usage!TypeRest
  BY <1>2 DEF Usage!TypeRest, Usage!PartStep, Usage!TypedOnly
<1>3. CASE c1' = c1 /\ c5' = c5
  BY <1>3 DEF Usage!PartStep
<1>4. ASSUME NEW r \in c8, Usage!ModelsAnswered(r) \/ Usage!KeysKnown(r)
      PROVE  Usage!PartStep
  BY <1>4, UsageFalls DEF Usage!PartStep
<1>5. ASSUME NEW r \in c8, Usage!RefreshedAll(r) \/ Usage!Cleaned(r)
      PROVE  Usage!PartStep
  BY <1>5, UsageWentOn DEF Usage!PartStep
<1>6. ASSUME NEW r \in c8, Usage!LoadAnswered(r) \/ Usage!Failed(r) \/ Usage!GroupsAnswered(r)
      PROVE  c1' = c1 /\ c5' = c5
  BY <1>6 DEF Usage!LoadAnswered, Usage!Failed, Usage!GroupsAnswered
<1>7. ASSUME NEW op \in {"refreshAll", "clean"}, Usage!Begin(op)
      PROVE  c1' = c1 /\ c5' = c5
  BY <1>7 DEF Usage!Begin
<1>8. CASE Usage!Leave
  BY <1>8 DEF Usage!Leave, Usage!Load, Usage!PartStep, Usage!Left
<1>9. ASSUME NEW l \in Usage!Links, Usage!Follow(l)
      PROVE  Usage!PartStep
  BY <1>1, <1>3, <1>9, UsageFollows
<1> QED
  BY <1>1, <1>2, <1>3, <1>4, <1>5, <1>6, <1>7, <1>8, <1>9, UsageClicks DEF Usage!Next, Usage!Clicks, Usage!Arrivals

-----------------------------------------------------------------------------
(* The order of the groups (GroupOrder) *)

LEMMA OrderStarts == Order!Init => Order!OrderInv
BY DEF Order!Init, Order!OrderInv

\* The order of the gateway depends on the positions only.
LEMMA OrderListKept == c1' = c1 => Order!List' = Order!List
BY DEF Order!List, Order!Places, Order!Alive, Order!Before

\* A click: a request that begins alone is the only one, and what the page shows then is
\* what the server has, unless there was doubt before.
LEMMA OrderStartStep ==
    ASSUME Order!OrderInv, NEW op \in {"reorder", "delete", "list"}, NEW ids, Order!Start(op, ids),
           op = "delete" => ids # <<>>, op = "list" => ids = <<>>,
           op # "reorder" => c2' = c2
    PROVE  Order!OrderInv'
<1>1. Order!List' = Order!List
  BY OrderListKept DEF Order!Start
<1>2. PICK n : n = [op |-> op, ids |-> ids, prev |-> c2, items |-> <<>>, served |-> FALSE, alone |-> c3 = {}]
  OBVIOUS
<1>3. /\ n.op = op /\ n.ids = ids /\ n.prev = c2 /\ n.served = FALSE /\ n.alone = (c3 = {})
      /\ Order!IsCall(n)
  BY <1>2 DEF Order!IsCall
<1>4. c3' = {[c EXCEPT !.alone = FALSE] : c \in c3} \cup {n} /\ c4' = (c4 \/ c3 # {})
  BY <1>2 DEF Order!Start
<1>5. ASSUME NEW c \in c3, NEW d, d = [c EXCEPT !.alone = FALSE]
      PROVE  d.op = c.op /\ d.ids = c.ids /\ d.alone = FALSE /\ Order!IsCall(d)
  <2>1. c \in [op : {c.op}, ids : {c.ids}, prev : {c.prev}, items : {c.items}, served : BOOLEAN, alone : BOOLEAN]
    BY DEF Order!OrderInv, Order!IsCall
  <2>2. d \in [op : {c.op}, ids : {c.ids}, prev : {c.prev}, items : {c.items}, served : BOOLEAN, alone : {FALSE}]
    BY <1>5, <2>1
  <2> QED
    BY <2>2 DEF Order!IsCall
<1>6. \A d \in c3' : d = n \/ \E c \in c3 : d.op = c.op /\ d.ids = c.ids /\ d.alone = FALSE /\ Order!IsCall(d)
  <2> SUFFICES ASSUME NEW d \in c3', d # n
               PROVE  \E c \in c3 : d.op = c.op /\ d.ids = c.ids /\ d.alone = FALSE /\ Order!IsCall(d)
    OBVIOUS
  <2>1. PICK c \in c3 : d = [c EXCEPT !.alone = FALSE]
    BY <1>4
  <2> QED
    BY <1>5, <2>1
<1>7. CASE c3 = {}
  <2>1. c3' = {n} /\ c4' = c4 /\ n.alone
    BY <1>3, <1>4, <1>7 DEF Order!OrderInv
  <2>2. ~c4 => c2 = Order!List
    BY <1>7 DEF Order!OrderInv
  <2>3. Order!Undisturbed(n)'
    BY <1>1, <1>3, <2>1, <2>2 DEF Order!Undisturbed
  <2> QED
    BY <1>3, <2>1, <2>3 DEF Order!OrderInv, Order!IsCall
<1>8. CASE c3 # {}
  <2>1. c4' = TRUE /\ ~n.alone
    BY <1>3, <1>4, <1>8
  <2>2. \A d \in c3' : /\ Order!IsCall(d) /\ d.op \in {"reorder", "delete", "list"}
                       /\ d.op = "delete" => d.ids # <<>>
                       /\ ~d.alone
    BY <1>3, <1>6, <2>1 DEF Order!OrderInv
  <2> QED
    BY <2>1, <2>2 DEF Order!OrderInv, Order!IsCall
<1> QED
  BY <1>7, <1>8

\* A request that nothing overlaps is the only one.
LEMMA OrderAlone ==
    ASSUME Order!OrderInv, NEW c \in c3
    PROVE  /\ c.alone => c3 = {c}
           /\ ~c4 => c.alone
BY DEF Order!OrderInv, Order!Undisturbed

LEMMA OrderServe ==
    ASSUME Order!OrderInv, NEW c \in c3, Order!Serve(c) PROVE Order!OrderInv'
<1>1. c \in [op : {c.op}, ids : {c.ids}, prev : {c.prev}, items : {c.items}, served : BOOLEAN, alone : BOOLEAN]
  BY DEF Order!OrderInv, Order!IsCall
<1>2. PICK now : now = Order!List'
  OBVIOUS
<1> DEFINE n == [c EXCEPT !.served = TRUE, !.items = now]
<1>3. n \in [op : {c.op}, ids : {c.ids}, prev : {c.prev}, items : {now}, served : {TRUE}, alone : {c.alone}]
  BY <1>1
<1>4. c3' = (c3 \ {c}) \cup {n} /\ UNCHANGED <<c2, c4>>
  BY <1>2 DEF Order!Serve
<1> HIDE DEF n
<1>5. CASE c.alone
  <2>1. c3' = {n}
    BY <1>4, <1>5, OrderAlone
  <2>2. Order!Undisturbed(n)'
    BY <1>2, <1>3, <2>1 DEF Order!Undisturbed
  <2> QED
    BY <1>1, <1>3, <1>4, <1>5, <2>1, <2>2 DEF Order!OrderInv, Order!IsCall
<1>6. CASE ~c.alone
  <2>1. \A d \in c3 : ~d.alone
    BY <1>6, OrderAlone
  <2>2. c4 = TRUE
    BY <1>6, OrderAlone DEF Order!OrderInv
  <2> QED
    BY <1>1, <1>3, <1>4, <1>6, <2>1, <2>2 DEF Order!OrderInv, Order!IsCall
<1> QED
  BY <1>5, <1>6

LEMMA OrderAnswer ==
    ASSUME Order!OrderInv, NEW c \in c3, Order!Answered(c) PROVE Order!OrderInv'
<1>1. c \in [op : {c.op}, ids : {c.ids}, prev : {c.prev}, items : {c.items}, served : BOOLEAN, alone : BOOLEAN]
  BY DEF Order!OrderInv, Order!IsCall
<1>2. Order!List' = Order!List
  BY OrderListKept DEF Order!Answered
<1>3. CASE c.op = "delete"
  <2> DEFINE n == [c EXCEPT !.op = "list", !.served = FALSE, !.items = <<>>]
  <2>1. n \in [op : {"list"}, ids : {c.ids}, prev : {c.prev}, items : {<<>>}, served : {FALSE}, alone : {c.alone}]
    BY <1>1
  <2>2. c3' = (c3 \ {c}) \cup {n} /\ UNCHANGED <<c2, c4>>
    BY <1>3 DEF Order!Answered
  <2> HIDE DEF n
  <2>3. c.ids # <<>>
    BY <1>3 DEF Order!OrderInv
  <2>4. CASE c.alone
    <3>1. c3' = {n}
      BY <2>2, <2>4, OrderAlone
    <3>2. Order!Undisturbed(n)'
      BY <2>1, <2>3, <3>1 DEF Order!Undisturbed
    <3> QED
      BY <1>1, <2>1, <2>2, <2>4, <3>1, <3>2 DEF Order!OrderInv, Order!IsCall
  <2>5. CASE ~c.alone
    <3>1. \A d \in c3 : ~d.alone
      BY <2>5, OrderAlone
    <3>2. c4 = TRUE
      BY <2>5, OrderAlone DEF Order!OrderInv
    <3> QED
      BY <1>1, <2>1, <2>2, <2>5, <3>1, <3>2 DEF Order!OrderInv, Order!IsCall
  <2> QED
    BY <2>4, <2>5
<1>4. CASE c.op # "delete"
  <2>1. c2' = c.items /\ c4' = (c4 /\ ~c.alone) /\ c3' = c3 \ {c} /\ c.served
    BY <1>4 DEF Order!Answered
  <2>2. CASE c.alone
    <3>1. c.items = Order!List
      BY <1>4, <2>1, <2>2 DEF Order!OrderInv, Order!Undisturbed
    <3>2. c3' = {}
      BY <2>1, <2>2, OrderAlone
    <3> QED
      BY <1>2, <2>1, <3>1, <3>2 DEF Order!OrderInv
  <2>3. CASE ~c.alone
    <3>1. \A d \in c3 : ~d.alone
      BY <2>3, OrderAlone
    <3>2. c4' = TRUE
      BY <2>1, <2>3, OrderAlone DEF Order!OrderInv
    <3> QED
      BY <2>1, <3>1, <3>2 DEF Order!OrderInv, Order!IsCall
  <2> QED
    BY <2>2, <2>3
<1> QED
  BY <1>3, <1>4

LEMMA OrderFail ==
    ASSUME Order!OrderInv, NEW c \in c3, Order!Failed(c) PROVE Order!OrderInv'
<1>1. Order!List' = Order!List
  BY OrderListKept DEF Order!Failed
<1>2. /\ c2' = IF c.op = "reorder" THEN c.prev ELSE c2
      /\ c3' = c3 \ {c} /\ c4' = (c4 \/ c.served \/ (c.op = "list" /\ c.ids # <<>>))
  BY DEF Order!Failed
<1>3. CASE c.alone
  <2>1. c3' = {}
    BY <1>2, <1>3, OrderAlone
  <2>2. Order!Undisturbed(c) /\ c.op \in {"reorder", "delete", "list"}
    BY <1>3 DEF Order!OrderInv
  <2>3. ~c4' => c2' = Order!List
    BY <1>2, <2>2 DEF Order!Undisturbed
  <2>4. c4' \in BOOLEAN
    BY <1>2
  <2> QED
    BY <1>1, <2>1, <2>3, <2>4 DEF Order!OrderInv
<1>4. CASE ~c.alone
  <2>1. \A d \in c3 : ~d.alone
    BY <1>4, OrderAlone
  <2>2. c4' = TRUE
    BY <1>2, <1>4, OrderAlone DEF Order!OrderInv
  <2> QED
    BY <1>2, <2>1, <2>2 DEF Order!OrderInv, Order!IsCall
<1> QED
  BY <1>3, <1>4

LEMMA OrderStep ==
    ASSUME Order!OrderInv, Order!Next PROVE Order!OrderInv'
<1>1. CASE Order!Drag
  BY <1>1, OrderStartStep DEF Order!Drag
<1>2. CASE Order!DeleteGroup
  BY <1>2, OrderStartStep DEF Order!DeleteGroup
<1>3. CASE Order!Refresh
  BY <1>3, OrderStartStep DEF Order!Refresh
<1> QED
  BY <1>1, <1>2, <1>3, OrderServe, OrderAnswer, OrderFail DEF Order!Next

-----------------------------------------------------------------------------
(* The price overrides (PriceTable) *)

\* What is said of a call in IdInv.
TableCall(c) ==
    /\ Table!IsCall(c) /\ Table!Known(c.rows)
    /\ c.op = "delete" => c.id # 0 /\ Table!Knows(c.id, c.model)
    /\ c.op = "save" => c.model \in Priced /\ [id |-> 0, price |-> c.price, on |-> c.on] \in Table!AnyRow

LEMMA TableIds ==
    Table!IdInv <=> c2 \in Nat /\ Table!Known(c1) /\ Table!Known(c3) /\ \A c \in c9 : TableCall(c)
BY DEF Table!IdInv, TableCall

LEMMA TableNoOverrides == c2 \in Nat => Table!Known(Table!NoOverrides)
BY DEF Table!Known, Table!NoOverrides, Table!NoRow, Table!AnyRow, Table!Knows

LEMMA TableStarts == Table!Init => Table!TableInv
<1> SUFFICES ASSUME Table!Init PROVE Table!TableInv
  OBVIOUS
<1>1. PICK m \in Priced \cup {Nil}, p \in Prices, on \in BOOLEAN :
         /\ c1 = [n \in Priced |-> IF n = m THEN [id |-> 1, price |-> p, on |-> on] ELSE Table!NoRow]
         /\ c2 = IF m = Nil THEN 0 ELSE 1
  BY DEF Table!Init
<1> SUFFICES ASSUME Nil \notin Priced PROVE Table!TableInv
  BY PanelsAssumption DEF PanelsAssumption
<1>2. Table!Known(c1) /\ c2 \in Nat
  <2>1. c2 \in Nat /\ c1 \in [Priced -> Table!AnyRow]
    BY <1>1 DEF Table!NoRow, Table!AnyRow
  <2>2. \A n \in Priced : c1[n].id = IF n = m THEN 1 ELSE 0
    BY <1>1 DEF Table!NoRow
  <2>3. \A n \in Priced : Table!Knows(c1[n].id, n)
    BY <1>1, <2>1, <2>2 DEF Table!Knows
  <2> QED
    BY <2>1, <2>3 DEF Table!Known
<1>3. PICK n : n = Table!ListCall(FALSE)
  OBVIOUS
<1>4. n.op = "list" /\ n.served = FALSE /\ n.rows = Table!NoOverrides /\ Table!IsCall(n)
  BY <1>3 DEF Table!ListCall, Table!Call, Table!IsCall
<1>5. c9 = {n} /\ c3 = Table!NoOverrides
  BY <1>3 DEF Table!Init
<1>6. Table!IdInv
  BY <1>2, <1>4, <1>5, TableNoOverrides DEF Table!IdInv
<1>7. Table!ShownInv
  BY <1>4, <1>5 DEF Table!ShownInv, Table!Current, Table!Coming
<1>8. Table!SearchInv /\ Table!DefaultsAnswerSearch /\ Table!FormTypes
  BY <1>4, <1>5 DEF Table!Init, Table!SearchInv, Table!DefaultsAnswerSearch, Table!FormTypes, Table!ClosedForm
<1> QED
  BY <1>6, <1>7, <1>8 DEF Table!TableInv

-----------------------------------------------------------------------------
\* An id that is known stays known, as long as no row takes an id that was given out.
OldIDs == c2' \in Nat /\ c2 <= c2' /\ \A n \in Priced : c1'[n].id = 0 \/ c1'[n].id = c1[n].id \/ c1'[n].id > c2

LEMMA TableKnows ==
    ASSUME c2 \in Nat, OldIDs
    PROVE  /\ \A id \in Nat, m \in Priced : Table!Knows(id, m) => Table!Knows(id, m)'
           /\ \A rows : Table!Known(rows) => Table!Known(rows)'
           /\ \A c : TableCall(c) => TableCall(c)'
<1>1. ASSUME NEW id \in Nat, NEW m, Table!Knows(id, m)
      PROVE  Table!Knows(id, m)'
  BY <1>1 DEF Table!Knows, OldIDs
<1>2. ASSUME NEW rows, Table!Known(rows)
      PROVE  Table!Known(rows)'
  <2>1. \A m \in Priced : rows[m].id \in Nat
    BY <1>2 DEF Table!Known, Table!AnyRow
  <2> QED
    BY <1>1, <1>2, <2>1 DEF Table!Known, Table!AnyRow
<1>3. ASSUME NEW c, TableCall(c)
      PROVE  TableCall(c)'
  <2>1. c.id \in Nat
    BY <1>3 DEF TableCall, Table!IsCall
  <2> QED
    BY <1>1, <1>2, <1>3, <2>1 DEF TableCall, Table!IsCall
<1> QED
  BY <1>1, <1>2, <1>3

\* What the server does with a call.
LEMMA TableWrites ==
    ASSUME Table!IdInv, NEW c \in c9, Table!Serve(c)
    PROVE  OldIDs /\ Table!Known(c1)'
<1>1. c2 \in Nat /\ Table!Known(c1) /\ TableCall(c)
  BY TableIds
<1>2. c1 \in [Priced -> Table!AnyRow] /\ (\A m \in Priced : c1[m].id \in Nat /\ Table!Knows(c1[m].id, m))
  BY <1>1 DEF Table!Known, Table!AnyRow
<1>3. CASE c.op = "save"
  <2>1. Table!Upsert(c) /\ c.model \in Priced /\ c.price \in Prices \cup {Nil} /\ c.on \in BOOLEAN
    BY <1>1, <1>3 DEF Table!Serve, TableCall, Table!AnyRow
  <2>2. CASE Table!Exists(c1, c.model)
    <3>1. PICK new : new = [id |-> c1[c.model].id, price |-> c.price, on |-> c.on]
      OBVIOUS
    <3>2. c1' = [c1 EXCEPT ![c.model] = new] /\ c2' = c2
      BY <2>1, <2>2, <3>1 DEF Table!Upsert
    <3>3. new \in Table!AnyRow /\ new.id = c1[c.model].id
      BY <1>2, <2>1, <3>1 DEF Table!AnyRow
    <3>4. c1' \in [Priced -> Table!AnyRow] /\ \A n \in Priced : c1'[n].id = c1[n].id
      BY <1>2, <2>1, <3>2, <3>3
    <3>5. OldIDs
      BY <1>1, <3>2, <3>4 DEF OldIDs
    <3> QED
      BY <1>2, <3>2, <3>4, <3>5 DEF Table!Known, Table!Knows, Table!AnyRow
  <2>3. CASE ~Table!Exists(c1, c.model)
    <3>1. PICK new : new = [id |-> c2 + 1, price |-> c.price, on |-> TRUE]
      OBVIOUS
    <3>2. c1' = [c1 EXCEPT ![c.model] = new] /\ c2' = c2 + 1
      BY <2>1, <2>3, <3>1 DEF Table!Upsert
    <3>3. new \in Table!AnyRow /\ new.id = c2 + 1
      BY <1>1, <2>1, <3>1 DEF Table!AnyRow
    <3>4. c1' \in [Priced -> Table!AnyRow]
      BY <1>2, <2>1, <3>2, <3>3
    <3>5. \A n \in Priced : c1'[n].id = IF n = c.model THEN c2 + 1 ELSE c1[n].id
      BY <1>2, <2>1, <3>2, <3>3
    <3>6. \A n \in Priced : c1[n].id <= c2
      BY <1>2 DEF Table!Knows
    <3>7. OldIDs
      BY <1>1, <3>2, <3>5 DEF OldIDs
    <3>8. \A m \in Priced : Table!Knows(c1[m].id, m)'
      BY <1>1, <1>2, <3>2, <3>5, <3>6 DEF Table!Knows
    <3> QED
      BY <3>4, <3>7, <3>8 DEF Table!Known, Table!AnyRow
  <2> QED
    BY <2>2, <2>3
<1>4. CASE c.op = "delete"
  <2>1. c1' = [m \in Priced |-> IF c1[m].id = c.id THEN Table!NoRow ELSE c1[m]] /\ c2' = c2
    BY <1>4 DEF Table!Serve, Table!DeleteRow
  <2>2. Table!NoRow \in Table!AnyRow /\ Table!NoRow.id = 0
    BY DEF Table!NoRow, Table!AnyRow
  <2>3. c1' \in [Priced -> Table!AnyRow]
    BY <1>2, <2>1, <2>2
  <2>4. \A n \in Priced : c1'[n].id = IF c1[n].id = c.id THEN 0 ELSE c1[n].id
    BY <2>1, <2>2
  <2>5. OldIDs
    BY <1>1, <2>1, <2>4 DEF OldIDs
  <2> QED
    BY <1>1, <1>2, <2>1, <2>3, <2>4, <2>5 DEF Table!Known, Table!Knows, Table!AnyRow
<1>5. CASE c.op \notin {"save", "delete"}
  <2>1. UNCHANGED <<c1, c2>>
    BY <1>5 DEF Table!Serve
  <2> QED
    BY <1>1, <2>1 DEF OldIDs, Table!Known, Table!Knows
<1> QED
  BY <1>3, <1>4, <1>5

-----------------------------------------------------------------------------
\* The page: a click asks for something or not, and moves neither the table nor the list.
TableClick(more) ==
    /\ UNCHANGED <<c1, c2, c3, c11>> /\ c9' = c9 \cup more
    /\ \A n \in more : TableCall(n) /\ n.served = FALSE
    /\ \A n \in more : n.op = "defaults" => n.query = c8'.searched

\* The dialog of the built-in prices: opened or closed, or a search is begun in it.
TableDefaults ==
    \/ /\ c8' \in [open : BOOLEAN, list : {c8.list}, searched : {c8.searched},
                   loading : {c8.loading}, raced : {c8.raced}]
    \/ /\ c8' \in [open : BOOLEAN, list : {c8.list}, searched : Queries, loading : {TRUE}, raced : BOOLEAN]
       /\ ~c8'.raced => \A c \in c9 : c.op # "defaults"

LEMMA TableClicked ==
    ASSUME Table!TableInv, NEW more, TableClick(more), TableDefaults, Table!FormTypes'
    PROVE  Table!TableInv'
<1>1. Table!IdInv'
  <2>1. c2 \in Nat /\ Table!Known(c1) /\ Table!Known(c3) /\ \A c \in c9 : TableCall(c)
    BY TableIds DEF Table!TableInv
  <2>2. OldIDs
    BY <2>1 DEF OldIDs, TableClick
  <2>3. Table!Known(c1)' /\ Table!Known(c3)' /\ \A c \in c9' : TableCall(c)'
    BY <2>1, <2>2, TableKnows DEF TableClick
  <2> QED
    BY <2>1, <2>3 DEF Table!IdInv, TableCall, TableClick
<1>2. Table!ShownInv'
  BY DEF TableClick, Table!TableInv, Table!ShownInv, Table!Current, Table!Coming
<1>3. Table!SearchInv' /\ Table!DefaultsAnswerSearch'
  <2>1. c8 \in [open : BOOLEAN, list : {c8.list}, searched : {c8.searched}, loading : BOOLEAN, raced : BOOLEAN]
    BY DEF Table!TableInv, Table!SearchInv
  <2>2. CASE c8' \in [open : BOOLEAN, list : {c8.list}, searched : {c8.searched},
                      loading : {c8.loading}, raced : {c8.raced}]
    BY <2>1, <2>2 DEF TableClick, Table!TableInv, Table!SearchInv, Table!DefaultsAnswerSearch
  <2>3. CASE /\ c8' \in [open : BOOLEAN, list : {c8.list}, searched : Queries, loading : {TRUE}, raced : BOOLEAN]
             /\ ~c8'.raced => \A c \in c9 : c.op # "defaults"
    BY <2>3 DEF TableClick, Table!TableInv, Table!SearchInv, Table!DefaultsAnswerSearch
  <2> QED
    BY <2>2, <2>3 DEF TableDefaults
<1> QED
  BY <1>1, <1>2, <1>3 DEF Table!TableInv

LEMMA TableClosedForm ==
    Table!ClosedForm \in [open : BOOLEAN, of : Nat, model : Priced \cup {Nil}, price : Prices \cup {Nil}, on : BOOLEAN]
BY DEF Table!ClosedForm

\* Clicks that ask for nothing.
LEMMA TableEdits ==
    ASSUME Table!TableInv,
           \/ Table!OpenCreatePrice \/ Table!EditForm \/ Table!CloseForm \/ Table!CloseDefaults
           \/ Table!ApplyDefaultAsOverride
           \/ \E m \in Priced : Table!OpenEditPrice(m) \/ Table!AskDelete(m)
    PROVE  Table!TableInv'
<1>1. UNCHANGED <<c1, c2, c3, c9, c11>>
  BY DEF Table!OpenCreatePrice, Table!EditForm, Table!CloseForm, Table!CloseDefaults,
     Table!ApplyDefaultAsOverride, Table!OpenEditPrice, Table!AskDelete, Table!Click
<1>2. /\ c8 \in [open : BOOLEAN, list : {c8.list}, searched : {c8.searched}, loading : BOOLEAN, raced : BOOLEAN]
      /\ c4 \in [open : BOOLEAN, of : Nat, model : Priced \cup {Nil}, price : Prices \cup {Nil}, on : BOOLEAN]
      /\ c5 \in Priced \cup {Nil}
  BY DEF Table!TableInv, Table!SearchInv, Table!FormTypes
<1>3. c8' = c8 \/ c8' = [c8 EXCEPT !.open = FALSE]
  <2>1. CASE Table!OpenCreatePrice \/ Table!EditForm \/ Table!CloseForm
    BY <2>1 DEF Table!OpenCreatePrice, Table!EditForm, Table!CloseForm
  <2>2. CASE Table!CloseDefaults \/ Table!ApplyDefaultAsOverride
    BY <2>2 DEF Table!CloseDefaults, Table!ApplyDefaultAsOverride
  <2>3. CASE \E m \in Priced : Table!OpenEditPrice(m) \/ Table!AskDelete(m)
    BY <2>3 DEF Table!OpenEditPrice, Table!AskDelete
  <2> QED
    BY <2>1, <2>2, <2>3
<1>4. TableDefaults
  <2>1. c8' \in [open : BOOLEAN, list : {c8.list}, searched : {c8.searched}, loading : {c8.loading}, raced : {c8.raced}]
    BY <1>2, <1>3
  <2> QED
    BY <1>2, <2>1 DEF TableDefaults
<1>5. c5' \in Priced \cup {Nil}
  BY <1>2 DEF Table!OpenCreatePrice, Table!EditForm, Table!CloseForm, Table!CloseDefaults,
     Table!ApplyDefaultAsOverride, Table!OpenEditPrice, Table!AskDelete
<1>6. c4' \in [open : BOOLEAN, of : Nat, model : Priced \cup {Nil}, price : Prices \cup {Nil}, on : BOOLEAN]
  <2>1. CASE c4' = c4
    BY <1>2, <2>1
  <2>2. CASE Table!OpenCreatePrice \/ Table!CloseForm
    <3>1. [Table!ClosedForm EXCEPT !.open = TRUE] \in
             [open : BOOLEAN, of : Nat, model : Priced \cup {Nil}, price : Prices \cup {Nil}, on : BOOLEAN]
      BY TableClosedForm
    <3> QED
      BY <2>2, <3>1, TableClosedForm DEF Table!OpenCreatePrice, Table!CloseForm
  <2>3. CASE Table!EditForm
    BY <1>2, <2>3 DEF Table!EditForm
  <2>4. CASE Table!ApplyDefaultAsOverride
    BY <2>4 DEF Table!ApplyDefaultAsOverride
  <2>5. ASSUME NEW m \in Priced, Table!OpenEditPrice(m)
        PROVE  c4' \in [open : BOOLEAN, of : Nat, model : Priced \cup {Nil}, price : Prices \cup {Nil}, on : BOOLEAN]
    <3>1. PICK row : row = c3[m]
      OBVIOUS
    <3>2. row \in Table!AnyRow
      BY <3>1 DEF Table!TableInv, Table!IdInv, Table!Known
    <3>3. c4' = [open |-> TRUE, of |-> row.id, model |-> m, price |-> row.price, on |-> row.on]
      BY <2>5, <3>1 DEF Table!OpenEditPrice
    <3> QED
      BY <3>2, <3>3 DEF Table!AnyRow
  <2> QED
    BY <2>1, <2>2, <2>3, <2>4, <2>5 DEF Table!CloseDefaults, Table!AskDelete
<1>7. PICK more : more = {}
  OBVIOUS
<1>8. TableClick(more)
  BY <1>1, <1>7 DEF TableClick
<1> QED
  BY <1>4, <1>5, <1>6, <1>8, TableClicked DEF Table!FormTypes

\* Clicks that ask: a save of what the form holds, a deletion of a row of the list, a
\* list, a search.
LEMMA TableAsks ==
    ASSUME Table!TableInv,
           \/ Table!SavePrice \/ Table!RefreshAll \/ Table!LoadDefaultPrices
           \/ \E yes \in BOOLEAN : Table!DeletePrice(yes)
    PROVE  Table!TableInv'
<1>1. UNCHANGED <<c1, c2, c3, c4, c11>>
  BY DEF Table!SavePrice, Table!RefreshAll, Table!LoadDefaultPrices, Table!DeletePrice, Table!Click
<1>2. c2 \in Nat /\ Table!Known(Table!NoOverrides) /\ Table!Known(c3)
  BY TableNoOverrides DEF Table!TableInv, Table!IdInv
<1>3. /\ c8 \in [open : BOOLEAN, list : {c8.list}, searched : {c8.searched}, loading : BOOLEAN, raced : BOOLEAN]
      /\ c4 \in [open : BOOLEAN, of : Nat, model : Priced \cup {Nil}, price : Prices \cup {Nil}, on : BOOLEAN]
      /\ c5 \in Priced \cup {Nil}
  BY DEF Table!TableInv, Table!SearchInv, Table!FormTypes
<1>4. c8' = c8 => TableDefaults
  BY <1>3 DEF TableDefaults
<1>5. c5' \in Priced \cup {Nil}
  BY <1>3 DEF Table!SavePrice, Table!RefreshAll, Table!LoadDefaultPrices, Table!DeletePrice
<1>6. Table!FormTypes'
  BY <1>1, <1>3, <1>5 DEF Table!FormTypes
<1>7. CASE Table!SavePrice
  <2>1. PICK n : n = Table!Call("save", c4.model, c4.of, c4.price, c4.on, Nil, TRUE)
    OBVIOUS
  <2>2. /\ n.op = "save" /\ n.model = c4.model /\ n.price = c4.price /\ n.on = c4.on /\ n.served = FALSE
        /\ n.rows = Table!NoOverrides
    BY <2>1 DEF Table!Call
  <2>3. Table!IsCall(n)
    BY <1>3, <2>1 DEF Table!Call, Table!IsCall
  <2>4. c4.model \in Priced
    BY <1>3, <1>7 DEF Table!SavePrice
  <2>5. [id |-> 0, price |-> c4.price, on |-> c4.on] \in Table!AnyRow
    BY <1>3 DEF Table!AnyRow
  <2>6. TableCall(n)
    BY <1>2, <2>2, <2>3, <2>4, <2>5 DEF TableCall
  <2>7. PICK more : more = {n}
    OBVIOUS
  <2>8. c9' = c9 \cup more /\ c8' = c8
    BY <1>7, <2>1, <2>7 DEF Table!SavePrice
  <2>9. TableClick(more)
    BY <1>1, <2>2, <2>6, <2>7, <2>8 DEF TableClick
  <2> QED
    BY <1>4, <1>6, <2>8, <2>9, TableClicked
<1>8. CASE Table!RefreshAll
  <2>1. PICK n : n = Table!ListCall(FALSE)
    OBVIOUS
  <2>2. n.op = "list" /\ n.served = FALSE /\ n.rows = Table!NoOverrides /\ Table!IsCall(n)
    BY <2>1 DEF Table!ListCall, Table!Call, Table!IsCall
  <2>3. PICK more : more = {n}
    OBVIOUS
  <2>4. c9' = c9 \cup more /\ c8' = c8
    BY <1>8, <2>1, <2>3 DEF Table!RefreshAll
  <2>5. TableClick(more)
    BY <1>1, <1>2, <2>2, <2>3, <2>4 DEF TableClick, TableCall
  <2> QED
    BY <1>4, <1>6, <2>4, <2>5, TableClicked
<1>9. CASE Table!LoadDefaultPrices
  <2>1. PICK raced \in BOOLEAN : raced = (\E c \in c9 : c.op = "defaults")
    OBVIOUS
  <2>2. PICK q \in Queries :
           /\ c8' = [c8 EXCEPT !.open = TRUE, !.loading = TRUE, !.searched = q, !.raced = raced]
           /\ c9' = c9 \cup {Table!Call("defaults", Nil, 0, Nil, FALSE, q, FALSE)}
    BY <1>9, <2>1 DEF Table!LoadDefaultPrices
  <2>3. PICK n : n = Table!Call("defaults", Nil, 0, Nil, FALSE, q, FALSE)
    OBVIOUS
  <2>4. /\ n.op = "defaults" /\ n.query = q /\ n.served = FALSE /\ n.rows = Table!NoOverrides
        /\ Table!IsCall(n)
    BY <2>3 DEF Table!Call, Table!IsCall
  <2>5. c8' \in [open : {TRUE}, list : {c8.list}, searched : {q}, loading : {TRUE}, raced : {raced}]
    BY <1>3, <2>2
  <2>6. TableDefaults
    BY <2>1, <2>5 DEF TableDefaults
  <2>7. PICK more : more = {n}
    OBVIOUS
  <2>8. c9' = c9 \cup more
    BY <2>2, <2>3, <2>7
  <2>9. TableClick(more)
    BY <1>1, <1>2, <2>4, <2>5, <2>7, <2>8 DEF TableClick, TableCall
  <2> QED
    BY <1>6, <2>6, <2>9, TableClicked
<1>10. ASSUME NEW yes \in BOOLEAN, Table!DeletePrice(yes)
       PROVE  Table!TableInv'
  <2>1. c8' = c8 /\ c5 \in Priced
    BY <1>3, <1>10 DEF Table!DeletePrice
  <2>2. CASE c9' = c9
    <3>1. PICK more : more = {}
      OBVIOUS
    <3>2. TableClick(more)
      BY <1>1, <2>2, <3>1 DEF TableClick
    <3> QED
      BY <1>4, <1>6, <2>1, <3>2, TableClicked
  <2>3. CASE c9' # c9
    <3>1. PICK id : id = c3[c5].id
      OBVIOUS
    <3>2. PICK n : n = Table!Call("delete", c5, id, Nil, FALSE, Nil, TRUE)
      OBVIOUS
    <3>3. id # 0 /\ c9' = c9 \cup {n}
      BY <1>10, <2>3, <3>1, <3>2 DEF Table!DeletePrice, Table!Exists
    <3>4. id \in Nat /\ Table!Knows(id, c5)
      BY <1>2, <2>1, <3>1 DEF Table!Known, Table!AnyRow
    <3>5. /\ n.op = "delete" /\ n.id = id /\ n.model = c5 /\ n.served = FALSE
          /\ n.rows = Table!NoOverrides
      BY <3>2 DEF Table!Call
    <3>6. Table!IsCall(n)
      BY <3>2, <3>4 DEF Table!Call, Table!IsCall
    <3>7. TableCall(n)
      BY <1>2, <3>3, <3>4, <3>5, <3>6 DEF TableCall
    <3>8. PICK more : more = {n}
      OBVIOUS
    <3>9. TableClick(more)
      BY <1>1, <3>3, <3>5, <3>7, <3>8 DEF TableClick
    <3> QED
      BY <1>4, <1>6, <2>1, <3>9, TableClicked
  <2> QED
    BY <2>2, <2>3
<1> QED
  BY <1>7, <1>8, <1>9, <1>10

\* The server.  A write leaves every list that was read before it behind, which is doubt;
\* without doubt its answer, or the list that was just read, brings the page up to date.
LEMMA TableServe ==
    ASSUME Table!TableInv, NEW c \in c9, Table!Serve(c) PROVE Table!TableInv'
<1>1. Table!IdInv /\ c2 \in Nat /\ Table!Known(c3) /\ \A d \in c9 : TableCall(d)
  BY TableIds DEF Table!TableInv
<1>2. OldIDs /\ Table!Known(c1)'
  BY <1>1, TableWrites
<1>3. c.served = FALSE /\ UNCHANGED <<c3, c4, c5, c8>>
  BY <1>1 DEF Table!Serve, TableCall, Table!IsCall
<1>4. PICK rows : rows = IF c.op = "list" THEN c1 ELSE Table!NoOverrides
  OBVIOUS
<1>5. c \in [op : {c.op}, model : {c.model}, id : Nat, price : {c.price}, on : {c.on},
             query : {c.query}, holds : {c.holds}, served : BOOLEAN, rows : {c.rows}]
  BY <1>1 DEF TableCall, Table!IsCall
<1> DEFINE n == [c EXCEPT !.served = TRUE, !.rows = rows]
<1>6. n \in [op : {c.op}, model : {c.model}, id : {c.id}, price : {c.price}, on : {c.on},
             query : {c.query}, holds : {c.holds}, served : {TRUE}, rows : {rows}]
  BY <1>5
<1>7. c9' = (c9 \ {c}) \cup {n}
  BY <1>4 DEF Table!Serve
<1> HIDE DEF n
<1>8. Table!IdInv'
  <2>1. Table!Known(rows)
    BY <1>1, <1>4, TableIds, TableNoOverrides
  <2>2. TableCall(n)
    BY <1>1, <1>5, <1>6, <2>1 DEF TableCall, Table!IsCall
  <2>3. TableCall(n)' /\ Table!Known(c3)' /\ \A d \in c9 : TableCall(d)'
    BY <1>1, <1>2, <1>3, <2>2, TableKnows
  <2>4. \A d \in c9' : TableCall(d)'
    BY <1>7, <2>3
  <2>5. c2' \in Nat
    BY <1>2 DEF OldIDs
  <2> QED
    BY <1>2, <2>3, <2>4, <2>5 DEF Table!IdInv, TableCall
<1>9. Table!ShownInv'
  <2> SUFFICES ASSUME ~c11' PROVE /\ \A d \in c9' : Table!Current(d) => d.rows = c1'
                                  /\ c3' = c1' \/ \E d \in c9' : Table!Coming(d) \/ Table!Current(d)
    BY DEF Table!ShownInv, Table!Current, Table!Coming
  <2>1. ~c11 /\ (c.op \in {"save", "delete"} => \A d \in c9 : ~Table!Current(d))
    BY DEF Table!Serve, Table!Current
  <2>2. CASE c.op \in {"save", "delete"}
    BY <1>6, <1>7, <2>1, <2>2 DEF Table!Current, Table!Coming
  <2>3. CASE c.op = "list"
    <3>1. c1' = c1 /\ rows = c1
      BY <1>4, <2>3 DEF Table!Serve
    <3>2. Table!Current(n) /\ n.rows = c1'
      BY <1>6, <2>3, <3>1 DEF Table!Current
    <3> QED
      BY <1>7, <2>1, <3>1, <3>2 DEF Table!TableInv, Table!ShownInv
  <2>4. CASE c.op \notin {"save", "delete", "list"}
    <3>1. c1' = c1
      BY <2>4 DEF Table!Serve
    <3>2. ~Table!Current(n) /\ ~Table!Current(c) /\ ~Table!Coming(c)
      BY <1>6, <2>4 DEF Table!Current, Table!Coming
    <3> QED
      BY <1>3, <1>7, <2>1, <3>1, <3>2 DEF Table!TableInv, Table!ShownInv
  <2> QED
    BY <2>2, <2>3, <2>4
<1>10. Table!SearchInv'
  BY <1>3, <1>6, <1>7 DEF Table!TableInv, Table!SearchInv
<1>11. Table!DefaultsAnswerSearch' /\ Table!FormTypes'
  BY <1>3 DEF Table!TableInv, Table!DefaultsAnswerSearch, Table!FormTypes
<1> QED
  BY <1>8, <1>9, <1>10, <1>11 DEF Table!TableInv

\* What neither an answer nor a failure changes: the table, and what the others are.
LEMMA TableIdsEnd ==
    ASSUME Table!TableInv, NEW c \in c9, UNCHANGED <<c1, c2>>, c3' = c3 \/ c3' = c.rows,
           c9' \subseteq c9 \cup {Table!ListCall(TRUE)}
    PROVE  Table!IdInv'
<1>1. c2 \in Nat /\ Table!Known(c1) /\ Table!Known(c3) /\ \A d \in c9 : TableCall(d)
  BY TableIds DEF Table!TableInv
<1>2. OldIDs
  BY <1>1 DEF OldIDs
<1>3. PICK n : n = Table!ListCall(TRUE)
  OBVIOUS
<1>4. TableCall(n)
  <2>1. n.op = "list" /\ n.rows = Table!NoOverrides /\ Table!IsCall(n)
    BY <1>3 DEF Table!ListCall, Table!Call, Table!IsCall
  <2> QED
    BY <1>1, <2>1, TableNoOverrides DEF TableCall
<1>5. TableCall(n)' /\ \A d \in c9 : TableCall(d)'
  BY <1>1, <1>2, <1>4, TableKnows
<1>6. \A d \in c9' : TableCall(d)'
  BY <1>3, <1>5
<1>7. Table!Known(c3) /\ Table!Known(c.rows)
  BY <1>1 DEF TableCall
<1>8. Table!Known(c1)' /\ Table!Known(c3)'
  BY <1>1, <1>2, <1>7, TableKnows
<1> QED
  BY <1>1, <1>6, <1>8 DEF Table!IdInv, TableCall

LEMMA TableAnswer ==
    ASSUME Table!TableInv, NEW c \in c9, Table!Answered(c) PROVE Table!TableInv'
<1>1. UNCHANGED <<c1, c2, c5, c11>> /\ c.served
  BY DEF Table!Answered
<1>2. /\ c8 \in [open : BOOLEAN, list : {c8.list}, searched : {c8.searched}, loading : BOOLEAN, raced : BOOLEAN]
      /\ c4 \in [open : BOOLEAN, of : Nat, model : Priced \cup {Nil}, price : Prices \cup {Nil}, on : BOOLEAN]
      /\ c5 \in Priced \cup {Nil}
  BY DEF Table!TableInv, Table!SearchInv, Table!FormTypes
<1>3. Table!IdInv'
  BY <1>1, TableIdsEnd DEF Table!Answered, Table!WriteAnswered, Table!LoadPrices, Table!DefaultsAnswered
<1>4. Table!FormTypes'
  <2>1. c4' = c4 \/ c4' = Table!ClosedForm
    BY DEF Table!Answered, Table!WriteAnswered, Table!LoadPrices, Table!DefaultsAnswered
  <2> QED
    BY <1>1, <1>2, <2>1, TableClosedForm DEF Table!FormTypes
<1>5. CASE Table!WriteAnswered(c)
  <2>1. PICK n : n = Table!ListCall(TRUE)
    OBVIOUS
  <2>2. n.op = "list" /\ n.served = FALSE
    BY <2>1 DEF Table!ListCall, Table!Call
  <2>3. c9' = (c9 \ {c}) \cup {n} /\ UNCHANGED <<c3, c8>> /\ c.op \in {"save", "delete"}
    BY <1>5, <2>1 DEF Table!WriteAnswered
  <2>4. Table!ShownInv'
    BY <1>1, <2>2, <2>3 DEF Table!TableInv, Table!ShownInv, Table!Coming, Table!Current
  <2>5. Table!SearchInv' /\ Table!DefaultsAnswerSearch'
    BY <2>2, <2>3 DEF Table!TableInv, Table!SearchInv, Table!DefaultsAnswerSearch
  <2> QED
    BY <1>3, <1>4, <2>4, <2>5 DEF Table!TableInv
<1>6. CASE Table!LoadPrices(c)
  <2>1. c9' = c9 \ {c} /\ c3' = c.rows /\ c8' = c8 /\ c.op = "list"
    BY <1>6 DEF Table!LoadPrices
  <2>2. Table!ShownInv'
    BY <1>1, <2>1 DEF Table!TableInv, Table!ShownInv, Table!Coming, Table!Current
  <2>3. Table!SearchInv' /\ Table!DefaultsAnswerSearch'
    BY <2>1 DEF Table!TableInv, Table!SearchInv, Table!DefaultsAnswerSearch
  <2> QED
    BY <1>3, <1>4, <2>2, <2>3 DEF Table!TableInv
<1>7. CASE Table!DefaultsAnswered(c)
  <2>1. c9' = c9 \ {c} /\ c3' = c3 /\ c.op = "defaults"
    BY <1>7 DEF Table!DefaultsAnswered
  <2>2. Table!ShownInv'
    BY <1>1, <2>1 DEF Table!TableInv, Table!ShownInv, Table!Coming, Table!Current
  <2>3. c8' \in [open : BOOLEAN, list : {c.query}, searched : {c8.searched}, loading : {FALSE}, raced : {c8.raced}]
    BY <1>2, <1>7 DEF Table!DefaultsAnswered
  <2>4. Table!SearchInv' /\ Table!DefaultsAnswerSearch'
    BY <1>2, <2>1, <2>3 DEF Table!TableInv, Table!SearchInv, Table!DefaultsAnswerSearch
  <2> QED
    BY <1>3, <1>4, <2>2, <2>4 DEF Table!TableInv
<1> QED
  BY <1>5, <1>6, <1>7 DEF Table!Answered

LEMMA TableFail ==
    ASSUME Table!TableInv, NEW c \in c9, Table!Failed(c) PROVE Table!TableInv'
<1>1. UNCHANGED <<c1, c2, c3, c4, c5>> /\ c9' = c9 \ {c}
  BY DEF Table!Failed
<1>2. Table!IdInv' /\ Table!FormTypes'
  BY <1>1, TableIdsEnd DEF Table!TableInv, Table!FormTypes
<1>3. Table!ShownInv'
  BY <1>1 DEF Table!Failed, Table!TableInv, Table!ShownInv, Table!Coming, Table!Current
<1>4. Table!SearchInv' /\ Table!DefaultsAnswerSearch'
  <2>1. c8 \in [open : BOOLEAN, list : {c8.list}, searched : {c8.searched}, loading : BOOLEAN, raced : BOOLEAN]
    BY DEF Table!TableInv, Table!SearchInv
  <2>2. CASE c.op = "defaults"
    <3>1. c8' \in [open : BOOLEAN, list : {Nil}, searched : {c8.searched}, loading : {FALSE}, raced : {c8.raced}]
      BY <2>1, <2>2 DEF Table!Failed, Table!DefaultsFailed
    <3> QED
      BY <1>1, <2>1, <3>1 DEF Table!TableInv, Table!SearchInv, Table!DefaultsAnswerSearch
  <2>3. CASE c.op # "defaults"
    <3>1. c8' = c8
      BY <2>3 DEF Table!Failed
    <3> QED
      BY <1>1, <3>1 DEF Table!TableInv, Table!SearchInv, Table!DefaultsAnswerSearch
  <2> QED
    BY <2>2, <2>3
<1> QED
  BY <1>2, <1>3, <1>4 DEF Table!TableInv

LEMMA TableStep ==
    ASSUME Table!TableInv, Table!Next PROVE Table!TableInv'
BY TableEdits, TableAsks, TableServe, TableAnswer, TableFail DEF Table!Next

\* The table changes when a call is served; the call that was served is the one that is
\* not under way any more as it was.
LEMMA TableDeleteStep ==
    ASSUME Table!TableInv, Table!Next PROVE Table!DeleteStep
<1> SUFFICES ASSUME NEW c \in c9, NEW m \in Priced, c.op = "delete", ~c.served, c \notin c9',
                    c1[m].id # 0, c1'[m].id = 0
             PROVE  m = c.model
  BY DEF Table!DeleteStep, Table!Exists
<1>1. PICK d \in c9 : Table!Serve(d)
  <2>1. CASE \/ Table!OpenCreatePrice \/ Table!EditForm \/ Table!CloseForm \/ Table!SavePrice \/ Table!RefreshAll
             \/ Table!LoadDefaultPrices \/ Table!CloseDefaults \/ Table!ApplyDefaultAsOverride
             \/ (\E n \in Priced : Table!OpenEditPrice(n) \/ Table!AskDelete(n))
             \/ \E yes \in BOOLEAN : Table!DeletePrice(yes)
    <3>1. c1' = c1
      BY <2>1 DEF Table!OpenCreatePrice, Table!EditForm, Table!CloseForm, Table!SavePrice, Table!RefreshAll,
         Table!LoadDefaultPrices, Table!CloseDefaults, Table!ApplyDefaultAsOverride, Table!OpenEditPrice,
         Table!AskDelete, Table!DeletePrice, Table!Click
    <3> QED
      BY <3>1
  <2>2. ASSUME NEW d \in c9, Table!Answered(d) \/ Table!Failed(d)
        PROVE  FALSE
    <3>1. c1' = c1
      BY <2>2 DEF Table!Answered, Table!Failed
    <3> QED
      BY <3>1
  <2> QED
    BY <2>1, <2>2 DEF Table!Next
<1>2. d = c
  BY <1>1 DEF Table!Serve
<1>3. c1' = [n \in Priced |-> IF c1[n].id = c.id THEN Table!NoRow ELSE c1[n]]
  BY <1>1, <1>2 DEF Table!Serve, Table!DeleteRow
<1>4. c1[m].id = c.id
  BY <1>3
<1> QED
  BY <1>4 DEF Table!TableInv, Table!IdInv, Table!Knows

-----------------------------------------------------------------------------
(* The direct providers (Providers) *)

LEMMA DirectStarts == Direct!Init => Direct!DirectInv
<1> SUFFICES ASSUME Direct!Init PROVE Direct!DirectInv
  OBVIOUS
<1>1. PICK n : /\ n = [op |-> "load", id |-> 0, name |-> Nil, key |-> Nil, hold |-> FALSE, page |-> 1, q |-> Nil,
                       state |-> "sent", row |-> Direct!NoRow, items |-> {}, pages |-> 0]
               /\ c10 = {n}
  BY DEF Direct!Init
<1>2. Direct!IsCall(n) /\ n.op = "load" /\ n.hold = FALSE /\ n.state = "sent"
  BY <1>1 DEF Direct!IsCall
<1>3. c8 \in [open : BOOLEAN, editing : {c8.editing}, name : {c8.name}, key : {c8.key}]
  BY DEF Direct!Init, Direct!EmptyForm
<1>4. c7 = FALSE /\ c9 = 0
  BY DEF Direct!Init
<1>5. Direct!HoldInv
  BY <1>1, <1>2, <1>3, <1>4 DEF Direct!HoldInv
<1>6. Direct!FoundInv
  BY <1>1, <1>2 DEF Direct!FoundInv
<1>7. Direct!RowsInv
  BY DEF Direct!Init, Direct!RowsInv
<1> QED
  BY <1>5, <1>6, <1>7 DEF Direct!DirectInv

\* A step on the panel: what is asked for with it holds the buttons, if nothing else does.
LEMMA DirectAsks ==
    ASSUME Direct!DirectInv, NEW n, c10' = c10 \cup {n}, UNCHANGED <<c1, c2, c8>>,
           Direct!IsCall(n), n.state = "sent", n.op # "load" => n.hold,
           IF n.hold THEN ~c7 /\ c7' = TRUE /\ c9' = 0 ELSE UNCHANGED <<c7, c9>>
    PROVE  Direct!DirectInv'
<1>1. Direct!HoldInv'
  <2>1. \A c \in c10' : Direct!IsCall(c) /\ (c.op # "load" => c.hold)
    BY DEF Direct!DirectInv, Direct!HoldInv
  <2>2. \A c, d \in c10' : c.hold /\ d.hold => c = d
    BY DEF Direct!DirectInv, Direct!HoldInv
  <2>3. c7' \in BOOLEAN /\ (c7' <=> \E c \in c10' : c.hold)
    BY DEF Direct!DirectInv, Direct!HoldInv
  <2>4. c9' # 0 => ~c7' /\ ~c8'.open
    BY DEF Direct!DirectInv, Direct!HoldInv
  <2> QED
    BY <2>1, <2>2, <2>3, <2>4 DEF Direct!DirectInv, Direct!HoldInv, Direct!IsCall
<1>2. Direct!FoundInv' /\ Direct!RowsInv'
  BY DEF Direct!DirectInv, Direct!FoundInv, Direct!RowsInv
<1> QED
  BY <1>1, <1>2 DEF Direct!DirectInv

LEMMA DirectForms ==
    ASSUME Direct!DirectInv, UNCHANGED <<c1, c2, c7, c10>>,
           c8' \in [open : BOOLEAN, editing : {c8'.editing}, name : {c8'.name}, key : {c8'.key}],
           c9' # 0 => ~c7 /\ ~c8'.open
    PROVE  Direct!DirectInv'
BY DEF Direct!DirectInv, Direct!HoldInv, Direct!FoundInv, Direct!RowsInv, Direct!IsCall

LEMMA DirectEdits ==
    ASSUME Direct!DirectInv,
           \/ Direct!TypeQuery \/ Direct!OpenCreate \/ Direct!EditForm \/ Direct!CloseForm
           \/ \E i \in Direct!RowIds : Direct!OpenEdit(i) \/ Direct!Remove(i)
    PROVE  Direct!DirectInv'
<1>1. /\ c8 \in [open : BOOLEAN, editing : {c8.editing}, name : {c8.name}, key : {c8.key}]
      /\ c9 # 0 => ~c7 /\ ~c8.open
  BY DEF Direct!DirectInv, Direct!HoldInv
<1>2. UNCHANGED <<c1, c2, c7, c10>>
  BY DEF Direct!TypeQuery, Direct!OpenCreate, Direct!EditForm, Direct!CloseForm, Direct!OpenEdit,
     Direct!Remove, Direct!Click
<1>3. CASE Direct!TypeQuery
  BY <1>1, <1>2, <1>3, DirectForms DEF Direct!TypeQuery
<1>4. CASE Direct!OpenCreate
  <2>1. c8' = [Direct!EmptyForm EXCEPT !.open = TRUE] /\ c9' = c9 /\ c9 = 0
    BY <1>4 DEF Direct!OpenCreate, Direct!OnPanel
  <2>2. c8' \in [open : BOOLEAN, editing : {c8'.editing}, name : {c8'.name}, key : {c8'.key}]
    BY <2>1 DEF Direct!EmptyForm
  <2> QED
    BY <1>2, <2>1, <2>2, DirectForms
<1>5. CASE Direct!EditForm
  <2>1. PICK n, k : c8' = [c8 EXCEPT !.name = n, !.key = k] /\ c9' = c9 /\ c8.open
    BY <1>5 DEF Direct!EditForm
  <2>2. c8' \in [open : {c8.open}, editing : {c8.editing}, name : {n}, key : {k}]
    BY <1>1, <2>1
  <2>3. c8' \in [open : BOOLEAN, editing : {c8'.editing}, name : {c8'.name}, key : {c8'.key}]
    BY <1>1, <2>2
  <2> QED
    BY <1>1, <1>2, <2>1, <2>3, DirectForms
<1>6. CASE Direct!CloseForm
  <2>1. c8' = [c8 EXCEPT !.open = FALSE] /\ c9' = c9
    BY <1>6 DEF Direct!CloseForm
  <2>2. c8' \in [open : {FALSE}, editing : {c8.editing}, name : {c8.name}, key : {c8.key}]
    BY <1>1, <2>1
  <2> QED
    BY <1>1, <1>2, <2>1, <2>2, DirectForms
<1>7. ASSUME NEW i \in Direct!RowIds, Direct!OpenEdit(i)
      PROVE  Direct!DirectInv'
  <2>1. PICK n : c8' = [open |-> TRUE, editing |-> i, name |-> n, key |-> Nil] /\ c9' = c9 /\ c9 = 0
    BY <1>7 DEF Direct!OpenEdit, Direct!OnPanel
  <2>2. c8' \in [open : BOOLEAN, editing : {c8'.editing}, name : {c8'.name}, key : {c8'.key}]
    BY <2>1
  <2> QED
    BY <1>2, <2>1, <2>2, DirectForms
<1>8. ASSUME NEW i \in Direct!RowIds, Direct!Remove(i)
      PROVE  Direct!DirectInv'
  BY <1>1, <1>2, <1>8, DirectForms DEF Direct!Remove, Direct!OnPanel
<1> QED
  BY <1>3, <1>4, <1>5, <1>6, <1>7, <1>8

LEMMA DirectClicks ==
    ASSUME Direct!DirectInv,
           \/ Direct!Search \/ Direct!Refresh \/ Direct!PrevPage \/ Direct!NextPage \/ Direct!SaveForm
           \/ \E yes \in BOOLEAN : Direct!Confirm(yes)
    PROVE  Direct!DirectInv'
<1>1. ASSUME NEW p, Direct!LoadPage(p)
      PROVE  Direct!DirectInv'
  <2>1. PICK n : n = Direct!Call("load", 0, FALSE, p, c5)
    OBVIOUS
  <2>2. c10' = c10 \cup {n} /\ UNCHANGED <<c1, c2, c7, c8, c9>>
    BY <1>1, <2>1 DEF Direct!LoadPage, Direct!Click
  <2>3. Direct!IsCall(n) /\ n.op = "load" /\ n.hold = FALSE /\ n.state = "sent"
    BY <2>1 DEF Direct!Call, Direct!IsCall
  <2> QED
    BY <2>2, <2>3, DirectAsks
<1>2. CASE Direct!SaveForm
  <2>1. PICK n : n = IF c8.editing = 0 THEN Direct!Call("create", 0, TRUE, 1, c5)
                     ELSE Direct!Call("update", c8.editing, TRUE, c4, c5)
    OBVIOUS
  <2>5. c10' = c10 \cup {n}
    BY <1>2, <2>1 DEF Direct!SaveForm
  <2>2. UNCHANGED <<c1, c2, c8, c9>> /\ ~c7 /\ c7' = TRUE /\ c8.open
    BY <1>2 DEF Direct!SaveForm, Direct!Click
  <2>3. Direct!IsCall(n) /\ n.op # "load" /\ n.hold = TRUE /\ n.state = "sent"
    <3>1. CASE c8.editing = 0
      BY <2>1, <3>1 DEF Direct!Call, Direct!IsCall
    <3>2. CASE c8.editing # 0
      BY <2>1, <3>2 DEF Direct!Call, Direct!IsCall
    <3> QED
      BY <3>1, <3>2
  <2>4. c9' = 0
    BY <2>2 DEF Direct!DirectInv, Direct!HoldInv
  <2> QED
    BY <2>2, <2>3, <2>4, <2>5, DirectAsks
<1>3. ASSUME NEW yes \in BOOLEAN, Direct!Confirm(yes)
      PROVE  Direct!DirectInv'
  <2>1. UNCHANGED <<c1, c2, c8>> /\ c9' = 0 /\ ~c7
    BY <1>3 DEF Direct!Confirm, Direct!DirectInv, Direct!HoldInv
  <2>2. CASE yes
    <3>1. PICK n : n = Direct!Call("delete", c9, TRUE, c4, c5)
      OBVIOUS
    <3>2. c10' = c10 \cup {n} /\ c7' = TRUE
      BY <1>3, <2>2, <3>1 DEF Direct!Confirm
    <3>3. Direct!IsCall(n) /\ n.op = "delete" /\ n.hold = TRUE /\ n.state = "sent"
      BY <3>1 DEF Direct!Call, Direct!IsCall
    <3> QED
      BY <2>1, <3>2, <3>3, DirectAsks
  <2>3. CASE ~yes
    <3>1. UNCHANGED <<c7, c10>>
      BY <1>3, <2>3 DEF Direct!Confirm
    <3> QED
      BY <2>1, <3>1, DirectForms DEF Direct!DirectInv, Direct!HoldInv
  <2> QED
    BY <2>2, <2>3
<1> QED
  BY <1>1, <1>2, <1>3 DEF Direct!Search, Direct!Refresh, Direct!PrevPage, Direct!NextPage

-----------------------------------------------------------------------------
\* A call is followed by another, which holds what it held.
LEMMA DirectMoves ==
    ASSUME Direct!DirectInv, NEW c \in c10, NEW n, c10' = (c10 \ {c}) \cup {n}, UNCHANGED <<c7, c9>>,
           Direct!IsCall(n), n.op # "load" => n.hold, n.hold = c.hold,
           n.state = "read" => n.op = "update" /\ n.row # Direct!NoRow,
           c8' = c8 \/ c8' = [c8 EXCEPT !.open = FALSE], Direct!RowsInv'
    PROVE  Direct!DirectInv'
<1>1. \A d \in c10' : Direct!IsCall(d) /\ (d.op # "load" => d.hold)
  BY DEF Direct!DirectInv, Direct!HoldInv
<1>2. \A d, e \in c10' : d.hold /\ e.hold => d = e
  BY DEF Direct!DirectInv, Direct!HoldInv
<1>3. c7' \in BOOLEAN /\ (c7' <=> \E d \in c10' : d.hold)
  BY DEF Direct!DirectInv, Direct!HoldInv
<1>4. /\ c8' \in [open : BOOLEAN, editing : {c8'.editing}, name : {c8'.name}, key : {c8'.key}]
      /\ c9' # 0 => ~c7' /\ ~c8'.open
  <2>1. /\ c8 \in [open : BOOLEAN, editing : {c8.editing}, name : {c8.name}, key : {c8.key}]
        /\ c9 # 0 => ~c7 /\ ~c8.open
    BY DEF Direct!DirectInv, Direct!HoldInv
  <2>2. CASE c8' = c8
    BY <2>1, <2>2
  <2>3. CASE c8' = [c8 EXCEPT !.open = FALSE]
    <3>1. c8' \in [open : {FALSE}, editing : {c8.editing}, name : {c8.name}, key : {c8.key}]
      BY <2>1, <2>3
    <3> QED
      BY <2>1, <3>1
  <2> QED
    BY <2>2, <2>3
<1>5. Direct!FoundInv'
  BY DEF Direct!DirectInv, Direct!FoundInv
<1> QED
  BY <1>1, <1>2, <1>3, <1>4, <1>5 DEF Direct!DirectInv, Direct!HoldInv, Direct!IsCall

\* The gateway.
LEMMA DirectServes ==
    ASSUME Direct!DirectInv, NEW c \in c10,
           \/ Direct!CreateProvider(c) \/ Direct!FindRow(c) \/ Direct!SaveRow(c)
           \/ Direct!DeleteProvider(c) \/ Direct!ListProviders(c)
    PROVE  Direct!DirectInv'
<1>1. /\ c \in [op : {c.op}, id : {c.id}, name : {c.name}, key : {c.key}, hold : BOOLEAN, page : {c.page},
                q : {c.q}, state : {c.state}, row : {c.row}, items : {c.items}, pages : {c.pages}]
      /\ c.op # "load" => c.hold
  BY DEF Direct!DirectInv, Direct!HoldInv, Direct!IsCall
<1>2. UNCHANGED <<c7, c8, c9>>
  BY DEF Direct!CreateProvider, Direct!FindRow, Direct!SaveRow, Direct!DeleteProvider, Direct!ListProviders,
     Direct!ServerOnly
<1>3. \E n : /\ c10' = (c10 \ {c}) \cup {n}
             /\ Direct!IsCall(n) /\ n.op = c.op /\ n.hold = c.hold
             /\ n.state = "read" => n.op = "update" /\ n.row # Direct!NoRow
  <2>1. ASSUME NEW st \in {"refused", "done"}, NEW n, n = [c EXCEPT !.state = st]
        PROVE  Direct!IsCall(n) /\ n.op = c.op /\ n.hold = c.hold /\ n.state = st
    <3>1. n \in [op : {c.op}, id : {c.id}, name : {c.name}, key : {c.key}, hold : {c.hold}, page : {c.page},
                 q : {c.q}, state : {st}, row : {c.row}, items : {c.items}, pages : {c.pages}]
      BY <1>1, <2>1
    <3> QED
      BY <1>1, <3>1 DEF Direct!IsCall
  <2>2. CASE Direct!CreateProvider(c) \/ Direct!SaveRow(c) \/ Direct!DeleteProvider(c)
    <3>1. Direct!Moves(c, [c EXCEPT !.state = "refused"]) \/ Direct!Moves(c, [c EXCEPT !.state = "done"])
      BY <2>2 DEF Direct!CreateProvider, Direct!SaveRow, Direct!DeleteProvider, Direct!Refuse
    <3>2. PICK st \in {"refused", "done"} : c10' = (c10 \ {c}) \cup {[c EXCEPT !.state = st]}
      BY <3>1 DEF Direct!Moves
    <3>3. PICK n : n = [c EXCEPT !.state = st]
      OBVIOUS
    <3>4. Direct!IsCall(n) /\ n.op = c.op /\ n.hold = c.hold /\ n.state = st
      BY <2>1, <3>3
    <3> QED
      BY <3>2, <3>3, <3>4
  <2>3. CASE Direct!FindRow(c)
    <3>1. CASE Direct!Refuse(c)
      <4>1. PICK st \in {"refused", "done"} : c10' = (c10 \ {c}) \cup {[c EXCEPT !.state = st]}
        BY <3>1 DEF Direct!Refuse, Direct!Moves
      <4>2. PICK n : n = [c EXCEPT !.state = st]
        OBVIOUS
      <4>3. Direct!IsCall(n) /\ n.op = c.op /\ n.hold = c.hold /\ n.state = st
        BY <2>1, <4>2
      <4> QED
        BY <4>1, <4>2, <4>3
    <3>2. CASE ~Direct!Refuse(c)
      <4>1. PICK row : row = c1[c.id]
        OBVIOUS
      <4>2. row # Direct!NoRow /\ c.op = "update" /\ c10' = (c10 \ {c}) \cup {[c EXCEPT !.state = "read", !.row = row]}
        BY <2>3, <3>2, <4>1 DEF Direct!FindRow, Direct!Moves
      <4> DEFINE n == [c EXCEPT !.state = "read", !.row = row]
      <4>3. n \in [op : {c.op}, id : {c.id}, name : {c.name}, key : {c.key}, hold : {c.hold}, page : {c.page},
                   q : {c.q}, state : {"read"}, row : {row}, items : {c.items}, pages : {c.pages}]
        BY <1>1
      <4>4. c10' = (c10 \ {c}) \cup {n}
        BY <4>2
      <4> HIDE DEF n
      <4>5. Direct!IsCall(n) /\ n.op = c.op /\ n.hold = c.hold /\ n.row = row
        BY <1>1, <4>3 DEF Direct!IsCall
      <4> QED
        BY <4>2, <4>4, <4>5
    <3> QED
      BY <3>1, <3>2
  <2>4. CASE Direct!ListProviders(c)
    <3>1. PICK items, pages : items = Direct!OnPage(c.q, c.page) /\ pages = Direct!PagesOf(c.q)
      OBVIOUS
    <3> DEFINE n == [c EXCEPT !.state = "done", !.items = items, !.pages = pages]
    <3>2. n \in [op : {c.op}, id : {c.id}, name : {c.name}, key : {c.key}, hold : {c.hold}, page : {c.page},
                 q : {c.q}, state : {"done"}, row : {c.row}, items : {items}, pages : {pages}]
      BY <1>1
    <3>3. c10' = (c10 \ {c}) \cup {n}
      BY <2>4, <3>1 DEF Direct!ListProviders, Direct!Moves
    <3> HIDE DEF n
    <3>4. Direct!IsCall(n) /\ n.op = c.op /\ n.hold = c.hold /\ n.state = "done"
      BY <1>1, <3>2 DEF Direct!IsCall
    <3> QED
      BY <3>3, <3>4
  <2> QED
    BY <2>2, <2>3, <2>4
<1>7. Direct!RowsInv'
  <2>1. c2 \in 0..Bound.providers /\ DOMAIN c1 = Direct!RowIds /\ Bound.providers \in Nat
    BY PanelsAssumption DEF Direct!DirectInv, Direct!RowsInv, PanelsAssumption
  <2>2. DOMAIN c1' = DOMAIN c1
    BY DEF Direct!CreateProvider, Direct!FindRow, Direct!SaveRow, Direct!DeleteProvider, Direct!ListProviders,
       Direct!Refuse
  <2>3. c2' = c2 \/ (c2 # Bound.providers /\ c2' = c2 + 1)
    BY DEF Direct!CreateProvider, Direct!FindRow, Direct!SaveRow, Direct!DeleteProvider, Direct!ListProviders,
       Direct!Refuse
  <2> QED
    BY <2>1, <2>2, <2>3 DEF Direct!RowsInv, Direct!RowIds
<1> QED
  BY <1>1, <1>2, <1>3, <1>7, DirectMoves

\* A call ends, with what it held.
LEMMA DirectEnds ==
    ASSUME Direct!DirectInv, NEW c \in c10, c10' = c10 \ {c}, c7' = (c7 /\ ~c.hold), UNCHANGED <<c1, c2, c8, c9>>
    PROVE  Direct!DirectInv'
<1>1. c7' <=> \E d \in c10' : d.hold
  BY DEF Direct!DirectInv, Direct!HoldInv
<1> QED
  BY <1>1 DEF Direct!DirectInv, Direct!HoldInv, Direct!FoundInv, Direct!RowsInv, Direct!IsCall

LEMMA DirectAnswers ==
    ASSUME Direct!DirectInv, NEW c \in c10, Direct!Answered(c) PROVE Direct!DirectInv'
<1>1. CASE Direct!LoadAnswered(c)
  BY <1>1, DirectEnds DEF Direct!Answered, Direct!LoadAnswered
<1>2. CASE Direct!WriteAnswered(c)
  <2>1. PICK m : m = Direct!Call("load", 0, TRUE, c.page, c.q)
    OBVIOUS
  <2>2. Direct!IsCall(m) /\ m.op = "load" /\ m.hold = TRUE /\ m.state = "sent"
    BY <2>1 DEF Direct!Call, Direct!IsCall
  <2> DEFINE n == [m EXCEPT !.name = Nil, !.key = Nil]
  <2>3. n \in [op : {"load"}, id : {m.id}, name : {Nil}, key : {Nil}, hold : {TRUE}, page : {m.page},
               q : {m.q}, state : {"sent"}, row : {m.row}, items : {m.items}, pages : {m.pages}]
    BY <2>2 DEF Direct!IsCall
  <2>4. c10' = (c10 \ {c}) \cup {n}
    BY <1>2, <2>1 DEF Direct!WriteAnswered
  <2> HIDE DEF n
  <2>5. Direct!IsCall(n)
    BY <2>3 DEF Direct!IsCall
  <2>6. c.hold = TRUE
    BY <1>2 DEF Direct!WriteAnswered, Direct!DirectInv, Direct!HoldInv, Direct!IsCall
  <2>7. UNCHANGED <<c1, c2, c7, c9>> /\ (c8' = c8 \/ c8' = [c8 EXCEPT !.open = FALSE])
    BY <1>2 DEF Direct!Answered, Direct!WriteAnswered
  <2>8. Direct!RowsInv'
    BY <2>7 DEF Direct!DirectInv, Direct!RowsInv
  <2> QED
    BY <2>3, <2>4, <2>5, <2>6, <2>7, <2>8, DirectMoves
<1> QED
  BY <1>1, <1>2 DEF Direct!Answered

LEMMA DirectStep ==
    ASSUME Direct!DirectInv, Direct!Next PROVE Direct!DirectInv'
<1>1. CASE Direct!OtherDelete
  BY <1>1 DEF Direct!OtherDelete, Direct!DirectInv, Direct!HoldInv, Direct!FoundInv, Direct!RowsInv, Direct!IsCall
<1>2. ASSUME NEW c \in c10, Direct!Failed(c)
      PROVE  Direct!DirectInv'
  BY <1>2, DirectEnds DEF Direct!Failed
<1> QED
  BY <1>1, <1>2, DirectEdits, DirectClicks, DirectServes, DirectAnswers DEF Direct!Next

\* A row that was not there comes from an update that had found it.
LEMMA DirectReviveStep ==
    ASSUME Direct!DirectInv, Direct!Next PROVE Direct!ReviveStep
<1> SUFFICES ASSUME NEW i \in 1..c2, c1[i] = Direct!NoRow, c1'[i] # Direct!NoRow
             PROVE  \E c \in c10 : c.op = "update" /\ c.id = i /\ c.state = "read" /\ c.row # Direct!NoRow
  BY DEF Direct!ReviveStep
<1>1. c2 \in 0..Bound.providers /\ i \in DOMAIN c1 /\ i # c2 + 1
  BY PanelsAssumption DEF Direct!DirectInv, Direct!RowsInv, PanelsAssumption, Direct!RowIds
<1>2. CASE c1' = c1
  BY <1>2
<1>3. CASE Direct!OtherDelete
  <2>1. PICK j : c1' = [c1 EXCEPT ![j] = Direct!NoRow]
    BY <1>3 DEF Direct!OtherDelete
  <2> QED
    BY <1>1, <2>1
<1>4. ASSUME NEW c \in c10, Direct!CreateProvider(c)
      PROVE  c1' = c1
  <2>1. CASE Direct!Refuse(c)
    BY <2>1 DEF Direct!Refuse
  <2>2. CASE ~Direct!Refuse(c)
    <3>1. PICK v : c1' = [c1 EXCEPT ![c2 + 1] = v]
      BY <1>4, <2>2 DEF Direct!CreateProvider
    <3> QED
      BY <1>1, <3>1
  <2> QED
    BY <2>1, <2>2
<1>5. ASSUME NEW c \in c10, Direct!DeleteProvider(c)
      PROVE  FALSE
  <2>1. c1' = [c1 EXCEPT ![c.id] = Direct!NoRow]
    BY <1>5 DEF Direct!DeleteProvider
  <2> QED
    BY <1>1, <2>1
<1>6. ASSUME NEW c \in c10, Direct!SaveRow(c)
      PROVE  c.op = "update" /\ c.id = i /\ c.state = "read" /\ c.row # Direct!NoRow
  <2>1. CASE Direct!Refuse(c)
    BY <2>1 DEF Direct!Refuse
  <2>2. CASE ~Direct!Refuse(c)
    <3>1. PICK v : c1' = [c1 EXCEPT ![c.id] = v] /\ c.op = "update" /\ c.state = "read"
      BY <1>6, <2>2 DEF Direct!SaveRow
    <3>2. c.id = i
      BY <1>1, <3>1
    <3> QED
      BY <3>1, <3>2 DEF Direct!DirectInv, Direct!FoundInv
  <2> QED
    BY <2>1, <2>2
<1>7. ASSUME NEW c \in c10, Direct!FindRow(c) \/ Direct!ListProviders(c) \/ Direct!Answered(c) \/ Direct!Failed(c)
      PROVE  c1' = c1
  BY <1>7 DEF Direct!FindRow, Direct!Refuse, Direct!ListProviders, Direct!Answered, Direct!Failed
<1>8. CASE \/ Direct!TypeQuery \/ Direct!Search \/ Direct!Refresh \/ Direct!PrevPage \/ Direct!NextPage
           \/ Direct!OpenCreate \/ Direct!EditForm \/ Direct!CloseForm \/ Direct!SaveForm
           \/ (\E j \in Direct!RowIds : Direct!OpenEdit(j) \/ Direct!Remove(j))
           \/ \E yes \in BOOLEAN : Direct!Confirm(yes)
  <2>1. c1' = c1
    BY <1>8 DEF Direct!TypeQuery, Direct!Search, Direct!Refresh, Direct!PrevPage, Direct!NextPage, Direct!LoadPage,
       Direct!OpenCreate, Direct!EditForm, Direct!CloseForm, Direct!SaveForm, Direct!OpenEdit, Direct!Remove,
       Direct!Confirm, Direct!Click
  <2> QED
    BY <2>1
<1> QED
  BY <1>2, <1>3, <1>4, <1>5, <1>6, <1>7, <1>8 DEF Direct!Next

\* One that holds is a single one.
LEMMA DirectBusyIsExact == Direct!DirectInv => Direct!BusyIsExact
<1> SUFFICES ASSUME Direct!DirectInv PROVE Direct!BusyIsExact
  OBVIOUS
<1>0. PICK held : held = {c \in c10 : c.hold}
  OBVIOUS
<1>1. held = {} \/ \E c : held = {c}
  BY <1>0 DEF Direct!DirectInv, Direct!HoldInv
<1>2. c7 <=> held # {}
  BY <1>0 DEF Direct!DirectInv, Direct!HoldInv
<1>3. Direct!Cardinality(held) = Cardinality(held)
  BY DEF Direct!Cardinality, Cardinality
<1>4. Cardinality(held) = 0 \/ Cardinality(held) = 1
  BY <1>1, FS_EmptySet, FS_Singleton
<1> QED
  BY <1>0, <1>2, <1>3, <1>4 DEF Direct!BusyIsExact

-----------------------------------------------------------------------------
(* The parts together *)

\* Each part has its own invariant, and the parts share no state.
PartInv ==
    /\ part = "prices" => Table!TableInv
    /\ part = "models" => List!ListInv
    /\ part = "test" => Test!TestInv
    /\ part = "rules" => Rules!RulesInv
    /\ part = "order" => Order!OrderInv
    /\ part = "usage" => Usage!UsageInv
    /\ part = "providers" => Direct!DirectInv

LEMMA PartsStart == MCInit => PartInv
BY TableStarts, ListStarts, TestStarts, RulesStart, OrderStarts, UsageStarts, DirectStarts DEF MCInit, PartInv

LEMMA PartsStep ==
    ASSUME PartInv, MCNext PROVE PartInv'
<1>1. part' = part
  BY DEF MCNext
<1>2. CASE part = "prices"
  BY <1>1, <1>2, TableStep DEF MCNext, PartInv
<1>3. CASE part = "models"
  BY <1>1, <1>3, ListStep DEF MCNext, PartInv
<1>4. CASE part = "test"
  BY <1>1, <1>4, TestStep DEF MCNext, PartInv
<1>5. CASE part = "rules"
  BY <1>1, <1>5, RulesStep DEF MCNext, PartInv
<1>6. CASE part = "order"
  BY <1>1, <1>6, OrderStep DEF MCNext, PartInv
<1>7. CASE part = "usage"
  BY <1>1, <1>7, UsageStep DEF MCNext, PartInv
<1>8. CASE part = "providers"
  BY <1>1, <1>8, DirectStep DEF MCNext, PartInv
<1> QED
  BY <1>1, <1>2, <1>3, <1>4, <1>5, <1>6, <1>7, <1>8 DEF PartInv

LEMMA PartsRest ==
    ASSUME PartInv, UNCHANGED allVars PROVE PartInv'
<1>1. UNCHANGED <<part, c1, c2, c3, c4, c5, c6, c7, c8, c9, c10, c11>>
  BY DEF allVars
<1>2. CASE part = "prices"
  BY <1>1, <1>2 DEF PartInv, Table!TableInv, Table!IdInv, Table!Known, Table!Knows, Table!IsCall, Table!ShownInv,
     Table!Coming, Table!Current, Table!SearchInv, Table!DefaultsAnswerSearch, Table!FormTypes
<1>3. CASE part = "models"
  BY <1>1, <1>3 DEF PartInv, List!ListInv, List!IsCall, List!Holds
<1>4. CASE part = "test"
  BY <1>1, <1>4 DEF PartInv, Test!TestInv, Test!FlagNamesATest, Test!DialogShowsItsModel
<1>5. CASE part = "rules"
  BY <1>1, <1>5 DEF PartInv, Rules!RulesInv, Rules!RuleTypes, Rules!AllNamed, Rules!Named, Rules!IsCall,
     Rules!Read, Rules!NoWider
<1>6. CASE part = "order"
  BY <1>1, <1>6, OrderListKept DEF PartInv, Order!OrderInv, Order!Undisturbed, Order!IsCall
<1>7. CASE part = "usage"
  BY <1>1, <1>7 DEF PartInv, Usage!UsageInv, Usage!IsReq, Usage!SpinnerIsExact, Usage!TableAnswersLastQuery
<1>8. CASE part = "providers"
  BY <1>1, <1>8 DEF PartInv, Direct!DirectInv, Direct!HoldInv, Direct!FoundInv, Direct!RowsInv, Direct!IsCall
<1> QED
  BY <1>1, <1>2, <1>3, <1>4, <1>5, <1>6, <1>7, <1>8 DEF PartInv

LEMMA PartsKept == MCSpec => []PartInv
<1>1. PartInv /\ [MCNext]_allVars => PartInv'
  BY PartsStep, PartsRest
<1> QED
  BY PartsStart, <1>1, PTL DEF MCSpec

\* No order of clicks, answers and failures leaves a panel locked for nothing, and none
\* lets a second write of a model list or of the direct providers begin: their busy and
\* the spinner of the usage records are on exactly while what they stand for is under way,
\* and the flag of a model test names a test that is.
THEOREM PanelFlagsAreExact == MCSpec => []FlagsAreExact
<1>1. PartInv => FlagsAreExact
  BY ListBusyIsExact, DirectBusyIsExact DEF PartInv, FlagsAreExact, Test!TestInv, Usage!UsageInv
<1> QED
  BY PartsKept, <1>1, PTL

\* A panel at rest of whose answers none was lost or overtaken shows what the server has:
\* the price overrides, the defaults that were searched for, the order of the groups, and
\* the usage that was asked for last.
THEOREM SettledPanelsShowTheServer == MCSpec => []SettledPanelIsServers
<1>1. Table!TableInv => Table!SettledTableIsServers /\ Table!DefaultsAnswerSearch
  BY DEF Table!TableInv, Table!ShownInv, Table!SettledTableIsServers
<1>2. Order!OrderInv => Order!SettledOrderIsServers
  BY DEF Order!OrderInv, Order!SettledOrderIsServers
<1>3. PartInv => SettledPanelIsServers
  BY <1>1, <1>2 DEF PartInv, SettledPanelIsServers, Usage!UsageInv
<1> QED
  BY PartsKept, <1>3, PTL

\* The test dialog never shows the results of another model than the one it is open for,
\* however late an answer comes in and whatever was opened since (of PanelTellsTruth).
THEOREM TestDialogShowsItsModel == MCSpec => [](part = "test" => Test!DialogShowsItsModel)
<1>1. PartInv => (part = "test" => Test!DialogShowsItsModel)
  BY DEF PartInv, Test!TestInv
<1> QED
  BY PartsKept, <1>1, PTL

LEMMA PanelsStep ==
    ASSUME PartInv, [MCNext]_allVars PROVE PanelStep
<1>1. CASE UNCHANGED allVars
  <2>1. UNCHANGED <<part, c1, c2, c3, c4, c5, c6, c7, c8, c9, c10, c11>>
    BY <1>1 DEF allVars
  <2>2. Table!DeleteStep /\ List!SyncStep /\ List!StoredStep
    BY <2>1 DEF Table!DeleteStep, Table!Exists, List!SyncStep, List!StoredStep
  <2>3. Rules!WidenStep /\ Rules!DanglingStep
    BY <2>1 DEF Rules!WidenStep, Rules!Applies, Rules!DanglingStep
  <2>4. Usage!PartStep /\ Log!StaleCountStep
    BY <2>1 DEF Usage!PartStep, Log!StaleCountStep
  <2>5. Direct!ReviveStep
    BY <2>1 DEF Direct!ReviveStep
  <2> QED
    BY <2>2, <2>3, <2>4, <2>5 DEF PanelStep
<1>2. CASE MCNext
  <2>1. part = "prices" => Table!DeleteStep
    BY <1>2, TableDeleteStep DEF MCNext, PartInv
  <2>2. part = "models" => List!SyncStep /\ List!StoredStep
    BY <1>2, ListSyncStep, ListStoredStep DEF MCNext, PartInv
  <2>3. part = "rules" => Rules!WidenStep /\ Rules!DanglingStep
    BY <1>2, RulesWidenStep, RulesDanglingStep DEF MCNext, PartInv
  <2>4. part = "usage" => Usage!PartStep
    BY <1>2, UsagePartStep DEF MCNext, PartInv
  <2>5. part = "log" => Log!StaleCountStep
    BY <1>2, LogStep DEF MCNext, PartInv
  <2>6. part = "providers" => Direct!ReviveStep
    BY <1>2, DirectReviveStep DEF MCNext, PartInv
  <2> QED
    BY <2>1, <2>2, <2>3, <2>4, <2>5, <2>6 DEF PanelStep
<1> QED
  BY <1>1, <1>2

\* A write does what its user asked for and nothing beside it, whatever it overlaps with:
\* a deletion removes the override that was named, a synchronisation keeps the custom
\* models of its click, a rule widens only by its own save, and a deleted provider comes
\* back only by an update that had read it; filters and counts part from what is shown
\* only for a named reason.
THEOREM WritesDoAsAsked == MCSpec => WritesAsAsked
<1>1. PartInv /\ [MCNext]_allVars => [PanelStep]_allVars
  BY PanelsStep
<1> QED
  BY PartsKept, <1>1, PTL DEF MCSpec, WritesAsAsked
=============================================================================
