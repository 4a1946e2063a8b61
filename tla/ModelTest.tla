------------------------------ MODULE ModelTest ------------------------------
(***************************************************************************)
(* Testing the models of a gateway group from the console: from the tags   *)
(* of the model list or from the test dialog, all routes of a model or one *)
(* of them.  A test is a request of up to half a minute; meanwhile the     *)
(* dialog may be closed and opened for another model, and another group    *)
(* selected.                                                               *)
(*                                                                         *)
(* A result is the group it was measured in; All stands for a test of all  *)
(* routes.  Groups that have a model of the same id share the result map.  *)
(***************************************************************************)
EXTENDS Naturals, FiniteSets

CONSTANTS
    Groups, Models, Routes,  \* any route may be one of any group here
    All, Nothing,
    MaxTests, MaxClicks

VARIABLES
    group,       \* the selected group
    results,     \* modelTestResults: model -> route -> group
    testing,     \* modelTesting: the model and route of the flag
    open, target,
    shown,       \* modelTestDialogResults, and the model they are of
    tests,       \* requests under way
    clicks

vars == <<group, results, testing, open, target, shown, tests, clicks>>

NoResults == [r \in Routes |-> Nothing]
NoFlag == [model |-> Nothing, route |-> Nothing]
NoneShown == [model |-> Nothing, of |-> NoResults]

TypeOK ==
    /\ group \in Groups
    /\ results \in [Models -> [Routes -> Groups \cup {Nothing}]]
    /\ testing \in [model : Models \cup {Nothing}, route : Routes \cup {All, Nothing}]
    /\ open \in BOOLEAN /\ target \in Models \cup {Nothing}
    /\ shown \in [model : Models \cup {Nothing}, of : [Routes -> Groups \cup {Nothing}]]
    /\ tests \subseteq [group : Groups, model : Models, route : Routes \cup {All}]
    /\ clicks \in 0..MaxClicks

Init ==
    /\ group \in Groups
    /\ results = [m \in Models |-> NoResults]
    /\ testing = NoFlag /\ open = FALSE /\ target = Nothing /\ shown = NoneShown
    /\ tests = {} /\ clicks = 0

-----------------------------------------------------------------------------

Click == clicks < MaxClicks /\ clicks' = clicks + 1

OpenModelTest(m) ==
    /\ Click /\ ~open
    /\ open' = TRUE /\ target' = m
    /\ shown' = [model |-> m, of |-> results[m]]
    /\ UNCHANGED <<group, results, testing, tests>>

\* By Escape also during a test: the flag is taken down with the dialog.
CloseDialog ==
    /\ open /\ open' = FALSE /\ target' = Nothing /\ testing' = NoFlag
    /\ UNCHANGED <<group, results, shown, tests, clicks>>

\* From the dialog, or from a tag of the list when the dialog is closed.
RunModelTestFor(m, r) ==
    /\ Click /\ testing = NoFlag
    /\ IF open THEN m = target ELSE r # All
    /\ Cardinality(tests) < MaxTests
    /\ testing' = [model |-> m, route |-> r]
    /\ tests' = tests \cup {[group |-> group, model |-> m, route |-> r]}
    /\ UNCHANGED <<group, results, open, target, shown>>

\* Another group is selected (the dialog is closed then), or the page refreshed:
\* reloadGroupDetail and clearing.
SelectGroup(g) ==
    /\ Click /\ ~open
    /\ group' = g
    /\ results' = [m \in Models |-> NoResults]
    /\ testing' = NoFlag /\ open' = FALSE /\ target' = Nothing /\ shown' = NoneShown
    /\ UNCHANGED tests

-----------------------------------------------------------------------------
(* Answers *)

\* The routes that answer, a subset of those asked, and where their results go.
Measured(t, old, some) == [r \in Routes |-> IF r \in some THEN t.group ELSE IF t.route = All THEN Nothing ELSE old[r]]

\* Variant: whatever the dialog shows by now.
DialogAfter_Unchecked(t, some) ==
    IF open THEN [shown EXCEPT !.model = t.model, !.of = Measured(t, shown.of, some)] ELSE shown

\* Only if the dialog is (again) open for the model of the test.
DialogAfter(t, some) ==
    IF open /\ target = t.model
    THEN [shown EXCEPT !.model = t.model, !.of = Measured(t, shown.of, some)] ELSE shown

\* No look at the group that is selected by now, nor at whose the flag is.
TestAnswered(t) ==
    /\ t \in tests /\ tests' = tests \ {t}
    /\ \E some \in SUBSET (IF t.route = All THEN Routes ELSE {t.route}) :
          /\ results' = [results EXCEPT ![t.model] = Measured(t, @, some)]
          /\ shown' = DialogAfter(t, some)
    /\ testing' = NoFlag
    /\ UNCHANGED <<group, open, target, clicks>>

\* Variant: the flag is taken down by answers only.
TestFailed_KeepsFlag(t) ==
    /\ t \in tests /\ tests' = tests \ {t}
    /\ UNCHANGED <<group, results, testing, open, target, shown, clicks>>

TestFailed(t) ==
    /\ t \in tests /\ tests' = tests \ {t}
    /\ testing' = NoFlag
    /\ UNCHANGED <<group, results, open, target, shown, clicks>>

Next ==
    \/ CloseDialog
    \/ \E m \in Models : OpenModelTest(m) \/ \E r \in Routes \cup {All} : RunModelTestFor(m, r)
    \/ \E g \in Groups : SelectGroup(g)
    \/ \E t \in tests : TestAnswered(t) \/ TestFailed(t)

Spec == Init /\ [][Next]_vars

-----------------------------------------------------------------------------
(* Properties *)

\* The dialog never shows the results of another model than the one it is open
\* for, however late an answer comes in and whatever was opened since.
DialogShowsItsModel == open => shown.model = target

\* The buttons are locked for a reason: the test that the flag names is under
\* way, so its end will unlock them (not always the other way round: after
\* Escape a second test may run, and the end of the first takes its flag down).
FlagNamesATest ==
    testing # NoFlag => \E t \in tests : t.model = testing.model /\ t.route = testing.route

-----------------------------------------------------------------------------
\* What carries them from step to step.
TestInv ==
    /\ FlagNamesATest /\ DialogShowsItsModel
    /\ shown \in [model : {shown.model}, of : {shown.of}]
=============================================================================
