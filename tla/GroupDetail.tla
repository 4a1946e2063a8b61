------------------------------ MODULE GroupDetail ------------------------------
(***************************************************************************)
(* The gateway page of the console (components/gateway/gateway-page.tsx):  *)
(* a list of groups, the selected one and the panels that show and edit    *)
(* what belongs to it.  Every handler is a chain of requests; answers      *)
(* arrive in any order, a request may fail, and the user goes on clicking. *)
(*                                                                         *)
(* Selecting a group asks for its keys and routes under a new number       *)
(* (loadSeqRef).  Only "is it the latest" is ever asked of that number, so *)
(* a load is cur, stale, or free: asked for without a number.              *)
(*                                                                         *)
(* Abstractions: of the data of a panel the group it came from is kept;    *)
(* equal requests under way at the same time count once; toasts, dialogs   *)
(* and form fields are left out, the buttons a flag disables are not.      *)
(* Reorders are in GroupOrder, model tests in ModelTest, the usage records *)
(* in UsageBrowser and the prices in PriceTable.                           *)
(***************************************************************************)
EXTENDS Naturals, FiniteSets

CONSTANTS
    Groups,       \* ids of gateway groups
    Nothing,      \* no group, an empty panel
    MaxRequests,  \* bound of the handlers under way
    MaxClicks     \* bound of what the user does

DetailAssumption == Nothing \notin Groups /\ {MaxRequests, MaxClicks} \subseteq Nat

VARIABLES
    server,       \* what became of each id in the database
    listed,       \* groups: the list as last loaded
    selected,     \* selectedGroupID
    link,         \* ?group= in the address, which a dispatch panel linked to
    panel,        \* the group whose data each panel holds
    unloaded,     \* the latest load of the routes failed (and said so)
    groupLoading, \* the veil over the panels
    busy,         \* disables most buttons
    loading,      \* disables the refresh button
    calls,        \* requests under way
    clicks        \* what the user did so far

vars == <<server, listed, selected, link, panel, unloaded, groupLoading, busy,
          loading, calls, clicks>>

Panels == {"keys", "routes", "models", "prompt"}

\* Requests of handlers that hold busy until they end.
BusyOps == {"createGroup", "editGroup", "saveConfig", "configRoutes", "savePrompt", "submitKey",
            "saveRoutes", "ensureKeys", "syncModels"}
FreeOps == {"deleteGroup", "toggleKey", "clearPause", "applyCatalog", "refreshAll",
            "groups", "keys", "routes"}

\* of: the group asked about; holds: does the handler hold busy; was: the
\* selection that refreshAll has seen; seen: the groups a list has.
Call == [op : BusyOps \cup FreeOps, of : Groups \cup {Nothing},
         tag : {"cur", "stale", "free"}, holds : BOOLEAN, was : Groups \cup {Nothing},
         served : BOOLEAN, seen : SUBSET Groups]

TypeOK ==
    /\ server \in [Groups -> {"unborn", "alive", "deleted"}]
    /\ listed \subseteq Groups
    /\ selected \in Groups \cup {Nothing} /\ link \in Groups \cup {Nothing}
    /\ panel \in [Panels -> Groups \cup {Nothing}]
    /\ unloaded \in BOOLEAN /\ groupLoading \in BOOLEAN
    /\ busy \in BOOLEAN /\ loading \in BOOLEAN
    /\ calls \subseteq Call
    /\ clicks \in 0..MaxClicks

Alive == {g \in Groups : server[g] = "alive"}
Shown(s, L) == IF s \in L THEN s ELSE Nothing
Current == Shown(selected, listed)      \* selectedGroup

NewCall(op, g, tag) == [op |-> op, of |-> g, tag |-> tag, holds |-> op \in BusyOps,
                        was |-> IF op = "refreshAll" THEN selected ELSE Nothing,
                        served |-> FALSE, seen |-> {}]

Empty == [p \in Panels |-> Nothing]

\* The page is mounted and asks for the list.
Init ==
    /\ \E some \in SUBSET Groups :
          server = [g \in Groups |-> IF g \in some THEN "alive" ELSE "unborn"]
    /\ listed = {} /\ selected = Nothing
    /\ link \in Alive \cup {Nothing}
    /\ panel = Empty /\ unloaded = FALSE
    /\ groupLoading = FALSE /\ busy = FALSE /\ loading = TRUE
    /\ calls = {NewCall("groups", Nothing, "free")}
    /\ clicks = 0

-----------------------------------------------------------------------------
(* What follows a change of the selection *)

Outdated(cs) == {IF c.tag = "cur" THEN [c EXCEPT !.tag = "stale"] ELSE c : c \in cs}

\* Config and prompt are at hand with the group; keys and routes are asked for.
ReloadGroupDetail(g, cs) ==
    /\ panel' = [Empty EXCEPT !["models"] = g, !["prompt"] = g]
    /\ unloaded' = FALSE
    /\ groupLoading' = TRUE
    /\ calls' = Outdated(cs) \cup {NewCall("keys", g, "cur"), NewCall("routes", g, "cur")}

\* Variant: the veil is left as it was.
ClearDetail_KeepsVeil(cs) ==
    /\ panel' = Empty
    /\ unloaded' = FALSE
    /\ groupLoading' = groupLoading
    /\ calls' = Outdated(cs)

ClearDetail(cs) ==
    /\ panel' = Empty
    /\ unloaded' = FALSE
    /\ groupLoading' = FALSE
    /\ calls' = Outdated(cs)

ShowDetail(g, cs) == IF g = Nothing THEN ClearDetail(cs) ELSE ReloadGroupDetail(g, cs)

\* The renders and effects after the list became L and the selection s: a group
\* of the address takes the selection back, and another selected group is
\* loaded.  (What the effects ask for between two selections is stale at once
\* and left out.)  reload: asked for even if the group is the same.
Render(s, L, cs, reload) ==
    LET t == IF link \in L THEN link ELSE s IN
    /\ listed' = L
    /\ selected' = t
    /\ IF ~reload /\ s = t /\ Shown(t, L) = Current
       THEN calls' = cs /\ UNCHANGED <<panel, unloaded, groupLoading>>
       ELSE ShowDetail(Shown(t, L), cs)

\* selectedGroupID after the list arrived: kept, or the first of the list,
\* whichever that is.
Selections(prev, L) == IF prev \in L THEN {prev} ELSE IF L = {} THEN {Nothing} ELSE L

-----------------------------------------------------------------------------
(* The user *)

Click ==
    /\ clicks < MaxClicks
    /\ clicks' = clicks + 1
    /\ UNCHANGED <<server, link>>

\* The sidebar's items are never disabled.
Select(g) ==
    /\ Click
    /\ g \in listed /\ g # selected
    /\ Render(g, listed, calls, FALSE)
    /\ UNCHANGED <<busy, loading>>

\* Start one request about group g.
Start(op, g) ==
    /\ Click
    /\ Cardinality(calls) < MaxRequests
    /\ calls' = calls \cup {NewCall(op, g, "free")}
    /\ busy' = (busy \/ op \in BusyOps)
    /\ UNCHANGED <<listed, selected, panel, unloaded, groupLoading>>

\* The veil lets no click through to the panels.
OnPanels == Current # Nothing /\ ~groupLoading

SubmitGroupForm(g) ==
    /\ ~busy
    /\ \/ g \in listed /\ Start("editGroup", g)
       \/ g = Nothing /\ Start("createGroup", g)
    /\ UNCHANGED loading

DeleteGroup(g) == g \in listed /\ Start("deleteGroup", g) /\ UNCHANGED loading

RefreshAll == ~loading /\ Start("refreshAll", Nothing) /\ loading' = TRUE

RefreshKeys == OnPanels /\ ~busy /\ Start("keys", Current) /\ UNCHANGED loading
SubmitKeyForm == OnPanels /\ ~busy /\ Start("submitKey", Current) /\ UNCHANGED loading

\* The switch and the bin of a row of the keys, which busy does not disable.
ToggleOrDeleteKey ==
    /\ OnPanels /\ panel["keys"] # Nothing
    /\ Start("toggleKey", Current) /\ UNCHANGED loading

SaveGroupConfig == OnPanels /\ ~busy /\ Start("saveConfig", Current) /\ UNCHANGED loading
SavePromptInjection == OnPanels /\ ~busy /\ Start("savePrompt", Current) /\ UNCHANGED loading

SaveRoutes == OnPanels /\ ~busy /\ Start("saveRoutes", Current) /\ UNCHANGED loading
EnsureKeys == OnPanels /\ ~busy /\ Start("ensureKeys", Current) /\ UNCHANGED loading

ClearRoutePause ==
    /\ OnPanels /\ panel["routes"] # Nothing
    /\ Start("clearPause", Current) /\ UNCHANGED loading


\* Variant: the button is not disabled.
SyncModels_AnyTime == OnPanels /\ Start("syncModels", Current) /\ UNCHANGED loading
SyncModels == OnPanels /\ ~busy /\ Start("syncModels", Current) /\ UNCHANGED loading

\* The catalog dialog was opened when the page was not busy.
ApplyCatalog ==
    /\ OnPanels /\ \A c \in calls : c.op # "applyCatalog"
    /\ Start("applyCatalog", Current) /\ UNCHANGED loading

Clicks ==
    \/ \E g \in Groups : Select(g) \/ DeleteGroup(g)
    \/ \E g \in Groups \cup {Nothing} : SubmitGroupForm(g)
    \/ RefreshAll \/ RefreshKeys \/ SubmitKeyForm \/ ToggleOrDeleteKey
    \/ SaveGroupConfig \/ SavePromptInjection \/ SaveRoutes \/ EnsureKeys
    \/ ClearRoutePause \/ SyncModels \/ ApplyCatalog

-----------------------------------------------------------------------------
(* The server *)

\* Of the group in question and, for a list, of all; g: the group created.
Reply(c, g, s) ==
    /\ calls' = (calls \ {c}) \cup
         {[c EXCEPT !.served = TRUE, !.of = g,
                    !.seen = IF c.op \in {"groups", "refreshAll"} THEN Alive ELSE {}]}
    /\ server' = s

\* Only the list of groups changes here; what else a request writes is seen
\* again in its own answer.
Serve(c) ==
    /\ c \in calls /\ ~c.served
    /\ CASE c.op = "createGroup" ->
              \E g \in Groups : server[g] = "unborn" /\ Reply(c, g, [server EXCEPT ![g] = "alive"])
         [] c.op = "deleteGroup" ->
              server[c.of] = "alive" /\ Reply(c, c.of, [server EXCEPT ![c.of] = "deleted"])
         [] OTHER -> c.of \in Alive \cup {Nothing} /\ Reply(c, c.of, server)
    /\ UNCHANGED <<listed, selected, link, panel, unloaded, groupLoading, busy, loading, clicks>>

-----------------------------------------------------------------------------
(* Answers *)

\* The handler of c goes on with a request of op for the same group, or ends.
Then(c, op) == (calls \ {c}) \cup {[NewCall(op, IF op = "groups" THEN Nothing ELSE c.of, "free") EXCEPT !.holds = c.holds]}
Done(c) == calls \ {c}

\* Promise.all of the two loads, then the check of the number.
AllLoaded(c) == \A d \in calls \ {c} : d.tag # "cur"

\* Variant: the veil lifts with the first of them.
VeilAfter_First(c) == IF c.tag = "cur" THEN FALSE ELSE groupLoading

VeilAfter(c) == IF c.tag = "cur" /\ AllLoaded(c) THEN FALSE ELSE groupLoading

\* Variant: no check of the number before the data is taken.
LoadAnswered_Unchecked(c) ==
    /\ c.op \in {"keys", "routes"}
    /\ panel' = [panel EXCEPT ![c.op] = c.of]
    /\ groupLoading' = VeilAfter(c)
    /\ calls' = Done(c)
    /\ busy' = (busy /\ ~c.holds)
    /\ UNCHANGED <<listed, selected, unloaded, loading>>

\* loadKeys and loadRoutes, with or without a number.
LoadAnswered(c) ==
    /\ c.op \in {"keys", "routes"}
    /\ panel' = IF c.tag = "stale" THEN panel ELSE [panel EXCEPT ![c.op] = c.of]
    /\ groupLoading' = VeilAfter(c)
    /\ calls' = Done(c)
    /\ busy' = (busy /\ ~c.holds)
    /\ UNCHANGED <<listed, selected, unloaded, loading>>

\* loadGroups.
GroupsAnswered(c) ==
    /\ c.op = "groups"
    /\ \E s \in Selections(selected, c.seen) : Render(s, c.seen, Done(c), FALSE)
    /\ busy' = (busy /\ ~c.holds)
    /\ loading' = FALSE

\* refreshAll falls back to the selection of the click and loads it in any case.
RefreshAnswered(c) ==
    /\ c.op = "refreshAll"
    /\ \E s \in Selections(c.was, c.seen) : Render(s, c.seen, Done(c), TRUE)
    /\ loading' = FALSE
    /\ UNCHANGED busy

\* A new group is selected before the list has it.
GroupSubmitted(c) ==
    /\ c.op \in {"createGroup", "editGroup"}
    /\ Render(IF c.op = "createGroup" THEN c.of ELSE selected, listed, Then(c, "groups"), FALSE)
    /\ loading' = TRUE
    /\ UNCHANGED busy

\* Handlers whose request is followed by another one.
Chained(c) ==
    /\ \/ c.op = "deleteGroup" /\ calls' = Then(c, "groups") /\ loading' = TRUE
       \/ c.op = "saveConfig" /\ calls' = Then(c, "configRoutes") /\ UNCHANGED loading
       \/ c.op \in {"submitKey", "toggleKey"} /\ calls' = Then(c, "keys") /\ UNCHANGED loading
       \/ c.op = "clearPause" /\ calls' = Then(c, "routes") /\ UNCHANGED loading
    /\ UNCHANGED <<listed, selected, panel, unloaded, groupLoading, busy>>

PanelOf(op) ==
    CASE op \in {"configRoutes", "saveRoutes", "ensureKeys"} -> "routes"
      [] op \in {"syncModels", "applyCatalog"} -> "models"
      [] op = "savePrompt" -> "prompt"

\* Handlers that put their answer into a panel, whatever is selected by now.
Written(c) ==
    /\ c.op \in {"configRoutes", "saveRoutes", "ensureKeys", "syncModels", "applyCatalog", "savePrompt"}
    /\ panel' = [panel EXCEPT ![PanelOf(c.op)] = c.of]
    /\ IF c.op \in {"configRoutes", "syncModels"}
       THEN calls' = Then(c, "groups") /\ loading' = TRUE /\ UNCHANGED busy
       ELSE calls' = Done(c) /\ busy' = (busy /\ ~c.holds) /\ UNCHANGED loading
    /\ UNCHANGED <<listed, selected, unloaded, groupLoading>>

Answered(c) ==
    /\ c \in calls /\ c.served
    /\ \/ LoadAnswered(c) \/ GroupsAnswered(c) \/ RefreshAnswered(c)
       \/ GroupSubmitted(c) \/ Chained(c) \/ Written(c)
    /\ UNCHANGED <<server, link, clicks>>

\* Variant: busy is only given back by handlers that succeed.
Failed_KeepsBusy(c) ==
    /\ c \in calls
    /\ calls' = Done(c)
    /\ groupLoading' = VeilAfter(c)
    /\ unloaded' = (unloaded \/ (c.op = "routes" /\ c.tag = "cur"))
    /\ loading' = (loading /\ c.op \notin {"groups", "refreshAll"})
    /\ UNCHANGED <<server, listed, selected, link, panel, busy, clicks>>

\* A request fails, on its way there or back: a toast, and the handler ends.
Failed(c) ==
    /\ c \in calls
    /\ calls' = Done(c)
    /\ groupLoading' = VeilAfter(c)
    /\ unloaded' = (unloaded \/ (c.op = "routes" /\ c.tag = "cur"))
    /\ loading' = (loading /\ c.op \notin {"groups", "refreshAll"})
    /\ busy' = (busy /\ ~c.holds)
    /\ UNCHANGED <<server, listed, selected, link, panel, clicks>>

Arrivals == \E c \in calls : Serve(c) \/ Answered(c) \/ Failed(c)

Next == Clicks \/ Arrivals

\* A request is answered or fails in the end.
Spec == Init /\ [][Next]_vars /\ WF_vars(Arrivals)

(***************************************************************************)
(* Properties.                                                             *)
(***************************************************************************)

\* loadSeqRef does its work: a panel starts to show a group other than the
\* selected one only through the answer of a handler that has no number.
ForeignPanel(p) == panel[p] \notin {Nothing, Current}
CoverStep ==
    \A p \in Panels : (~ForeignPanel(p) /\ ForeignPanel(p)') =>
        \E c \in calls \ calls' : c.tag = "free" /\ c.of = panel'[p] /\ c.of # Current
CoverNeedsUnnumbered == [][CoverStep]_vars

\* What the comment at loadSeqRef says of the panels: data of an old group
\* never covers the new one.  Not so.
OldGroupNeverCoversNew == \A p \in Panels : ~ForeignPanel(p)

\* The routes can be saved from an empty form, which deletes them, only after
\* the message that they could not be loaded.
EmptyFormWasReported ==
    (OnPanels /\ panel["routes"] = Nothing) => unloaded

\* One handler at a time holds busy, so that no other handler's end unlocks the
\* buttons: busy is on exactly as long as a handler that holds it is under way.
BusyIsExact == busy <=> \E c \in calls : c.holds

\* The veil lifts and the buttons come back.
VeilLifts == groupLoading ~> ~groupLoading
ButtonsReturn == busy ~> ~busy
=============================================================================
