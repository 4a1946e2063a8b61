----------------------------- MODULE UsageBrowser -----------------------------
(***************************************************************************)
(* The usage records of the gateway page: filters, a paged table and the   *)
(* requests behind them (components/gateway/gateway-page.tsx and           *)
(* usage-panel.tsx).  Loads of the table are numbered (usageSeqRef) and    *)
(* only the latest answer counts; the choices for keys and models are      *)
(* asked for without a number, and take back a filter they do not contain. *)
(* The address may be a deep link (usageDeepLink), which a panel of another *)
(* page wrote; the page stays mounted when it changes or is left.          *)
(*                                                                         *)
(* Abstractions: request id, result and the two times are one field, rest; *)
(* a load asks for rows and statistics at once.                            *)
(***************************************************************************)
EXTENDS Naturals, FiniteSets

CONSTANTS
    Groups,      \* gateway groups
    KeysOf,      \* the keys of each group
    ModelsOf,    \* the models its records have
    Linked,      \* the filters that a deep link may ask for
    MaxPage,     \* bound of the pages a query has
    MaxRequests, \* bound of the requests under way
    MaxClicks    \* bound of what the user does

VARIABLES
    filter,  \* usageGroupFilter, usageKeyFilter, usageModelFilter and the rest
    page,    \* usagePage
    shown,   \* usage: the query of the table's rows, and its number of pages
    models,  \* usageModelOptions
    asked,   \* the query of the latest load
    missed,  \* the latest load failed
    loading, \* usageLoading
    reqs,    \* requests under way
    clicks,
    link,    \* usageDeepLink: the query the address asks for
    applied  \* usageDeepLinkKeyRef: the link applied last

vars == <<filter, page, shown, models, asked, missed, loading, reqs, clicks, link, applied>>

Keys == UNION {KeysOf[g] : g \in Groups}
AllModels == UNION {ModelsOf[g] : g \in Groups}

Filter == [group : Groups \cup {"all"}, key : Keys \cup {"all"},
           model : AllModels \cup {"all"}, rest : {"none", "typed"}]
Query == [f : Filter, page : 1..MaxPage]
NoFilter == [group |-> "all", key |-> "all", model |-> "all", rest |-> "none"]
NoQuery == [f |-> NoFilter, page |-> 0]   \* before the first answer, and no link

\* A link says a group or all, a result and times or none.
LinksAssumption == Linked \subseteq
    [group : Groups \cup {"all"}, key : {"all"}, model : {"all"}, rest : {"none", "typed"}]

Links == {[f |-> f, page |-> 1] : f \in Linked}

TypeOK ==
    /\ filter \in Filter /\ page \in 1..MaxPage /\ asked \in Query
    /\ shown \in [q : Query \cup {NoQuery}, pages : 0..MaxPage]
    /\ models \subseteq AllModels
    /\ missed \in BOOLEAN /\ loading \in BOOLEAN
    /\ reqs \subseteq [op : {"load", "models", "keys", "groups", "refreshAll", "clean"},
                       q : Query, latest : BOOLEAN]
    /\ clicks \in 0..MaxClicks
    /\ {link, applied} \subseteq Links \cup {NoQuery}

Req(op, f, p) == [op |-> op, q |-> [f |-> f, page |-> p], latest |-> op = "load"]

\* loadUsageModels and refreshUsageKeys ask for a group, and the models for a key.
ForModels(f) == {Req("models", [f EXCEPT !.model = "all"], 1)}
ForKeys(f) == {Req("keys", [NoFilter EXCEPT !.group = f.group], 1)}

\* The effects after a render: what depends on a part of the filter that changed.
Effects(old, new) ==
    (IF [old EXCEPT !.model = "all"] # [new EXCEPT !.model = "all"] THEN ForModels(new) ELSE {})
    \cup (IF old.group # new.group THEN ForKeys(new) ELSE {})

\* loadGroups: its answer renews the groups, and with them the choices for keys.
ForGroups == {Req("groups", NoFilter, 1)}

\* Mounted, with a link or without.
Init ==
    /\ link \in Links \cup {NoQuery} /\ applied = link
    /\ filter = link.f /\ page = 1
    /\ shown = [q |-> NoQuery, pages |-> 0] /\ models = {}
    /\ asked = [f |-> filter, page |-> 1] /\ missed = FALSE /\ loading = TRUE
    /\ reqs = {Req("load", filter, 1)} \cup ForModels(NoFilter) \cup Effects(NoFilter, filter) \cup ForGroups
    /\ clicks = 0

-----------------------------------------------------------------------------
Outdated(rs) == {[r EXCEPT !.latest = FALSE] : r \in rs}

\* loadUsage, and requests that start with it.
Load(f, p, rs, more) ==
    /\ reqs' = Outdated(rs) \cup {Req("load", f, p)} \cup more
    /\ asked' = [f |-> f, page |-> p]
    /\ missed' = FALSE /\ loading' = TRUE

Click ==
    /\ clicks < MaxClicks /\ clicks' = clicks + 1
    /\ Cardinality(reqs) < MaxRequests
    /\ UNCHANGED <<shown, models>>

\* A choice that loads at once.
Choose(f) ==
    /\ Click /\ f # filter
    /\ filter' = f /\ page' = 1
    /\ Load(f, 1, reqs, Effects(filter, f))

\* Variant: the load reads the filter before the choice is committed.
PickGroup_Uncommitted ==
    \E g \in Groups \cup {"all"} :
        /\ Click /\ g # filter.group
        /\ filter' = [filter EXCEPT !.group = g, !.key = "all"] /\ page' = 1
        /\ Load(filter, 1, reqs, Effects(filter, filter'))

PickGroup == \E g \in Groups \cup {"all"} : Choose([filter EXCEPT !.group = g, !.key = "all"])

\* The keys listed, and any number typed.
KeyChoices == Keys \cup {"all"}

PickKey == \E k \in KeyChoices : Choose([filter EXCEPT !.key = k])
PickModel == \E m \in models \cup {"all"} : Choose([filter EXCEPT !.model = m])

\* A result, a time or a request id: nothing is loaded yet.
TypeRest ==
    /\ Click
    /\ filter.rest = "none"
    /\ filter' = [filter EXCEPT !.rest = "typed"]
    /\ reqs' = reqs \cup ForModels(filter')
    /\ UNCHANGED <<page, asked, missed, loading>>

\* Enter in the field, or the button.
Search ==
    /\ Click
    /\ page' = 1 /\ Load(filter, 1, reqs, {})
    /\ UNCHANGED filter

\* The last hour, today, 7 or 30 days.
Preset ==
    /\ ~loading /\ Click
    /\ filter' = [filter EXCEPT !.rest = "typed"] /\ page' = 1
    /\ Load(filter', 1, reqs, Effects(filter, filter'))

Reset ==
    /\ ~loading /\ Click
    /\ filter' = NoFilter /\ page' = 1
    /\ Load(NoFilter, 1, reqs, Effects(filter, NoFilter))

\* refreshUsage
RefreshUsage ==
    /\ ~loading /\ Click
    /\ Load(filter, page, reqs, ForModels(filter) \cup ForKeys(filter))
    /\ UNCHANGED <<filter, page>>

\* goUsagePage: the neighbours and the ends, within the pages of the last answer.
GoPage ==
    /\ ~loading /\ shown.q # NoQuery
    /\ \E p \in {1, shown.q.page - 1, shown.q.page + 1, shown.pages} :
          /\ p \in 1..shown.pages /\ p # shown.q.page
          /\ Click /\ page' = p
          /\ Load(filter, p, reqs, {})
    /\ UNCHANGED filter

SetPageSize ==
    /\ Click
    /\ page' = 1 /\ Load(filter, 1, reqs, {})
    /\ UNCHANGED filter

\* The refresh of the whole page, and the deletion of records: both go on later
\* with the filter that they saw.
Begin(op) ==
    /\ Click /\ \A r \in reqs : r.op # op
    /\ reqs' = reqs \cup {Req(op, filter, IF op = "clean" THEN 1 ELSE page)}
    /\ UNCHANGED <<filter, page, asked, missed, loading>>

\* Away from a link, to the plain page: the first page of everything is loaded, and
\* the filters stay as they are.
Leave ==
    /\ Click
    /\ link # NoQuery /\ link' = NoQuery
    /\ Load(NoFilter, 1, reqs, ForGroups)
    /\ UNCHANGED <<filter, page, applied>>

\* To a link: the one applied last is not applied again.
Follow(l) ==
    /\ Click
    /\ link' = l /\ applied' = l
    /\ IF l = applied
       THEN /\ reqs' = reqs \cup ForGroups
            /\ UNCHANGED <<filter, page, asked, missed, loading>>
       ELSE /\ filter' = l.f /\ page' = 1
            /\ Load(l.f, 1, reqs, Effects(filter, l.f) \cup ForGroups)

Clicks ==
    \/ /\ \/ PickGroup \/ PickKey \/ PickModel \/ TypeRest \/ Search \/ Preset \/ Reset
          \/ RefreshUsage \/ GoPage \/ SetPageSize
          \/ \E op \in {"refreshAll", "clean"} : Begin(op)
       /\ UNCHANGED <<link, applied>>
    \/ Leave
    \/ \E l \in Links \ {link} : Follow(l)

-----------------------------------------------------------------------------
(* Answers *)

Rest(r) == reqs \ {r}
Of(f, of) == UNION {of[g] : g \in {h \in Groups : f.group \in {"all", h}}}

\* Variant: every answer is taken.
LoadAnswered_Unchecked(r) ==
    /\ r.op = "load"
    /\ reqs' = Rest(r) /\ loading' = FALSE /\ page' = r.q.page
    /\ \E n \in 0..MaxPage : shown' = [q |-> r.q, pages |-> n]
    /\ UNCHANGED <<filter, models, asked, missed>>

LoadAnswered(r) ==
    /\ r.op = "load"
    /\ reqs' = Rest(r)
    /\ IF r.latest
       THEN /\ \E n \in 0..MaxPage : shown' = [q |-> r.q, pages |-> n]
            /\ page' = r.q.page /\ loading' = FALSE
       ELSE UNCHANGED <<shown, page, loading>>
    /\ UNCHANGED <<filter, models, asked, missed>>

\* A filter that is not among the choices falls back to all, and no load follows.
ModelsAnswered(r) ==
    /\ r.op = "models"
    /\ \E some \in SUBSET Of(r.q.f, ModelsOf) :
          /\ models' = some
          /\ filter' = IF filter.model \in some THEN filter ELSE [filter EXCEPT !.model = "all"]
    /\ reqs' = Rest(r)
    /\ UNCHANGED <<page, shown, asked, missed, loading>>

\* With no group the keys of all groups are asked for one by one, and a failure
\* counts as none; with a group a failure empties the choices.
KeysKnown(r) ==
    /\ r.op = "keys"
    /\ \E known \in (IF r.q.f.group = "all" THEN SUBSET Groups ELSE {{}, {r.q.f.group}}) :
          LET items == UNION {KeysOf[g] : g \in known}
              new == IF filter.key \in items THEN filter ELSE [filter EXCEPT !.key = "all"]
          IN  /\ filter' = new
              /\ reqs' = Rest(r) \cup Effects(filter, new)
    /\ UNCHANGED <<page, shown, models, asked, missed, loading>>

\* The groups are there: the choices for keys are asked for anew.
GroupsAnswered(r) ==
    /\ r.op = "groups"
    /\ reqs' = Rest(r) \cup ForKeys(filter)
    /\ UNCHANGED <<filter, page, shown, models, asked, missed, loading>>

\* refreshAll, once the groups and the selected one are loaded.
RefreshedAll(r) ==
    /\ r.op = "refreshAll"
    /\ Load(r.q.f, r.q.page, Rest(r), ForModels(r.q.f) \cup ForKeys(r.q.f) \cup ForKeys(filter))
    /\ UNCHANGED <<filter, page, shown, models>>

\* onCleaned
Cleaned(r) ==
    /\ r.op = "clean"
    /\ page' = 1
    /\ Load(r.q.f, 1, Rest(r), ForModels(r.q.f) \cup ForKeys(r.q.f))
    /\ UNCHANGED <<filter, shown, models>>

\* Variant: the spinner goes on after a failure.
Failed_KeepsLoading(r) ==
    /\ r.op # "keys"
    /\ reqs' = Rest(r)
    /\ missed' = (missed \/ r.latest)
    /\ UNCHANGED <<filter, page, shown, models, asked, loading>>

Failed(r) ==
    /\ r.op # "keys"
    /\ reqs' = Rest(r)
    /\ missed' = (missed \/ r.latest) /\ loading' = (loading /\ ~r.latest)
    /\ UNCHANGED <<filter, page, shown, models, asked>>

Arrivals ==
    /\ \E r \in reqs : LoadAnswered(r) \/ ModelsAnswered(r) \/ KeysKnown(r) \/ GroupsAnswered(r)
                       \/ RefreshedAll(r) \/ Cleaned(r) \/ Failed(r)
    /\ UNCHANGED <<clicks, link, applied>>

Next == Clicks \/ Arrivals

Spec == Init /\ [][Next]_vars

-----------------------------------------------------------------------------
(* Properties *)

\* The number does its work: when the table is not loading it shows the answer
\* to the query asked last, or a message said that this failed.
TableAnswersLastQuery == ~loading => (shown.q = asked \/ missed)

\* The spinner, which disables the buttons, is on exactly as long as the latest
\* load is under way.
SpinnerIsExact == loading <=> \E r \in reqs : r.latest

\* What was asked last and what the filters say part only when a filter is typed
\* and not yet sent, falls back to all, when a chain of requests goes on with the
\* filter it saw, or when the page is left for the plain one, which loads everything
\* beneath the link's filters: no choice, and no link, is loaded with the old state
\* of the filter.
TypedOnly == filter' = [filter EXCEPT !.rest = "typed"] /\ asked' = asked
FellBack == filter' \in {[filter EXCEPT !.key = "all"], [filter EXCEPT !.model = "all"]}
WentOn == \E r \in reqs \ reqs' : r.op \in {"refreshAll", "clean"} /\ asked' = r.q
Left == link # NoQuery /\ link' = NoQuery /\ UNCHANGED filter /\ asked' = [f |-> NoFilter, page |-> 1]
PartStep == (asked.f = filter /\ asked'.f # filter') =>
    TypedOnly \/ (FellBack /\ asked' = asked) \/ WentOn \/ Left
FiltersPartForAReason == [][PartStep]_vars

-----------------------------------------------------------------------------
\* What carries them from step to step: there is one latest load, and it asks for what
\* was asked last; a chain that goes on after a deletion begins at the first page.
IsReq(r) == r \in [op : {r.op}, q : [f : {r.q.f}, page : {r.q.page}], latest : BOOLEAN]
UsageInv ==
    /\ \A r \in reqs : /\ IsReq(r)
                       /\ r.latest => r.op = "load" /\ r.q = asked
                       /\ r.op = "clean" => r.q.page = 1
    /\ loading \in BOOLEAN /\ filter \in Filter /\ models \subseteq AllModels
    /\ SpinnerIsExact /\ TableAnswersLastQuery
=============================================================================
