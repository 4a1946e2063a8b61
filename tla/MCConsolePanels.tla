-------------------------- MODULE MCConsolePanels ---------------------------
(***************************************************************************)
(* The panels of the console's gateway page, one run for all: the initial  *)
(* state chooses which of them runs.  They share no state, so one set of   *)
(* cells serves them all.                                                  *)
(***************************************************************************)
EXTENDS Integers, Sequences, FiniteSets, TLC

CONSTANTS
    Nil, Every,
    Priced, Prices, Queries,                \* of the price table, and the searches of its defaults
    Models, Upstream, Catalog,              \* of model lists and tests
    Groups, Routes, KeyIds, Ids,            \* of the gateway; Ids: of the groups one drags
    KeysOf, ModelsOf,                       \* of the usage records' filters
    Requests, Cuts, Columns, Default,       \* of the usage table
    Names, ApiKeys,                         \* of the direct providers
    Bound,                                  \* bounds of what may happen
    s1, p1                                  \* model values

VARIABLES
    part,   \* who runs
    c1, c2, c3, c4, c5, c6, c7, c8, c9, c10, c11
            \* the variables of the part, in the order in which it declares them

Zero == -9   \* of RouteForm: a rate below every other
MCUpstream == {{}, {CHOOSE m \in Models : m \notin Catalog}}

\* One group has the keys and the models, and each has a key of its own.
Keyed == CHOOSE g \in Groups : TRUE
MCKeysOf == [g \in Groups |-> LET k == CHOOSE k \in KeyIds : TRUE IN IF g = Keyed THEN {k} ELSE KeyIds \ {k}]
MCModelsOf == [g \in Groups |-> IF g = Keyed THEN Catalog ELSE {}]
\* A deep link to a group and a time, and one to everything.
MCLinked == {[group |-> g, key |-> "all", model |-> "all", rest |-> IF g = Keyed THEN "typed" ELSE "none"] :
                g \in {Keyed, "all"}}
MCBound == [prices |-> 2, calls |-> 2, clicks |-> 3, tests |-> 2, testClicks |-> 5,
            pages |-> 2, requests |-> 4, usageClicks |-> 2, records |-> 3, recordsPerPage |-> 2,
            providers |-> 2, providersPerPage |-> 1, providerClicks |-> 2]

\* Models and queries of the price table, and of no other part.
Symmetry == Permutations(Priced) \cup Permutations(Queries)

Table == INSTANCE PriceTable WITH
    Models <- Priced, Blank <- Nil, NoPrice <- Nil, NoList <- Nil,
    MaxRows <- Bound.prices, MaxCalls <- Bound.calls,
    MaxClicks <- Bound.clicks, table <- c1, lastID <- c2, shown <- c3, form <- c4,
    asking <- c5, busy <- c6, loading <- c7, defaults <- c8, calls <- c9,
    clicks <- c10, doubt <- c11

\* Source groups by id and by name alone: as chosen; renamed, with the name taken
\* by another; two side by side; two that differ in a capital.
Group(id, name, ratio) == [id |-> id, name |-> name, ratio |-> ratio]
MCFold == [std |-> "std", pro |-> "pro", Pro |-> "pro"]
MCLists == {<<Group(1, "std", 1)>>, <<Group(1, "Pro", 0), Group(2, "std", 1)>>,
            <<Group(1, "std", 1), Group(2, "pro", 0)>>, <<Group(0, "pro", 0), Group(0, "Pro", 1)>>}

Rows == INSTANCE RouteForm WITH
    Channels <- {s1}, Providers <- {p1}, NoSource <- Nil,
    Lists <- MCLists, Fold <- MCFold, NoId <- 0, NoName <- "", Defaults <- {0, 1},
    Values <- {Zero, 1}, Zero <- Zero, MaxRate <- 2, MaxRoutes <- 2,
    MaxClicks <- 2, rows <- c1, dir <- c2, default <- c3, drafts <- c4, rateSort <- c5,
    snap <- c6, options <- c7, asked <- c8, sent <- c9, clicks <- c10, changed <- c11

List == INSTANCE ModelList WITH
    Blank <- Nil, MaxCalls <- Bound.calls, MaxClicks <- Bound.clicks, row <- c1, rowMode <- c2,
    items <- c3, mode <- c4, typed <- c5, busy <- c6, dialog <- c7, calls <- c8, clicks <- c9

Test == INSTANCE ModelTest WITH
    All <- Every, Nothing <- Nil, MaxTests <- Bound.tests, MaxClicks <- Bound.testClicks, group <- c1,
    results <- c2, testing <- c3, open <- c4, target <- c5, shown <- c6, tests <- c7, clicks <- c8

Rules == INSTANCE KeyRules WITH
    Keys <- KeyIds, MaxCalls <- Bound.calls, MaxClicks <- Bound.clicks, exists <- c1, used <- c2,
    row <- c3, listed <- c4, draft <- c5, busy <- c6, calls <- c7, clicks <- c8

Order == INSTANCE GroupOrder WITH
    MaxCalls <- Bound.calls, MaxClicks <- Bound.clicks, position <- c1, shown <- c2,
    calls <- c3, doubt <- c4, clicks <- c5

Usage == INSTANCE UsageBrowser WITH
    Linked <- MCLinked, MaxPage <- Bound.pages, MaxRequests <- Bound.requests,
    MaxClicks <- Bound.usageClicks, filter <- c1, page <- c2, shown <- c3, models <- c4, asked <- c5, missed <- c6, loading <- c7,
    reqs <- c8, clicks <- c9, link <- c10, applied <- c11

Log == INSTANCE UsageTable WITH
    MaxRows <- Bound.records, PageSize <- Bound.recordsPerPage, log <- c1, written <- c2,
    items <- c3, visible <- c4, stored <- c5, open <- c6, range <- c7, ack <- c8, matched <- c9,
    preview <- c10, cleanup <- c11

Direct == INSTANCE Providers WITH
    Blank <- Nil, MaxId <- Bound.providers, PageSize <- Bound.providersPerPage,
    MaxCalls <- Bound.calls, MaxClicks <- Bound.providerClicks, rows <- c1, born <- c2, table <- c3,
    pageNum <- c4, q <- c5, loading <- c6, busy <- c7, form <- c8, asking <- c9,
    calls <- c10, clicks <- c11

\* The cells after the nth, which a part with n variables leaves alone.
Rest9 == <<c10, c11>>
Zero9 == c10 = 0 /\ c11 = 0
Rest8 == <<c9, Rest9>>
Zero8 == c9 = 0 /\ Zero9
Rest5 == <<c6, c7, c8, Rest8>>
Zero5 == c6 = 0 /\ c7 = 0 /\ c8 = 0 /\ Zero8
allVars == <<part, c1, c2, c3, c4, c5, c6, c7, c8, c9, c10, c11>>

\* A group of two routes has one of each kind.
RoutesAtFirst ==
    /\ c2 = "asc" /\ c3 = [p \in {p1} |-> 1]
    /\ Len(c1) = 2 => c1[1].kind = "provider" /\ c1[2].kind = "monitor" /\ c1[1].mode = "raw" /\ c1[2].mode = "raw"

MCInit ==
    \/ part = "prices" /\ Table!Init
    \/ part = "routes" /\ Rows!Init /\ RoutesAtFirst
    \/ part = "models" /\ List!Init /\ Zero9
    \/ part = "test" /\ Test!Init /\ Zero8
    \/ part = "rules" /\ Rules!Init /\ Zero8
    \/ part = "order" /\ Order!Init /\ Zero5
    \/ part = "usage" /\ Usage!Init
    \/ part = "log" /\ Log!Init
    \/ part = "providers" /\ Direct!Init

MCNext ==
    /\ UNCHANGED part
    /\ \/ part = "prices" /\ Table!Next
       \/ part = "routes" /\ Rows!Next
       \/ part = "models" /\ List!Next /\ UNCHANGED Rest9
       \/ part = "test" /\ Test!Next /\ UNCHANGED Rest8
       \/ part = "rules" /\ Rules!Next /\ UNCHANGED Rest8
       \/ part = "order" /\ Order!Next /\ UNCHANGED Rest5
       \/ part = "usage" /\ Usage!Next
       \/ part = "log" /\ Log!Next
       \/ part = "providers" /\ Direct!Next

MCSpec == MCInit /\ [][MCNext]_allVars

ASSUME PanelsAssumption ==
    /\ Nil \notin Priced   \* no model has an empty name
    /\ Bound.providers \in Nat
    /\ Order!IdsAssumption
    /\ Usage!LinksAssumption

\* The properties, as the modules of the parts state and explain them.
TypeOK ==
    /\ part = "prices" => Table!TypeOK
    /\ part = "routes" => Rows!TypeOK
    /\ part = "models" => List!TypeOK
    /\ part = "test" => Test!TypeOK
    /\ part = "rules" => Rules!TypeOK
    /\ part = "order" => Order!TypeOK
    /\ part = "usage" => Usage!TypeOK
    /\ part = "log" => Log!TypeOK
    /\ part = "providers" => Direct!TypeOK

\* A panel at rest, of whose last answer nothing was lost, shows what the server
\* has: the price overrides, the defaults of the last search, the order of the
\* groups, and the usage of the filters that were sent last.
SettledPanelIsServers ==
    /\ part = "prices" => Table!SettledTableIsServers /\ Table!DefaultsAnswerSearch
    /\ part = "order" => Order!SettledOrderIsServers
    /\ part = "usage" => Usage!TableAnswersLastQuery

\* Every flag that locks buttons or turns a spinner is up exactly while a request
\* it stands for is under way.
FlagsAreExact ==
    /\ part = "models" => List!BusyIsExact
    /\ part = "test" => Test!FlagNamesATest
    /\ part = "usage" => Usage!SpinnerIsExact
    /\ part = "providers" => Direct!BusyIsExact

\* What a panel works out for itself agrees with what the gateway does: the rate
\* of a route, the model a test result belongs to, the attempt that decided a
\* request, and a table that is never left without a column.
PanelTellsTruth ==
    /\ part = "routes" => Rows!SameRateOnBothSides
    /\ part = "test" => Test!DialogShowsItsModel
    /\ part = "log" => Log!MainRowTellsOutcome /\ Log!SomethingVisible

\* A write changes what its user asked for and nothing beside it, and what the
\* panel shows parts from what is stored or asked for only for a named reason:
\* each part's module says which.
PanelStep ==
    /\ part = "prices" => Table!DeleteStep
    /\ part = "models" => List!SyncStep /\ List!StoredStep
    /\ part = "rules" => Rules!WidenStep /\ Rules!DanglingStep
    /\ part = "usage" => Usage!PartStep
    /\ part = "log" => Log!StaleCountStep
    /\ part = "providers" => Direct!ReviveStep
WritesAsAsked == [][PanelStep]_allVars
=============================================================================
