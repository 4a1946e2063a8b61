------------------------------ MODULE RouteForm ------------------------------
(***************************************************************************)
(* The routes of the selected group as the console edits, sorts and saves  *)
(* them, next to the rows that the gateway keeps: the rate of a route is   *)
(* computed twice, in gateway-utils.ts for the list and the saved billing  *)
(* rate, and in select.go for the order of the attempts and the bill.      *)
(*                                                                         *)
(* A rate is a power of 100 and stands for its exponent, Zero for 0, so    *)
(* that the modes x100 and /100 add and subtract one.  The upstream may    *)
(* rename, reprice, drop and add groups at any time: the page and the      *)
(* gateway see some list of Lists each time they load one, and neither     *)
(* refreshes what a route has stored of its group.  A provider's default   *)
(* rate changes too, behind the page's copy and behind the saved routes.   *)
(*                                                                         *)
(* Of a route's columns those are left out that have no part in its rate   *)
(* or place, and placeholders ("id:31") for the name of a group.  One      *)
(* page, one gateway group; the races between the page's requests are      *)
(* GroupDetail's, the rows' keys and pauses RouteTable's.                  *)
(***************************************************************************)
EXTENDS Integers, Sequences, FiniteSets, SequencesExt

CONSTANTS
    Channels, Providers, NoSource,
    Lists,       \* of source groups, as an upstream may show them
    Fold,        \* of a group's name: what strings.EqualFold compares
    NoId, NoName,
    Defaults,    \* default_billing_rate that a provider may have
    Values,      \* what is typed as a custom rate
    Zero,        \* the rate 0, less than any other
    MaxRate,     \* bound: rates lie in -MaxRate..MaxRate
    MaxRoutes, MaxClicks

VARIABLES
    rows,        \* the routes in the database, in the order of their positions
    dir,         \* rate_sort_direction of the group
    default,     \* default_billing_rate of the providers
    drafts,      \* routeDrafts
    rateSort,    \* the direction chosen on the page
    snap,        \* sourceGroupsByChannel
    options,     \* the default rates in providerOptions
    asked,       \* channels whose groups it has asked for
    sent,        \* a save on its way
    clicks,
    changed      \* witness: providers whose default is newer than the "saved" or the "read" one

vars == <<rows, dir, default, drafts, rateSort, snap, options, asked, sent, clicks, changed>>

Modes == {"raw", "multiply_100", "divide_100", "custom"}
Rates == {Zero} \cup -MaxRate..MaxRate
Sources == Channels \cup Providers \cup {NoSource}
GroupNames == DOMAIN Fold
Offered == UNION {Range(list) : list \in Lists}   \* groups of some list

\* source_group_id and source_group_name.
Bindings == [id : {g.id : g \in Offered} \cup {NoId}, name : GroupNames \cup {NoName}]
Unbound == [id |-> NoId, name |-> NoName]

Route == [kind : {"monitor", "provider"}, src : Sources, group : Bindings, mode : Modes,
          value : Rates, billing : Rates, weight : 1..2]

\* emptyRoute.
EmptyRoute == [kind |-> "monitor", src |-> NoSource, group |-> Unbound, mode |-> "raw",
               value |-> 0, billing |-> 0, weight |-> 1]

NotSent == [state |-> "none", list |-> <<>>]

TypeOK ==
    /\ rows \in Seq(Route) /\ Len(rows) <= MaxRoutes
    /\ drafts \in Seq(Route) /\ Len(drafts) <= MaxRoutes
    /\ dir \in {"asc", "desc"} /\ rateSort \in {"asc", "desc"}
    /\ default \in [Providers -> Defaults] /\ options \in [Providers -> Defaults \cup {0}]
    /\ snap \in [Channels -> Lists \cup {<<>>}] /\ asked \subseteq Channels
    /\ sent.state \in {"none", "sent", "served"} /\ sent.list \in Seq(Route)
    /\ clicks \in 0..MaxClicks
    /\ changed \subseteq {"saved", "read"} \X Providers

-----------------------------------------------------------------------------
(* Rates, as the gateway computes them *)

\* Convert, without its custom mode.
Convert(v, mode) ==
    CASE v = Zero -> Zero
      [] mode = "multiply_100" -> v + 1
      [] mode = "divide_100" -> v - 1
      [] OTHER -> v

SameId(g, r) == r.group.id # NoId /\ g.id = r.group.id
SameFold(g, r) == r.group.name # NoName /\ Fold[g.name] = Fold[r.group.name]

\* The first group with the route's id or, in any case of its letters, its name.
RateForRoute(r, groups) ==
    LET i == SelectInSeq(groups, LAMBDA g : SameId(g, r) \/ SameFold(g, r)) IN
    CASE r.mode = "custom" -> r.value
      [] r.mode # "custom" /\ i # 0 -> Convert(groups[i].ratio, r.mode)
      [] OTHER -> r.billing

\* What the gateway has loaded for each channel, nothing after a failure.
Loaded == [Channels -> Lists \cup {<<>>}]
GroupsOf(r, lists) == IF r.src \in Channels THEN lists[r.src] ELSE <<>>

\* OrderRoutesByRate: stable in what it is given.
OrderRoutesByRate(list, loaded, d) ==
    LET rate(i) == RateForRoute(list[i], GroupsOf(list[i], loaded))
        less(i, j) == IF rate(i) # rate(j) THEN IF d = "desc" THEN rate(i) > rate(j) ELSE rate(i) < rate(j)
                      ELSE i < j
        order == SetToSortSeq(1..Len(list), less)
    IN  [i \in 1..Len(list) |-> list[order[i]]]

\* enrichRouteSourceGroupName: a name is added to a lone id, and never renewed.
Enriched(r, groups) ==
    LET i == SelectInSeq(groups, LAMBDA g : SameId(g, r)) IN
    IF r.group.name = NoName /\ i # 0 THEN [r EXCEPT !.group.name = groups[i].name] ELSE r

\* applyProviderRouteBilling and normalizeGatewayRoute, then SaveForGroup.
Normalized(r) ==
    [r EXCEPT !.billing = IF r.kind = "provider" THEN IF r.mode = "custom" THEN r.value ELSE default[r.src]
                          ELSE IF @ = Zero THEN 0 ELSE @]

\* A route saved before, by a page that had its channel's groups.  (Older pages stored
\* an id alone.)
SavedBefore ==
    LET typed == {"custom"} \X Values
        modes == typed \cup ((Modes \ {"custom"}) \X {0})
        rate(m, v) == IF m[1] = "custom" THEN m[2] ELSE v
        route(c, b, m, v) == [EmptyRoute EXCEPT !.src = c, !.group = b, !.mode = m[1], !.value = m[2], !.billing = v]
    IN  {Normalized(r) : r \in
            {route(c, Unbound, m, rate(m, 0)) : c \in Channels, m \in modes}
            \cup {route(c, [id |-> g.id, name |-> g.name], m, rate(m, Convert(g.ratio, m[1]))) :
                     c \in Channels, m \in modes, g \in Offered}
            \cup {route(c, [id |-> g.id, name |-> NoName], m, rate(m, Convert(g.ratio, m[1]))) :
                     c \in Channels, m \in modes, g \in {h \in Offered : h.id # NoId}}
            \cup {[route(p, Unbound, m, 0) EXCEPT !.kind = "provider"] :
                     p \in Providers, m \in {n \in typed : n[2] # Zero} \cup {<<"raw", 0>>}}}

\* The routes of a group, ordered when they were saved.  providerOptions is empty, which
\* counts as the rate 1, until it is answered.
Init ==
    /\ default \in [Providers -> Defaults] /\ options = [p \in Providers |-> 0]
    /\ changed = {"read"} \X Providers
    /\ dir \in {"asc", "desc"} /\ rateSort = dir
    /\ \E n \in 0..MaxRoutes : rows \in [1..n -> SavedBefore]
    /\ \A i, j \in DOMAIN rows :
          i < j => IF dir = "desc" THEN rows[i].billing >= rows[j].billing ELSE rows[i].billing <= rows[j].billing
    /\ drafts = rows
    /\ snap = [c \in Channels |-> <<>>] /\ asked = {r.src : r \in Range(rows)} \cap Channels
    /\ sent = NotSent /\ clicks = 0

-----------------------------------------------------------------------------
(* Rates, as the page computes them *)

\* matchedRatio: a stored name is looked up as it is spelled, an id only without a name.
Matched(r) ==
    SelectInSeq(GroupsOf(r, snap),
                LAMBDA g : IF r.group.name # NoName THEN g.name = r.group.name ELSE SameId(g, r))

\* Variant: the saved rate is never used.
RouteAccountRate_NoFallback(r) ==
    IF r.mode = "custom" THEN r.value
    ELSE Convert(IF Matched(r) # 0 THEN GroupsOf(r, snap)[Matched(r)].ratio ELSE 0, r.mode)

\* The ratio in the snapshot or else the saved rate, and the mode applied to either.
RouteAccountRate(r) ==
    IF r.mode = "custom" THEN r.value
    ELSE Convert(IF Matched(r) # 0 THEN GroupsOf(r, snap)[Matched(r)].ratio
                 ELSE IF r.billing # Zero THEN r.billing ELSE 0, r.mode)

ProviderDefault(r) == IF r.src \in Providers THEN options[r.src] ELSE 0

RouteEffectiveRate(r) ==
    IF r.kind = "monitor" THEN RouteAccountRate(r)
    ELSE IF r.mode = "custom" /\ r.value # Zero THEN r.value
    ELSE ProviderDefault(r)

\* The list as shown and as submitted: by rate, then weight, then place.
SortGatewayRouteRows(list, d) ==
    LET less(i, j) ==
          LET a == RouteEffectiveRate(list[i])  b == RouteEffectiveRate(list[j]) IN
          IF a # b THEN IF d = "desc" THEN a > b ELSE a < b
          ELSE IF list[i].weight # list[j].weight THEN list[i].weight > list[j].weight
          ELSE i < j
        order == SetToSortSeq(1..Len(list), less)
    IN  [i \in 1..Len(list) |-> list[order[i]]]

\* What saveRoutes makes of a draft.
Submitted(r) ==
    IF r.kind = "provider"
    THEN LET v == IF r.mode = "custom" /\ r.value # Zero THEN r.value ELSE ProviderDefault(r) IN
         [r EXCEPT !.group = Unbound, !.value = IF r.mode = "custom" THEN v ELSE 0, !.billing = v]
    ELSE [r EXCEPT !.value = IF r.mode = "custom" THEN @ ELSE 0,
                   !.billing = IF RouteAccountRate(r) = Zero THEN 0 ELSE RouteAccountRate(r)]

-----------------------------------------------------------------------------
(* The panel *)

Click == clicks < MaxClicks /\ clicks' = clicks + 1 /\ UNCHANGED <<rows, dir, default>>

Edit(i, r) ==
    /\ Click
    /\ i \in DOMAIN drafts /\ r # drafts[i]
    /\ drafts' = [drafts EXCEPT ![i] = r]
    /\ UNCHANGED <<rateSort, snap, options, sent, changed>>

\* The kind of source: all that belongs to the other kind is cleared.
EditKind(i) ==
    /\ i \in DOMAIN drafts
    /\ Edit(i, IF drafts[i].kind = "monitor"
               THEN [drafts[i] EXCEPT !.kind = "provider", !.src = NoSource, !.group = Unbound, !.mode = "custom"]
               ELSE [drafts[i] EXCEPT !.kind = "monitor", !.src = NoSource, !.mode = "raw"])
    /\ UNCHANGED asked

EditProvider(i, p) ==
    /\ i \in DOMAIN drafts /\ drafts[i].kind = "provider"
    /\ Edit(i, [drafts[i] EXCEPT !.src = p, !.mode = "custom", !.value = options[p]])
    /\ UNCHANGED asked

EditChannel(i, c) ==
    /\ i \in DOMAIN drafts /\ drafts[i].kind = "monitor"
    /\ Edit(i, [drafts[i] EXCEPT !.src = c, !.group = Unbound])
    /\ asked' = asked \cup {c}

\* Only a group that the page has can be chosen; "none" always can.
EditSourceGroup(i) ==
    /\ i \in DOMAIN drafts /\ drafts[i].kind = "monitor"
    /\ \E b \in {Unbound} \cup {[id |-> g.id, name |-> g.name] : g \in Range(GroupsOf(drafts[i], snap))} :
          Edit(i, [drafts[i] EXCEPT !.group = b])
    /\ UNCHANGED asked

EditMode(i, m) == i \in DOMAIN drafts /\ Edit(i, [drafts[i] EXCEPT !.mode = m]) /\ UNCHANGED asked

EditValue(i, v) ==
    /\ i \in DOMAIN drafts /\ drafts[i].mode = "custom"
    /\ Edit(i, [drafts[i] EXCEPT !.value = v])
    /\ UNCHANGED asked

EditWeight(i) == i \in DOMAIN drafts /\ Edit(i, [drafts[i] EXCEPT !.weight = 3 - @]) /\ UNCHANGED asked

AddRoute ==
    /\ Click /\ Len(drafts) < MaxRoutes
    /\ drafts' = Append(drafts, EmptyRoute)
    /\ UNCHANGED <<rateSort, snap, options, asked, sent, changed>>

DeleteRow(i) ==
    /\ Click /\ i \in DOMAIN drafts
    /\ drafts' = RemoveAt(drafts, i)
    /\ UNCHANGED <<rateSort, snap, options, asked, sent, changed>>

ChooseRateSort ==
    /\ Click
    /\ rateSort' = IF rateSort = "asc" THEN "desc" ELSE "asc"
    /\ UNCHANGED <<drafts, snap, options, asked, sent, changed>>

Busy == sent.state # "none"

\* saveRoutes: sorted, each route completed, and sent.
SaveRoutes ==
    /\ Click /\ ~Busy
    /\ LET ordered == SortGatewayRouteRows(drafts, rateSort)
           list == [i \in 1..Len(ordered) |-> Submitted(ordered[i])]
       IN  /\ \A r \in Range(list) : r.billing \in Rates
           /\ sent' = [state |-> "sent", list |-> list]
    /\ UNCHANGED <<drafts, rateSort, snap, options, asked, changed>>

\* What the routes of an answer bring along: their channels' groups.
ChannelsOf(list) == {r.src : r \in Range(list)} \cap Channels

\* The routes are loaded again, with the group's direction: refresh, and a
\* switch to another group and back.  ListRoutes adds the names it can find.
Reload ==
    /\ clicks < MaxClicks /\ clicks' = clicks + 1
    /\ ~Busy
    /\ \E loaded \in Loaded :
          rows' = [i \in 1..Len(rows) |-> Enriched(rows[i], GroupsOf(rows[i], loaded))]
    /\ drafts' = rows' /\ rateSort' = dir
    /\ asked' = asked \cup ChannelsOf(rows)
    /\ UNCHANGED <<dir, default, snap, options, sent, changed>>

\* loadSourceGroups: a failure leaves what the page has.
SnapshotAnswered(c) ==
    /\ c \in asked /\ asked' = asked \ {c}
    /\ \/ \E list \in Lists : snap' = [snap EXCEPT ![c] = list]
       \/ snap' = snap
    /\ UNCHANGED <<rows, dir, default, drafts, rateSort, options, sent, clicks, changed>>

\* loadProviderOptions, of the mount, a refresh, the tab and a new kind of source.
ProviderOptionsAnswered ==
    /\ options' = default
    /\ changed' = changed \ ({"read"} \X Providers)
    /\ UNCHANGED <<rows, dir, default, drafts, rateSort, snap, asked, sent, clicks>>

-----------------------------------------------------------------------------
(* The gateway *)

\* SaveRoutes of the AdminService: a route without a source is refused.
ServeSave ==
    /\ sent.state = "sent"
    /\ IF \E r \in Range(sent.list) : r.src = NoSource
       THEN sent' = NotSent /\ UNCHANGED <<rows, changed>>
       ELSE /\ \E loaded \in Loaded :
                  LET named(r) == Enriched(Normalized(r), GroupsOf(r, loaded)) IN
                  rows' = OrderRoutesByRate([i \in 1..Len(sent.list) |-> named(sent.list[i])], loaded, dir)
            /\ sent' = [state |-> "served", list |-> rows']
            /\ changed' = changed \ ({"saved"} \X Providers)
    /\ UNCHANGED <<dir, default, drafts, rateSort, snap, options, asked, clicks>>

\* The drafts are replaced, also those edited since the click.  (The channels'
\* groups are not asked for here.)
SaveAnswered ==
    /\ sent.state = "served"
    /\ drafts' = sent.list
    /\ sent' = NotSent
    /\ UNCHANGED <<rows, dir, default, rateSort, snap, options, asked, clicks, changed>>

SaveFailed ==
    /\ Busy /\ sent' = NotSent
    /\ UNCHANGED <<rows, dir, default, drafts, rateSort, snap, options, asked, clicks, changed>>

\* orderRoutesForGroup: the ratios it has loaded renew the saved rates, and the order.
Reordered(loaded, d) ==
    LET ordered == OrderRoutesByRate(rows, loaded, d) IN
    [i \in 1..Len(rows) |->
        LET rate == RateForRoute(ordered[i], GroupsOf(ordered[i], loaded)) IN
        [ordered[i] EXCEPT !.billing = IF rate = Zero THEN @ ELSE rate]]

\* saveGroupConfig, from the click on "save order" to the answer with the routes.
SaveGroupConfig ==
    /\ clicks < MaxClicks /\ clicks' = clicks + 1
    /\ ~Busy
    /\ dir' = rateSort
    /\ \E loaded \in Loaded : rows' = Reordered(loaded, dir')
    /\ drafts' = rows'
    /\ UNCHANGED <<default, rateSort, snap, options, asked, sent, changed>>

\* A scan of the ratios with rate_resort_enabled.
ResortRoutesOnRateScan ==
    /\ clicks < MaxClicks /\ clicks' = clicks + 1
    /\ rows # <<>>
    /\ \E loaded \in Loaded : rows' = Reordered(loaded, dir)
    /\ UNCHANGED <<dir, default, drafts, rateSort, snap, options, asked, sent, changed>>

\* UpdateProvider writes the provider's row and no route.
UpdateProvider(p, v) ==
    /\ clicks < MaxClicks /\ clicks' = clicks + 1
    /\ v # default[p] /\ default' = [default EXCEPT ![p] = v]
    /\ changed' = changed \cup ({"saved", "read"} \X {p})
    /\ UNCHANGED <<rows, dir, drafts, rateSort, snap, options, asked, sent>>

Next ==
    \/ \E i \in 1..MaxRoutes :
          \/ EditKind(i) \/ EditSourceGroup(i) \/ EditWeight(i) \/ DeleteRow(i)
          \/ \E p \in Providers : EditProvider(i, p)
          \/ \E c \in Channels : EditChannel(i, c)
          \/ \E m \in Modes : EditMode(i, m)
          \/ \E v \in Values : EditValue(i, v)
    \/ \E p \in Providers, v \in Defaults : UpdateProvider(p, v)
    \/ ProviderOptionsAnswered \/ AddRoute \/ ChooseRateSort \/ SaveRoutes \/ Reload \/ SaveGroupConfig
    \/ \E c \in Channels : SnapshotAnswered(c)
    \/ ServeSave \/ SaveAnswered \/ SaveFailed \/ ResortRoutesOnRateScan

Spec == Init /\ [][Next]_vars

-----------------------------------------------------------------------------
(* Properties *)

\* Where the two sides must agree.  A provider's route has its own rate, or a default
\* that is as old as the save and as old as the page's copy.  A monitor's route has its
\* own rate; or one group of the list, and no other, bears its id or its name, spelled
\* as the route has it; or none does, and the saved rate stands as it is.
Bearers(r, groups) == {i \in DOMAIN groups : SameId(groups[i], r) \/ SameFold(groups[i], r)}

SameInput(r) ==
    \/ r.mode = "custom"
    \/ r.kind = "provider" /\ changed \cap ({"saved", "read"} \X {r.src}) = {}
    \/ /\ r.kind = "monitor"
       /\ LET groups == GroupsOf(r, snap) IN
          IF Bearers(r, groups) = {} THEN r.mode = "raw"
          ELSE \E i \in DOMAIN groups : Bearers(r, groups) = {i} /\ r.group.name \in {groups[i].name, NoName}

\* For those the list of the page is the order of the attempts: gateway-utils.ts and
\* select.go come to the same rate, given the same groups.
SameRateOnBothSides ==
    \A r \in Range(rows) : SameInput(r) => RouteEffectiveRate(r) = RateForRoute(r, GroupsOf(r, snap))
=============================================================================
