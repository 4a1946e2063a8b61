--------------------------- MODULE SourceGroupCache ---------------------------
(***************************************************************************)
(* The cache of source group ratios, one entry per channel                 *)
(* (backend/gateway/runtime_cache.go), and its three kinds of users:       *)
(*   - requests look entries up and never wait; a stale or missing entry   *)
(*     starts one background refresh of the channel;                       *)
(*   - administrators (saving routes) wait for the upstream on a miss;     *)
(*   - a rate scan marks every entry stale and then loads like an          *)
(*     administrator, to reorder the routes by the ratios it just saw.     *)
(*                                                                         *)
(* channelGroupsCacheMu makes each lookup and each store one step; the     *)
(* call to the upstream lies between them.  Abstractions: the group list   *)
(* of a channel is the number of changes the upstream has made to it; an   *)
(* entry's time is only compared with the TTL, so it is the flag "fresh".  *)
(* A missing entry, and one that holds nil, look the same to every reader. *)
(***************************************************************************)
EXTENDS Integers, FiniteSets

CONSTANTS
    Channels,
    Loaders,      \* goroutines of the management side
    Slots,        \* background goroutines, enough for one more than needed
    Wanted,       \* the channel sets a caller may ask for
    Concurrency,  \* RouteBatchConcurrency
    Changing,     \* the channels whose ratios change in an instance
    MaxVersion,   \* bound of the changes of each
    MaxFailures   \* bound of the failing upstream calls

ASSUME CacheAssumption ==
    /\ IsFiniteSet(Channels)
    /\ Wanted \subseteq (SUBSET Channels) \ {{}}
    /\ Concurrency \in Nat \ {0}
    /\ Changing \subseteq Channels
    /\ MaxVersion \in Nat
    /\ MaxFailures \in Nat

VARIABLES
    up,        \* the upstream: current version of each channel's groups
    entry,     \* channelGroupsCache
    busy,      \* channelGroupsRefreshing
    task,      \* background goroutines
    load,      \* calls of loadGroupsByChannelBlocking
    failures   \* failing calls so far

vars == <<up, entry, busy, task, load, failures>>

Nothing == 0
Version == 1..MaxVersion + 1
Groups  == Version \cup {Nothing}

\* A background goroutine, and the state of a call.
Task == [pc : {"free", "fetch", "store", "release"}, groups : Groups]
Free == [pc |-> "free", groups |-> Nothing]
Idle == [pc |-> "idle", stage |-> [c \in Channels |-> "out"],
         out |-> [c \in Channels |-> Nothing], floor |-> [c \in Channels |-> Nothing]]

Stage == {"out", "hit", "wait", "ask", "put", "got"}

Init ==
    /\ up = [c \in Channels |-> 1]
    /\ entry = [c \in Channels |-> [groups |-> Nothing, fresh |-> FALSE]]
    /\ busy = {}
    /\ task = [c \in Channels |-> [s \in Slots |-> Free]]
    /\ load = [l \in Loaders |-> Idle]
    /\ failures = 0

-----------------------------------------------------------------------------
(* Requests and the background refresh *)

\* Variant: a refresh is started whether or not one is running.
ToRefresh_NoFlag(ids) == {c \in ids : ~entry[c].fresh}

\* Variant: only a missing entry is refreshed.
ToRefresh_MissingOnly(ids) == {c \in ids : entry[c].groups = Nothing /\ ~entry[c].fresh} \ busy

\* The channels of a lookup that get a refresh of their own.
ToRefresh(ids) == {c \in ids : ~entry[c].fresh} \ busy

FreeSlot(c) == CHOOSE s \in Slots : task[c][s].pc = "free"

\* loadGroupsByChannel: returns entry[c].groups for every c at once.
Lookup(ids) ==
    /\ busy' = busy \cup ToRefresh(ids)
    /\ \A c \in ToRefresh(ids) : \E s \in Slots : task[c][s].pc = "free"
    /\ task' = [c \in Channels |->
                  IF c \in ToRefresh(ids)
                  THEN [task[c] EXCEPT ![FreeSlot(c)] = [Free EXCEPT !.pc = "fetch"]]
                  ELSE task[c]]
    /\ UNCHANGED <<up, entry, load, failures>>

\* An upstream call returns the groups as they are, or fails.
Returns(c, groups) ==
    \/ groups = up[c] /\ UNCHANGED failures
    \/ groups = Nothing /\ failures < MaxFailures /\ failures' = failures + 1

\* ListAPIKeyGroups of refreshChannelGroups.
Fetch(c, s) ==
    /\ task[c][s].pc = "fetch"
    /\ \E groups \in Groups :
          /\ Returns(c, groups)
          /\ task' = [task EXCEPT ![c][s] = [pc |-> "store", groups |-> groups]]
    /\ UNCHANGED <<up, entry, busy, load>>

\* Variant: a failure is stored like an answer.
Refreshed_ForgetsOnFailure(old, groups) == groups

\* What a refresh leaves in the cache: a failure keeps the old groups.
Refreshed(old, groups) == IF groups = Nothing THEN old ELSE groups

\* Success or failure, the entry counts as fresh afterwards.
Store(c, s) ==
    /\ task[c][s].pc = "store"
    /\ entry' = [entry EXCEPT ![c] = [groups |-> Refreshed(@.groups, task[c][s].groups),
                                      fresh |-> TRUE]]
    /\ task' = [task EXCEPT ![c][s] = [pc |-> "release", groups |-> Nothing]]
    /\ UNCHANGED <<up, busy, load, failures>>

\* Variant: the flag is released only while the entry it stored is fresh.
Release_OnlyFresh(c, s) ==
    /\ task[c][s].pc = "release"
    /\ busy' = IF entry[c].fresh THEN busy \ {c} ELSE busy
    /\ task' = [task EXCEPT ![c][s] = Free]
    /\ UNCHANGED <<up, entry, load, failures>>

\* The deferred delete from channelGroupsRefreshing.
Release(c, s) ==
    /\ task[c][s].pc = "release"
    /\ busy' = busy \ {c}
    /\ task' = [task EXCEPT ![c][s] = Free]
    /\ UNCHANGED <<up, entry, load, failures>>

Refresh(c, s) == Fetch(c, s) \/ Store(c, s) \/ Release(c, s)

-----------------------------------------------------------------------------
(* Administrators and the rate scan *)

\* An answer of the upstream is on its way into the cache.
InHand(c) ==
    \/ \E s \in Slots : task[c][s].pc = "store"
    \/ \E l \in Loaders : load[l].stage[c] = "put"

\* SaveRoutes and the reordering of a group enter loadGroupsByChannelBlocking.
\* A scan has invalidated before; floor, a witness, is what it may expect to see
\* at least: nothing of a channel whose groups somebody has fetched and not stored.
Invalidate(l) ==
    /\ load[l].pc = "idle"
    /\ entry' = [c \in Channels |-> [entry[c] EXCEPT !.fresh = FALSE]]
    /\ load' = [load EXCEPT ![l].pc = "lookup",
                            ![l].floor = [c \in Channels |->
                                            IF InHand(c) THEN Nothing ELSE up[c]]]
    /\ UNCHANGED <<up, busy, task, failures>>

BeginSave(l) ==
    /\ load[l].pc = "idle"
    /\ load' = [load EXCEPT ![l].pc = "lookup"]
    /\ UNCHANGED <<up, entry, busy, task, failures>>

\* Variant: a stale entry is a hit.
Hits_Stale(ids) == {c \in ids : entry[c].groups # Nothing}

\* Entries a blocking load takes from the cache.
Hits(ids) == {c \in ids : entry[c].fresh}

\* The pass under the lock.  A single miss is fetched by the caller itself,
\* several by goroutines that wait for a semaphore.
Split(l) ==
    /\ load[l].pc = "lookup"
    /\ \E ids \in Wanted :
          LET miss == ids \ Hits(ids) IN
          load' = [load EXCEPT ![l] =
            [@ EXCEPT !.pc = IF miss = {} THEN "done" ELSE "fetch",
                      !.out = [c \in Channels |->
                                 IF c \in Hits(ids) THEN entry[c].groups ELSE Nothing],
                      !.stage = [c \in Channels |->
                                   IF c \notin ids THEN "out"
                                   ELSE IF c \notin miss THEN "hit"
                                   ELSE IF Cardinality(miss) = 1 THEN "ask" ELSE "wait"]]]
    /\ UNCHANGED <<up, entry, busy, task, failures>>

At(l, stages) == {c \in Channels : load[l].stage[c] \in stages}

\* Variant: the semaphore is not asked.
Admit_Unbounded(l, c) ==
    /\ load[l].stage[c] = "wait"
    /\ load' = [load EXCEPT ![l].stage[c] = "ask"]
    /\ UNCHANGED <<up, entry, busy, task, failures>>

\* A goroutine gets through the semaphore.
Admit(l, c) ==
    /\ load[l].stage[c] = "wait" /\ Cardinality(At(l, {"ask", "put"})) < Concurrency
    /\ load' = [load EXCEPT ![l].stage[c] = "ask"]
    /\ UNCHANGED <<up, entry, busy, task, failures>>

\* fetchOne: a failure is nil.
FetchOne(l, c) ==
    /\ load[l].stage[c] = "ask"
    /\ \E groups \in Groups :
          /\ Returns(c, groups)
          /\ load' = [load EXCEPT ![l].stage[c] = "put", ![l].out[c] = groups]
    /\ UNCHANGED <<up, entry, busy, task>>

\* storeChannelGroupsCache, nil included.
Put(l, c) ==
    /\ load[l].stage[c] = "put"
    /\ entry' = [entry EXCEPT ![c] = [groups |-> load[l].out[c], fresh |-> TRUE]]
    /\ load' = [load EXCEPT ![l].stage[c] = "got"]
    /\ UNCHANGED <<up, busy, task, failures>>

\* wg.Wait.
Join(l) ==
    /\ load[l].pc = "fetch" /\ At(l, {"wait", "ask", "put"}) = {}
    /\ load' = [load EXCEPT ![l].pc = "done"]
    /\ UNCHANGED <<up, entry, busy, task, failures>>

\* The caller has its groups and may begin another call.
Return(l) ==
    /\ load[l].pc = "done"
    /\ load' = [load EXCEPT ![l] = Idle]
    /\ UNCHANGED <<up, entry, busy, task, failures>>

LoaderStep(l) ==
    \/ Split(l) \/ Join(l) \/ Return(l)
    \/ \E c \in Channels : Admit(l, c) \/ FetchOne(l, c) \/ Put(l, c)

-----------------------------------------------------------------------------
(* The environment, and the specification *)

\* ModelsCacheTTL goes by.
Expire(c) ==
    /\ entry[c].fresh
    /\ entry' = [entry EXCEPT ![c].fresh = FALSE]
    /\ UNCHANGED <<up, busy, task, load, failures>>

\* The upstream changes the ratios of a channel.
Change(c) ==
    /\ c \in Changing /\ up[c] <= MaxVersion
    /\ up' = [up EXCEPT ![c] = @ + 1]
    /\ UNCHANGED <<entry, busy, task, load, failures>>

Next ==
    \/ \E ids \in Wanted : Lookup(ids)
    \/ \E c \in Channels, s \in Slots : Refresh(c, s)
    \/ \E l \in Loaders : Invalidate(l) \/ BeginSave(l) \/ LoaderStep(l)
    \/ \E c \in Channels : Expire(c) \/ Change(c)

Spec == Init /\ [][Next]_vars

\* channelGroupsRefreshTimeout bounds every background call and the deferred
\* release always runs.
FairSpec == Spec /\ \A c \in Channels, s \in Slots : WF_vars(Refresh(c, s))

\* In addition requests keep arriving, time goes by and administrators' calls end.
TrafficSpec ==
    /\ FairSpec
    /\ \A ids \in Wanted : WF_vars(Lookup(ids))
    /\ \A c \in Channels : WF_vars(Expire(c))
    /\ \A l \in Loaders : WF_vars(LoaderStep(l))

-----------------------------------------------------------------------------
(* Properties *)

\* The variables have their types, and a call asks the upstream about no more
\* channels at once than RouteBatchConcurrency allows.
TypeOK ==
    /\ up \in [Channels -> Version]
    /\ entry \in [Channels -> [groups : Groups, fresh : BOOLEAN]]
    /\ busy \subseteq Channels
    /\ task \in [Channels -> [Slots -> Task]]
    /\ load \in [Loaders -> [pc : {"idle", "lookup", "fetch", "done"},
                             stage : [Channels -> Stage], out : [Channels -> Groups],
                             floor : [Channels -> Groups]]]
    /\ failures \in 0..MaxFailures
    /\ \A l \in Loaders : Cardinality(At(l, {"ask", "put"})) <= Concurrency

Running(c) == {s \in Slots : task[c][s].pc # "free"}

\* "One background refresh per channel at a time": the flag is up exactly while
\* one goroutine works for the channel.
SingleFlight ==
    \A c \in Channels : /\ c \in busy <=> Running(c) # {}
                        /\ \A s, t \in Running(c) : s = t

\* A refresh that has begun gives the channel free again: no channel is left
\* that nobody will ever refresh.
RefreshEnds == \A c \in Channels : c \in busy ~> c \notin busy

\* "A stale entry still returns its old value": known ratios are forgotten only
\* when a blocking load fails, never by a refresh.
RefreshKeepsRatios ==
    [][\A c \in Channels : entry[c].groups # Nothing /\ entry'[c].groups = Nothing =>
         \E l \in Loaders : load[l].stage[c] = "put" /\ load'[l].stage[c] = "got"]_vars

\* "Synchronous paths fetch the ratios after the scan": what a scan reorders by
\* is no older than its own invalidation, unless a call failed (its old answer
\* counts as fresh again) or another one was just about to be stored.
ResortSeesScan ==
    \A l \in Loaders : load[l].pc = "done" /\ failures = 0 =>
        \A c \in At(l, {"hit", "got"}) :
            load[l].out[c] # Nothing => load[l].out[c] >= load[l].floor[c]

\* Requests end up with the current ratios once the upstream stops changing them.
EventuallyCurrent == \A c \in Channels : <>[](entry[c].groups = up[c])
=============================================================================
