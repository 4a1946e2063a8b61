------------------------- MODULE MCSourceGroupCache -------------------------
(***************************************************************************)
(* What the gateway keeps of its upstream channels, one run for both       *)
(* machines: the cached groups, and the keys it makes there.  The initial  *)
(* state chooses which runs, and the other stays where it is.              *)
(***************************************************************************)
EXTENDS SourceGroupCache

CONSTANTS SourceGroups, Routes, Calls, RoutesOf, KeySlots,
          MaxCalls, MaxEdits, MaxErrors,  \* EnsureKeys
          First, Second, Fixed            \* two gateway groups; routes that start alike

VARIABLES
    part,                                                \* who runs
    remote, bound, running, work, most, begun, edits, errors   \* EnsureKeys

\* Every request asks for the channels of one gateway group.  There is a call for the
\* keys of each of two gateway groups.
MCWanted == {Channels}
MCRoutesOf == [c \in Calls |-> IF c \in First THEN Routes \ Second ELSE Second]

Ensure == INSTANCE EnsureKeys WITH Groups <- SourceGroups, Concurrency <- KeySlots

ASSUME Ensure!EnsureAssumption

ensureVars == <<remote, bound, running, work, most, begun, edits, errors>>
allVars == <<part, vars, ensureVars>>

EnsureIdle == /\ Ensure!Init /\ remote = <<>>
              /\ \A rt \in Routes : bound[rt].group = CHOOSE g \in SourceGroups : TRUE

\* Some routes start in one group and stay there; only they may have a key of old,
\* and only a single one of these was made for another group.
FewKeys ==
    /\ \A rt \in Fixed : bound[rt].group = CHOOSE g \in SourceGroups : TRUE
    /\ \A rt \in Routes \ Fixed : bound[rt].key = Ensure!NoKey
    /\ \/ Cardinality(DOMAIN remote) <= 1
       \/ \A k \in DOMAIN remote : remote[k].group = bound[remote[k].name].group

MCInit ==
    \/ part = "groups" /\ Init /\ EnsureIdle
    \/ part = "keys" /\ Init /\ Ensure!Init /\ FewKeys

\* A behaviour with keys has a moved route or a failing request, not both.
MCNext ==
    /\ UNCHANGED part
    /\ \/ part = "groups" /\ Next /\ UNCHANGED ensureVars
       \/ /\ part = "keys" /\ Ensure!Next /\ UNCHANGED vars
          /\ 0 \in {edits', errors'} /\ \A rt \in Fixed : bound'[rt].group = bound[rt].group

\* The fairness of TrafficSpec, where the cache runs.
MCSpec ==
    /\ MCInit /\ [][MCNext]_allVars
    /\ Ensure!Fairness
    /\ \A c \in Channels, s \in Slots : WF_vars(part = "groups" /\ Refresh(c, s))
    /\ \A ids \in Wanted : WF_vars(part = "groups" /\ Lookup(ids))
    /\ \A c \in Channels : WF_vars(part = "groups" /\ Expire(c))
    /\ \A l \in Loaders : WF_vars(part = "groups" /\ LoaderStep(l))

\* The properties, as the modules of the parts state and explain them.
TypesOK == TypeOK /\ Ensure!TypeOK

\* A name has no more keys at the upstream than calls that met at it, and the key of a
\* route serves the route's group.
KeysAreSound == Ensure!KeysAreSound

\* Refreshes end, their ratios arrive at the requests, and so do calls for keys.
WorkEnds ==
    /\ RefreshEnds /\ (part = "groups" => EventuallyCurrent)
    /\ Ensure!CallEnds
=============================================================================
