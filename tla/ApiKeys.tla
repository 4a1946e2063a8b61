------------------------------- MODULE ApiKeys -------------------------------
(***************************************************************************)
(* The dialog of an upstream channel's API keys: a table of the keys, the  *)
(* form that creates and edits them, the migration of a key to a group,    *)
(* the keys' secrets shown on demand.  One dialog serves every channel,    *)
(* and identifiers of keys are the upstreams' own, so that two channels    *)
(* have keys of the same number.  Answers of the table's and the groups'   *)
(* requests are dropped once the dialog has moved on; those of the writes  *)
(* and of the secrets are not.                                             *)
(*                                                                         *)
(* Of a key its group is kept.  Search, status filter and pages only ask   *)
(* the table's question again.                                             *)
(***************************************************************************)
EXTENDS Naturals, FiniteSets

CONSTANTS
    Channels, NoChannel,
    Ids, Groups,
    NoGroup, Absent,      \* a key in no group; no key
    MaxCalls, MaxClicks

VARIABLES
    keys,         \* the upstreams: the group of each key of each channel
    channel,      \* whose keys the dialog shows, NoChannel when it is closed
    target,       \* initialAction: its type ("none" if absent) and its group
    mode, editing, formGroup, selected,
    items,        \* the table's rows and, as a history, the channel they came from
    loading, listError,
    groups, groupsLoading, groupsError,
    revealed,     \* the secret shown for each id, as the channel it belongs to
    submitting, asking, calls, clicks,
    validated,    \* history: the target was in a list of this opening
    late          \* history: a secret arrived after the dialog had moved on

vars == <<keys, channel, target, mode, editing, formGroup, selected, items, loading, listError,
          groups, groupsLoading, groupsError, revealed, submitting, asking, calls, clicks,
          validated, late>>
tableVars == <<items, loading, listError>>
groupVars == <<groups, groupsLoading, groupsError, validated>>
formVars == <<mode, editing, formGroup, selected>>

NoId == 0
NoRows == [i \in Ids |-> Absent]
Keys == [Ids -> Groups \cup {NoGroup, Absent}]
NoTarget == [type |-> "none", group |-> NoGroup]
Target == [type : {"create", "migrate"}, group : Groups] \cup {NoTarget}

\* row: the channel of the row the request was made from.
Call(op, id, g) ==
    [op |-> op, ch |-> channel, id |-> id, group |-> g, row |-> items.of, state |-> "sent"]
Writes == {"create", "edit", "migrate"}
Nobody == [Call("none", NoId, NoGroup) EXCEPT !.ch = NoChannel, !.row = NoChannel]

TypeOK ==
    /\ keys \in [Channels -> Keys]
    /\ channel \in Channels \cup {NoChannel} /\ target \in Target
    /\ mode \in {"list", "create", "edit", "migrate"}
    /\ editing \in Ids \cup {NoId} /\ selected \in Ids \cup {NoId}
    /\ formGroup \in Groups \cup {NoGroup}
    /\ items.of \in Channels \cup {NoChannel} /\ items.rows \in Keys
    /\ groups \subseteq Groups
    /\ revealed \in [Ids -> Channels \cup {NoChannel}]
    /\ \A b \in {loading, listError, groupsLoading, groupsError, submitting} : b \in BOOLEAN
    /\ asking.op \in {"none", "migrate", "delete"}
    /\ Cardinality(calls) <= MaxCalls + 2 /\ clicks \in 0..MaxClicks

Init ==
    /\ keys \in [Channels -> Keys]
    /\ channel = NoChannel /\ target = NoTarget
    /\ mode = "list" /\ editing = NoId /\ formGroup = NoGroup /\ selected = NoId
    /\ items = [of |-> NoChannel, rows |-> NoRows] /\ loading = FALSE /\ listError = FALSE
    /\ groups = {} /\ groupsLoading = FALSE /\ groupsError = FALSE
    /\ revealed = [i \in Ids |-> NoChannel]
    /\ submitting = FALSE /\ asking = Nobody /\ calls = {} /\ clicks = 0
    /\ validated = FALSE /\ late = FALSE

Open == channel # NoChannel
Click == clicks < MaxClicks /\ clicks' = clicks + 1
Button == Click /\ Open /\ asking = Nobody
Room == Cardinality({c \in calls : c.op \notin {"list", "groups"}}) < MaxCalls

\* Mutant: an answer that comes after the dialog has moved on is used.
Cancel_Nothing(op) == calls
\* An effect runs again: the request before it is cancelled, and a cancelled request
\* changes nothing any more.
Cancel(op) == {c \in calls : c.op # op}

\* The table's effect runs in the list and for a migration; the next mode leaves the
\* request of the last one behind.
Listing(m) == m \in {"list", "migrate"}
LoadKeys(base, ch, m) ==
    /\ calls' = base \cup IF Listing(m)
                          THEN {[op |-> "list", ch |-> ch, id |-> NoId, group |-> NoGroup,
                                 row |-> NoChannel, state |-> "sent"]}
                          ELSE {}
    /\ loading' = Listing(m) /\ listError' = FALSE /\ UNCHANGED items
GroupsCall(ch) ==
    [op |-> "groups", ch |-> ch, id |-> NoId, group |-> NoGroup, row |-> NoChannel, state |-> "sent"]

\* Mutant: the secrets shown in the last opening stay.
NoSecrets_Kept == revealed
NoSecrets == [i \in Ids |-> NoChannel]

\* A channel's button, or a group's: the dialog starts afresh and asks for groups and keys.
OpenDialog ==
    /\ Click /\ ~Open
    /\ channel' \in Channels /\ target' \in Target
    /\ mode' = IF target' = NoTarget THEN "list" ELSE target'.type
    /\ editing' = NoId /\ selected' = NoId
    /\ formGroup' = IF target'.type = "create" THEN target'.group ELSE NoGroup
    /\ revealed' = NoSecrets
    /\ groups' = {} /\ groupsLoading' = TRUE /\ groupsError' = FALSE /\ validated' = FALSE
    /\ LoadKeys((Cancel("list") \ {c \in calls : c.op = "groups"}) \cup {GroupsCall(channel')},
                channel', mode')
    /\ UNCHANGED <<keys, submitting, asking, late>>

\* Closed by its buttons or by Escape: the effects' requests are cancelled.
Closed(left) ==
    /\ channel' = NoChannel /\ target' = NoTarget
    /\ calls' = left \ {c \in calls : c.op = "groups"}
    /\ UNCHANGED <<keys, mode, editing, formGroup, selected, items, loading, listError, groups,
                   groupsLoading, groupsError, validated, revealed, asking>>
CloseDialog == Button /\ Closed(Cancel("list")) /\ UNCHANGED <<submitting, late>>

KeysAnswered ==
    \E c \in calls :
        /\ c.op = "list" /\ calls' = calls \ {c}
        /\ \/ items' = [of |-> c.ch, rows |-> keys[c.ch]] /\ UNCHANGED listError
           \/ listError' = TRUE /\ UNCHANGED items
        /\ loading' = FALSE
        /\ UNCHANGED <<keys, channel, target, formVars, groupVars, revealed, submitting, asking,
                       clicks, late>>
GroupsAnswered ==
    \E c \in calls :
        /\ c.op = "groups" /\ calls' = calls \ {c}
        /\ \/ groups' \in SUBSET Groups /\ groupsError' = FALSE
           \/ groups' = {} /\ groupsError' = TRUE
        /\ validated' = (validated \/ target.group \in groups')
        /\ groupsLoading' = FALSE
        /\ UNCHANGED <<keys, channel, target, formVars, tableVars, revealed, submitting, asking,
                       clicks, late>>

\* Search, filter, pages and the retry button ask for the table again.
Reload ==
    /\ Button /\ Listing(mode) /\ ~loading
    /\ LoadKeys(Cancel("list"), channel, mode)
    /\ UNCHANGED <<keys, channel, target, formVars, groupVars, revealed, submitting, asking, late>>
RetryGroups ==
    /\ Button /\ mode # "list" /\ ~groupsLoading
    /\ groupsLoading' = TRUE /\ groupsError' = FALSE
    /\ calls' = calls \cup {GroupsCall(channel)}
    /\ UNCHANGED <<keys, channel, target, formVars, tableVars, groups, validated, revealed,
                   submitting, asking, late>>

-----------------------------------------------------------------------------
\* Mutant: a target is good once the groups are there.
LiveTarget_Loaded == ~groupsLoading
LiveTarget == target.group \in groups
\* What keeps the form's and the migration's buttons disabled.
TargetRefused == target # NoTarget /\ mode \in {"create", "migrate"} /\ (groupsError \/ ~LiveTarget)
Rows == {i \in Ids : ~loading /\ items.rows[i] # Absent}

OpenCreate ==
    /\ Button /\ mode = "list"
    /\ mode' = "create" /\ editing' = NoId
    /\ IF target.type = "create" THEN formGroup' = target.group
       ELSE IF groups = {} THEN formGroup' = NoGroup ELSE formGroup' \in groups
    /\ LoadKeys(Cancel("list"), channel, "create")
    /\ UNCHANGED <<keys, channel, target, selected, groupVars, revealed, submitting, asking, late>>
OpenEdit ==
    /\ Button /\ mode = "list"
    /\ \E i \in Rows : mode' = "edit" /\ editing' = i /\ formGroup' = items.rows[i]
    /\ LoadKeys(Cancel("list"), channel, "edit")
    /\ UNCHANGED <<keys, channel, target, selected, groupVars, revealed, submitting, asking, late>>
BackToList ==
    /\ Button /\ mode \in {"create", "edit"} /\ ~submitting
    /\ mode' = "list" /\ editing' = NoId
    /\ LoadKeys(Cancel("list"), channel, "list")
    /\ UNCHANGED <<keys, channel, target, formGroup, selected, groupVars, revealed, submitting,
                   asking, late>>
\* The group's field is locked for a target; the other fields are not kept.
EditForm ==
    /\ Button /\ mode \in {"create", "edit"} /\ ~submitting /\ ~groupsLoading
    /\ ~(mode = "create" /\ target.type = "create")
    /\ formGroup' \in groups
    /\ UNCHANGED <<keys, channel, target, mode, editing, selected, tableVars, groupVars, revealed,
                   submitting, asking, calls, late>>
SelectKey ==
    /\ Button /\ mode = "migrate" /\ ~groupsLoading /\ ~TargetRefused
    /\ \E i \in Rows : items.rows[i] # target.group /\ selected' = i
    /\ UNCHANGED <<keys, channel, target, mode, editing, formGroup, tableVars, groupVars, revealed,
                   submitting, asking, calls, late>>

HandleSubmit ==
    /\ Button /\ mode \in {"create", "edit"} /\ ~submitting /\ ~groupsLoading /\ ~TargetRefused
    /\ Room
    /\ submitting' = TRUE /\ calls' = calls \cup {Call(mode, editing, formGroup)}
    /\ UNCHANGED <<keys, channel, target, formVars, tableVars, groupVars, revealed, asking, late>>

\* A migration and a deletion ask for confirmation first.
Ask(op, i, g) ==
    /\ Button /\ asking' = Call(op, i, g)
    /\ UNCHANGED <<keys, channel, target, formVars, tableVars, groupVars, revealed, submitting,
                   calls, late>>
MigrateSelectedKey ==
    /\ mode = "migrate" /\ ~submitting /\ ~groupsLoading /\ ~TargetRefused /\ selected # NoId
    /\ Ask("migrate", selected, target.group)
DeleteKey == mode = "list" /\ \E i \in Rows : Ask("delete", i, NoGroup)
Confirm ==
    /\ Click /\ asking # Nobody /\ Room
    /\ asking' = Nobody
    /\ \/ UNCHANGED <<submitting, calls>>
       \/ /\ submitting' = (submitting \/ asking.op = "migrate")
          /\ calls' = calls \cup {asking}
    /\ UNCHANGED <<keys, channel, target, formVars, tableVars, groupVars, revealed, late>>
\* Asks for a secret that is not there yet.
RevealKey ==
    /\ Button /\ mode = "list" /\ Room
    /\ \E i \in Rows : revealed[i] = NoChannel /\ calls' = calls \cup {Call("reveal", i, NoGroup)}
    /\ UNCHANGED <<keys, channel, target, formVars, tableVars, groupVars, revealed, submitting,
                   asking, late>>

-----------------------------------------------------------------------------
\* The upstream does it, or refuses; it has no key of the number, or takes the next.
Handled ==
    \E c \in calls : c.state = "sent" /\ c.op \notin {"list", "groups"} /\
        \/ /\ calls' = (calls \ {c}) \cup {[c EXCEPT !.state = "failed"]}
           /\ UNCHANGED keys
        \/ \E i \in Ids :
            /\ IF c.op = "create" THEN keys[c.ch][i] = Absent
               ELSE i = c.id /\ keys[c.ch][i] # Absent
            /\ calls' = (calls \ {c}) \cup {[c EXCEPT !.state = "done", !.id = i]}
            /\ keys' = CASE c.op = "reveal" -> keys
                         [] c.op = "delete" -> [keys EXCEPT ![c.ch][i] = Absent]
                         [] OTHER -> [keys EXCEPT ![c.ch][i] = c.group]
HandledStep ==
    /\ Handled
    /\ UNCHANGED <<channel, target, formVars, tableVars, groupVars, revealed, submitting, asking,
                   clicks, validated, late>>

\* A key is written: back to the list, wherever the dialog is by now, with the new
\* key's secret shown.
SaveAnswered ==
    \E c \in calls :
        /\ c.state = "done" /\ c.op \in {"create", "edit"}
        /\ mode' = "list" /\ editing' = NoId /\ formGroup' = NoGroup /\ submitting' = FALSE
        /\ IF c.op = "create"
           THEN revealed' = [revealed EXCEPT ![c.id] = c.ch] /\ late' = (late \/ c.ch # channel)
           ELSE UNCHANGED <<revealed, late>>
        /\ IF Open THEN LoadKeys(Cancel("list") \ {c}, channel, "list")
           ELSE calls' = calls \ {c} /\ UNCHANGED tableVars
        /\ UNCHANGED <<keys, channel, target, selected, groupVars, asking, clicks>>
\* A key is migrated: whatever dialog is open closes.
MigrateAnswered ==
    \E c \in calls :
        /\ c.state = "done" /\ c.op = "migrate"
        /\ Closed(Cancel("list") \ {c}) /\ submitting' = FALSE
        /\ UNCHANGED <<late, clicks>>
DeleteAnswered ==
    \E c \in calls :
        /\ c.state = "done" /\ c.op = "delete"
        /\ IF Open /\ Listing(mode) THEN LoadKeys(Cancel("list") \ {c}, channel, mode)
           ELSE calls' = calls \ {c} /\ UNCHANGED tableVars
        /\ UNCHANGED <<keys, channel, target, formVars, groupVars, revealed, submitting, asking,
                       clicks, late>>
RevealAnswered ==
    \E c \in calls :
        /\ c.state = "done" /\ c.op = "reveal"
        /\ calls' = calls \ {c}
        /\ revealed' = [revealed EXCEPT ![c.id] = c.ch] /\ late' = (late \/ c.ch # channel)
        /\ UNCHANGED <<keys, channel, target, formVars, tableVars, groupVars, submitting, asking,
                       clicks>>
\* A failure is shown; the button of a write comes back.
Failed ==
    \E c \in calls :
        /\ c.state = "failed" /\ calls' = calls \ {c}
        /\ submitting' = (submitting /\ c.op \notin Writes)
        /\ UNCHANGED <<keys, channel, target, formVars, tableVars, groupVars, revealed, asking,
                       clicks, late>>

Next ==
    \/ OpenDialog \/ CloseDialog \/ KeysAnswered \/ GroupsAnswered \/ Reload \/ RetryGroups
    \/ OpenCreate \/ OpenEdit \/ BackToList \/ EditForm \/ SelectKey
    \/ HandleSubmit \/ MigrateSelectedKey \/ DeleteKey \/ Confirm \/ RevealKey
    \/ HandledStep \/ SaveAnswered \/ MigrateAnswered \/ DeleteAnswered \/ RevealAnswered \/ Failed

Spec == Init /\ [][Next]_vars

-----------------------------------------------------------------------------
\* A key is created in, or migrated to, the group the dialog was opened for only
\* after a list of this channel's groups named it: a group that the channel lost
\* since its rates were scanned is not written to.
TargetStep ==
    \A c \in calls' \ calls :
        c.state = "sent" /\ c.op \in {"create", "migrate"} /\ target # NoTarget => validated
TargetWasValidated == [][TargetStep]_vars

\* A row is shown as a key of the channel it was loaded from, or the table says that
\* this channel's keys could not be loaded.
StaleRowsHaveAnError ==
    Open /\ Listing(mode) /\ ~loading => items.of = channel \/ listError

\* The secret shown for a key is that channel's key, unless one arrived after the
\* dialog had moved to another channel, whose key of the same number then shows it.
SecretIsThisChannels ==
    Open /\ ~late => \A i \in Ids : revealed[i] \in {NoChannel, channel}

-----------------------------------------------------------------------------
\* What carries SecretIsThisChannels and TargetStep from step to step: one write is
\* under way at a time, and a migration waits for its confirmation in the opening, and
\* for the group, it was asked in.
IsCall(c) == c \in [op : {c.op}, ch : Channels \cup {NoChannel}, id : {c.id}, group : {c.group},
                   row : {c.row}, state : {c.state}]
TargetTypes ==
    /\ channel \in Channels \cup {NoChannel} /\ revealed \in [Ids -> Channels \cup {NoChannel}]
    /\ submitting \in BOOLEAN /\ validated \in BOOLEAN /\ late \in BOOLEAN
    /\ IsCall(asking) /\ asking.op \in {"none", "migrate", "delete"} /\ \A c \in calls : IsCall(c)
OneWrite ==
    /\ \A c, d \in calls : c.op \in Writes /\ d.op \in Writes => c = d
    /\ ~submitting => \A c \in calls : c.op \notin Writes
TargetIsChecked ==
    /\ target # NoTarget /\ target.group \in groups => validated
    /\ asking.op = "migrate" => Open /\ ~submitting /\ (target # NoTarget => validated)
TargetInv == TargetTypes /\ OneWrite /\ TargetIsChecked /\ SecretIsThisChannels
=============================================================================
