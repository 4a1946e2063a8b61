------------------------------ MODULE NotifyForm ------------------------------
(***************************************************************************)
(* The dialog of a notification channel: its configuration, of which the   *)
(* server never gives back a word, and its subscription rules, which the   *)
(* page shows as rows and the dispatcher matches against every message.    *)
(* Row and rule are different shapes of one wish: the page translates at   *)
(* each opening and at each save, and the dispatcher reads the rules.      *)
(*                                                                         *)
(* One notification channel of one type; of a configuration's fields,      *)
(* KeyFields are those handleSubmit looks at to tell whether the user      *)
(* typed a configuration.  Upstream channels may be deleted meanwhile.     *)
(***************************************************************************)
EXTENDS Naturals, Sequences, FiniteSets

CONSTANTS
    Upstreams, RateEvents, OtherEvents, Groups,
    KeyFields, SideFields, Values, Blank,
    MaxRules, MaxClicks

VARIABLES
    upstreams,   \* the upstream channels there are
    stored,      \* the notification channel's row: there, cfg, rules
    open, form,  \* the dialog and its cfg and subs
    submitting, call,
    shown,       \* history: the rows of the form that wrote the stored rules
    clicks

vars == <<upstreams, stored, open, form, submitting, call, shown, clicks>>

Events == RateEvents \cup OtherEvents
Fields == KeyFields \cup SideFields
EmptyConfig == [f \in Fields |-> Blank]
Configs == [Fields -> Values \cup {Blank}]

Row == [channels : SUBSET Upstreams, eventMode : {"all", "custom"}, events : SUBSET Events,
        mode : {"all", "groups"}, groups : SUBSET Groups]
Rule == [channels : SUBSET Upstreams, events : SUBSET Events,
         mode : {"all", "groups"}, groups : SUBSET Groups]
NewRow == [channels |-> {}, eventMode |-> "all", events |-> {}, mode |-> "all", groups |-> {}]

HasRateEvents(row) == row.eventMode = "all" \/ row.events \cap RateEvents # {}

\* A row as the save writes it, and a rule as the dialog opens it.
RuleOf(row) ==
    LET mode == IF HasRateEvents(row) THEN row.mode ELSE "all"
    IN  [channels |-> row.channels, mode |-> mode,
         groups |-> IF mode = "groups" THEN row.groups ELSE {},
         events |-> IF row.eventMode = "custom" THEN row.events ELSE {}]
\* Mutant: a rule without groups opens as one for all of them.
RowOf_GroupsIfAny(rule) ==
    [channels |-> rule.channels, eventMode |-> IF rule.events # {} THEN "custom" ELSE "all",
     events |-> rule.events, mode |-> IF rule.groups # {} THEN "groups" ELSE "all",
     groups |-> rule.groups]
RowOf(rule) ==
    [channels |-> rule.channels, eventMode |-> IF rule.events # {} THEN "custom" ELSE "all",
     events |-> rule.events, mode |-> rule.mode, groups |-> rule.groups]
InitialState ==
    [cfg |-> EmptyConfig, subs |-> [i \in DOMAIN stored.rules |-> RowOf(stored.rules[i])]]

-----------------------------------------------------------------------------
\* What the dispatcher makes of the rules.  A message names its upstream channel
\* (NoUpstream for the program's own), its event and, for a rate, its group.
NoUpstream == "none"
Message == [upstream : Upstreams \cup {NoUpstream}, event : Events, group : Groups]
Matches(rule, m) ==
    /\ rule.events = {} \/ m.event \in rule.events
    /\ m.upstream # NoUpstream =>
        /\ m.upstream \in rule.channels
        /\ m.event \in RateEvents /\ rule.mode = "groups" => m.group \in rule.groups
Receives(rules, m) == rules = <<>> \/ \E i \in DOMAIN rules : Matches(rules[i], m)

\* What the page says: a row is its channels and its events, for a rate its groups.
RowWants(row, m) ==
    /\ m.upstream \in row.channels
    /\ row.eventMode = "all" \/ m.event \in row.events
    /\ m.event \in RateEvents => row.mode = "all" \/ m.group \in row.groups
Wanted(subs, m) == subs = <<>> \/ \E i \in DOMAIN subs : RowWants(subs[i], m)

-----------------------------------------------------------------------------
NoCall == [cfg |-> EmptyConfig, typed |-> FALSE, subs |-> <<>>, state |-> "none"]

TypeOK ==
    /\ upstreams \subseteq Upstreams
    /\ stored.there \in BOOLEAN /\ stored.cfg \in Configs /\ stored.rules \in Seq(Rule)
    /\ open \in BOOLEAN /\ submitting \in BOOLEAN
    /\ form.cfg \in Configs /\ form.subs \in Seq(Row) /\ Len(form.subs) <= MaxRules
    /\ call.state \in {"none", "sent", "written", "failed"}
    /\ clicks \in 0..MaxClicks

\* A stored channel is configured; its rules may come from another client of the API.
Init ==
    /\ upstreams = Upstreams
    /\ \E there \in BOOLEAN, v \in Values :
        \E rules \in IF there THEN {<<>>} \cup {<<r>> : r \in Rule} ELSE {<<>>} :
            stored = [there |-> there, rules |-> rules,
                      cfg |-> IF there THEN [f \in Fields |-> v] ELSE EmptyConfig]
    /\ open = FALSE /\ form = [cfg |-> EmptyConfig, subs |-> <<>>]
    /\ submitting = FALSE /\ call = NoCall
    /\ shown = [i \in DOMAIN stored.rules |-> RowOf(stored.rules[i])]
    /\ clicks = 0

Click == clicks < MaxClicks /\ clicks' = clicks + 1

\* The list's buttons open the dialog, which starts from the row it is given.
OpenDialog ==
    /\ Click /\ ~open
    /\ open' = TRUE /\ form' = InitialState
    /\ UNCHANGED <<upstreams, stored, submitting, call, shown>>
\* Escape closes it at any time.
CloseDialog ==
    /\ Click /\ open
    /\ open' = FALSE
    /\ UNCHANGED <<upstreams, stored, form, submitting, call, shown>>

Edit(new) ==
    /\ Click /\ open /\ ~submitting
    /\ form' = new
    /\ UNCHANGED <<upstreams, stored, open, submitting, call, shown>>
EditRow(i, new) == Edit([form EXCEPT !.subs[i] = new])
Rows == DOMAIN form.subs

TypeConfig == \E f \in Fields, v \in Values \cup {Blank} : Edit([form EXCEPT !.cfg[f] = v])
AddSub == Len(form.subs) < MaxRules /\ Edit([form EXCEPT !.subs = Append(@, NewRow)])
RemoveSub ==
    \E i \in Rows :
        Edit([form EXCEPT !.subs = SubSeq(@, 1, i - 1) \o SubSeq(@, i + 1, Len(@))])
\* The list offers the channels there are: one is toggled, or all, or none.  The
\* identifier of a deleted channel stays until all or none is chosen.
SelectChannels ==
    \E i \in Rows : LET row == form.subs[i] IN
        \/ \E u \in upstreams : EditRow(i, [row EXCEPT !.channels = IF u \in @ THEN @ \ {u} ELSE @ \cup {u}])
        \/ upstreams # {} /\ \E all \in {{}, upstreams} : EditRow(i, [row EXCEPT !.channels = all])
SetEventMode ==
    \E i \in Rows, mode \in {"all", "custom"} : LET row == form.subs[i] IN
        EditRow(i, [row EXCEPT !.eventMode = mode, !.events = IF mode = "all" THEN {} ELSE @])
ToggleEvents ==
    \E i \in Rows : LET row == form.subs[i] IN
        /\ row.eventMode = "custom"
        /\ \/ \E e \in Events : EditRow(i, [row EXCEPT !.events = IF e \in @ THEN @ \ {e} ELSE @ \cup {e}])
           \/ \E all \in {{}, Events} : EditRow(i, [row EXCEPT !.events = all])
SetMode ==
    \E i \in Rows, mode \in {"all", "groups"} : LET row == form.subs[i] IN
        HasRateEvents(row) /\ EditRow(i, [row EXCEPT !.mode = mode, !.groups = {}])
\* The groups offered are those the chosen channels had rates for: any of them.
ToggleGroups ==
    \E i \in Rows : LET row == form.subs[i] IN
        /\ HasRateEvents(row) /\ row.mode = "groups" /\ row.channels # {}
        /\ \/ \E g \in Groups : EditRow(i, [row EXCEPT !.groups = IF g \in @ THEN @ \ {g} ELSE @ \cup {g}])
           \/ \E all \in {{}, Groups} : EditRow(i, [row EXCEPT !.groups = all])

-----------------------------------------------------------------------------
\* Mutant: a save always sends the configuration.
HasConfigInput_Always(cfg) == TRUE
HasConfigInput(cfg) == \E f \in KeyFields : cfg[f] # Blank

\* The form's own checks: a configuration when the channel is new, and no row that
\* cannot be meant.
\* Mutant: the events of a custom row are not checked.
Complete_NoEventCheck(row) == row.channels # {}
Complete(row) == row.channels # {} /\ ~(row.eventMode = "custom" /\ row.events = {})
Submittable ==
    /\ \A i \in Rows : Complete(form.subs[i])
    /\ stored.there \/ \A f \in KeyFields : form.cfg[f] # Blank

\* A refused submit only shows its error; otherwise one request is sent, with the
\* configuration if the channel is new or one was typed.
HandleSubmit ==
    /\ Click /\ open /\ ~submitting /\ Submittable
    /\ submitting' = TRUE
    /\ call' = [cfg |-> form.cfg, typed |-> ~stored.there \/ HasConfigInput(form.cfg),
                subs |-> form.subs, state |-> "sent"]
    /\ UNCHANGED <<upstreams, stored, open, form, shown>>
\* createNotifyChannel and updateNotifyChannel.
WriteChannel ==
    /\ call.state = "sent"
    /\ stored' = [there |-> TRUE, cfg |-> IF call.typed THEN call.cfg ELSE stored.cfg,
                  rules |-> [i \in DOMAIN call.subs |-> RuleOf(call.subs[i])]]
    /\ shown' = call.subs
    /\ call' = [call EXCEPT !.state = "written"]
    /\ UNCHANGED <<upstreams, open, form, submitting, clicks>>
Refused ==
    /\ call.state = "sent"
    /\ call' = [call EXCEPT !.state = "failed"]
    /\ UNCHANGED <<upstreams, stored, open, form, submitting, shown, clicks>>
\* The answer closes whatever dialog is open; an error stays in it.
SubmitAnswered ==
    /\ call.state \in {"written", "failed"}
    /\ open' = (open /\ call.state = "failed")
    /\ submitting' = FALSE /\ call' = NoCall
    /\ UNCHANGED <<upstreams, stored, form, shown, clicks>>

\* Somebody deletes an upstream channel; no rule is touched.
DropUpstream ==
    /\ Click
    /\ \E u \in upstreams : upstreams' = upstreams \ {u}
    /\ UNCHANGED <<stored, open, form, submitting, call, shown>>

Next ==
    \/ OpenDialog \/ CloseDialog
    \/ TypeConfig \/ AddSub \/ RemoveSub \/ SelectChannels
    \/ SetEventMode \/ ToggleEvents \/ SetMode \/ ToggleGroups
    \/ HandleSubmit \/ WriteChannel \/ Refused \/ SubmitAnswered
    \/ DropUpstream

Spec == Init /\ [][Next]_vars

-----------------------------------------------------------------------------
\* The dispatcher sends the channel exactly the messages of upstream channels that
\* the rows which were saved asked for, and the dialog, opened again, shows rows
\* that ask for the same: no translation widens or narrows a subscription.
SavedMeansShown ==
    stored.there => \A m \in Message :
        m.upstream # NoUpstream =>
            /\ Receives(stored.rules, m) <=> Wanted(shown, m)
            /\ Receives(stored.rules, m) <=> Wanted(InitialState.subs, m)

\* A row the page saved is never silently deaf: it wants some message of an upstream
\* there is, or the page warned that no group was ticked, or its channels are gone.
Warned(row) == HasRateEvents(row) /\ row.mode = "groups" /\ row.groups = {} /\ row.channels # {}
DeafRulesAreAnnounced ==
    call.state = "written" => \A i \in DOMAIN shown :
        \/ \E m \in Message : m.upstream \in upstreams /\ RowWants(shown[i], m)
        \/ Warned(shown[i])
        \/ shown[i].channels # {} /\ shown[i].channels \cap upstreams = {}

\* Saving the rules or the name of a configured channel, with no key field typed,
\* leaves its configuration alone: the dialog opens with every field empty, so a
\* save that always sent them would erase the channel's credentials.
ConfigStep ==
    stored.there /\ stored'.cfg # stored.cfg => \E f \in KeyFields : call.cfg[f] # Blank
ConfigOnlyByTyping == [][ConfigStep]_vars

\* The note under each field of an edited channel: left empty, it keeps its value.
LeftEmptyKeepsValue ==
    [][ stored.there /\ stored' # stored =>
            \A f \in Fields : call.cfg[f] = Blank => stored'.cfg[f] = stored.cfg[f] ]_vars

\* What carries ConfigStep from step to step.
CallInv == call.state = "sent" /\ call.typed /\ stored.there => HasConfigInput(call.cfg)
=============================================================================
