------------------------------ MODULE KeyRules ------------------------------
(***************************************************************************)
(* Rules of a gateway group that are meant for selected keys: a system     *)
(* prompt to inject, and what to do with a service tier.  The console      *)
(* edits drafts of them; UpdateGroup reads the group's row, checks, and    *)
(* saves the row whole, while DeleteKey takes the key out of the prompt    *)
(* rules in one transaction with its deletion.                             *)
(*                                                                         *)
(* One rule of each kind stands for the list.  What a rule does to the     *)
(* body of a request is left out, and so are its models and tiers.         *)
(***************************************************************************)
EXTENDS Naturals, FiniteSets

CONSTANTS
    Keys,          \* ids of keys
    MaxCalls, MaxClicks

VARIABLES
    exists, used,  \* the keys of the group, and the ids given out
    row,           \* the rules in the group's row
    listed,        \* keys: the page's list
    draft,         \* systemPromptRules and serviceTierRules of the page
    busy,
    calls, clicks

vars == <<exists, used, row, listed, draft, busy, calls, clicks>>

Rule == [scope : {"all", "selected"}, ids : SUBSET Keys]
Kinds == {"prompt", "tier"}
Everyone == [scope |-> "all", ids |-> {}]

\* systemPromptRuleAppliesToKey and serviceTierRuleHasKey.
Applies(rule, k) == rule.scope = "all" \/ k \in rule.ids

\* rule: the one to be saved, or the row once it was read; key: to be deleted.
Call(op, rule, ids, hold) ==
    [op |-> op, rule |-> rule, ids |-> ids, holds |-> hold, state |-> "sent",
     row |-> [kind \in Kinds |-> Everyone]]

TypeOK ==
    /\ exists \subseteq used /\ used \subseteq Keys /\ listed \subseteq Keys
    /\ row \in [Kinds -> Rule] /\ draft \in [Kinds -> Rule]
    /\ busy \in BOOLEAN
    /\ \A c \in calls : c.rule \in Rule /\ c.row \in [Kinds -> Rule] /\ c.ids \subseteq Keys
    /\ clicks \in 0..MaxClicks

\* The group as it was loaded.
Init ==
    /\ exists \in SUBSET Keys /\ used = exists /\ listed = exists
    /\ row \in [Kinds -> {Everyone} \cup {[scope |-> "selected", ids |-> s] : s \in SUBSET exists}]
    /\ draft = row
    /\ busy = FALSE /\ calls = {} /\ clicks = 0

-----------------------------------------------------------------------------
(* The panels *)

Click == clicks < MaxClicks /\ clicks' = clicks + 1 /\ UNCHANGED <<exists, used, row>>
Room == Cardinality(calls) < MaxCalls

ScopeAll(kind) ==
    /\ Click /\ ~busy /\ draft[kind] # Everyone
    /\ draft' = [draft EXCEPT ![kind] = Everyone]
    /\ UNCHANGED <<listed, busy, calls>>

\* "Selected keys" begins with one of the list.
ScopeSelected(kind) ==
    /\ Click /\ ~busy /\ draft[kind].scope = "all"
    /\ \E k \in listed : draft' = [draft EXCEPT ![kind] = [scope |-> "selected", ids |-> {k}]]
    /\ UNCHANGED <<listed, busy, calls>>

\* One box of the list, all or none; keys that are gone stay selected.
SelectKeys(kind) ==
    /\ Click /\ ~busy /\ draft[kind].scope = "selected" /\ listed # {}
    /\ \E k \in listed :
          \E ids \in {listed, {}, draft[kind].ids \cup {k}, draft[kind].ids \ {k}} :
             draft' = [draft EXCEPT ![kind].ids = ids]
    /\ UNCHANGED <<listed, busy, calls>>

\* savePromptInjection: refused on the page while it names a key that the list
\* does not have.
SavePromptInjection ==
    /\ Click /\ ~busy /\ Room
    /\ draft["prompt"].ids \subseteq listed
    /\ busy' = TRUE
    /\ calls' = calls \cup {Call("prompt", draft["prompt"], {}, TRUE)}
    /\ UNCHANGED <<listed, draft>>

\* saveGroupConfig, which takes the tier rules along.
SaveGroupConfig ==
    /\ Click /\ ~busy /\ Room
    /\ busy' = TRUE
    /\ calls' = calls \cup {Call("tier", draft["tier"], {}, TRUE)}
    /\ UNCHANGED <<listed, draft>>

\* The bin of a row of the keys, which busy does not disable.
DeleteKey(k) ==
    /\ Click /\ Room /\ k \in listed
    /\ calls' = calls \cup {Call("delete", Everyone, {k}, FALSE)}
    /\ UNCHANGED <<listed, draft, busy>>

CreateKey ==
    /\ Click /\ ~busy /\ Room
    /\ busy' = TRUE
    /\ calls' = calls \cup {Call("create", Everyone, {}, TRUE)}
    /\ UNCHANGED <<listed, draft>>

-----------------------------------------------------------------------------
(* The gateway *)

\* UpdateGroup up to its last statement: the row is read and the keys of a
\* prompt rule are looked up.
CheckUpdate(c) ==
    /\ c \in calls /\ c.op \in Kinds /\ c.state = "sent"
    /\ calls' = (calls \ {c}) \cup
         (IF c.op = "prompt" /\ ~(c.rule.ids \subseteq exists) THEN {}
          ELSE {[c EXCEPT !.state = "checked", !.row = [row EXCEPT ![c.op] = c.rule]]})
    /\ busy' = (busy /\ (c.holds => calls' # calls \ {c}))
    /\ UNCHANGED <<exists, used, row, listed, draft, clicks>>

\* Its last statement: the row is saved whole.
WriteUpdate(c) ==
    /\ c \in calls /\ c.op \in Kinds /\ c.state = "checked"
    /\ row' = c.row
    /\ calls' = (calls \ {c}) \cup {[c EXCEPT !.state = "done"]}
    /\ UNCHANGED <<exists, used, listed, draft, busy, clicks>>

\* Variant: a rule that has no key left is one for all of them.
RemoveKeyID_EmptyIsAll(rule, k) ==
    IF rule.scope = "selected"
    THEN [scope |-> IF rule.ids \subseteq {k} THEN "all" ELSE "selected", ids |-> rule.ids \ {k}]
    ELSE rule

\* Variant: nothing is looked after.
RemoveKeyID_KeepsKey(rule, k) == rule

\* removeSystemPromptKeyID: the rule stays one for selected keys.
RemoveKeyID(rule, k) == IF rule.scope = "selected" THEN [rule EXCEPT !.ids = @ \ {k}] ELSE rule

\* One transaction; only the prompt rules are looked after.
ServeDelete(c) ==
    /\ c \in calls /\ c.op = "delete" /\ c.state = "sent"
    /\ \E k \in c.ids :
          IF k \in exists
          THEN /\ exists' = exists \ {k}
               /\ row' = [row EXCEPT !["prompt"] = RemoveKeyID(@, k)]
               /\ calls' = (calls \ {c}) \cup {[c EXCEPT !.state = "done"]}
          ELSE calls' = calls \ {c} /\ UNCHANGED <<exists, row>>
    /\ UNCHANGED <<used, listed, draft, busy, clicks>>

ServeCreate(c) ==
    /\ c \in calls /\ c.op = "create" /\ c.state = "sent"
    /\ \E k \in Keys \ used : exists' = exists \cup {k} /\ used' = used \cup {k}
    /\ calls' = (calls \ {c}) \cup {[c EXCEPT !.state = "done"]}
    /\ UNCHANGED <<row, listed, draft, busy, clicks>>

ServeList(c) ==
    /\ c \in calls /\ c.op = "keys" /\ c.state = "sent"
    /\ calls' = (calls \ {c}) \cup {[c EXCEPT !.state = "done", !.ids = exists]}
    /\ UNCHANGED <<exists, used, row, listed, draft, busy, clicks>>

-----------------------------------------------------------------------------
(* Answers *)

\* Only the saved prompt rules come back into the draft.
UpdateAnswered(c) ==
    /\ c.op \in Kinds
    /\ draft' = IF c.op = "prompt" THEN [draft EXCEPT !["prompt"] = c.row["prompt"]] ELSE draft
    /\ busy' = FALSE /\ calls' = calls \ {c}
    /\ UNCHANGED listed

\* The list is loaded again; the drafts keep a deleted key.
KeyWriteAnswered(c) ==
    /\ c.op \in {"delete", "create"}
    /\ calls' = (calls \ {c}) \cup {Call("keys", Everyone, {}, c.holds)}
    /\ UNCHANGED <<listed, draft, busy>>

KeysAnswered(c) ==
    /\ c.op = "keys"
    /\ listed' = c.ids
    /\ busy' = (busy /\ ~c.holds) /\ calls' = calls \ {c}
    /\ UNCHANGED draft

Answered(c) ==
    /\ c \in calls /\ c.state = "done"
    /\ UpdateAnswered(c) \/ KeyWriteAnswered(c) \/ KeysAnswered(c)
    /\ UNCHANGED <<exists, used, row, clicks>>

\* Refused, or its answer is lost (then the gateway's work is done all the same).
Failed(c) ==
    /\ c \in calls /\ c.state # "checked"
    /\ calls' = calls \ {c}
    /\ busy' = (busy /\ ~c.holds)
    /\ UNCHANGED <<exists, used, row, listed, draft, clicks>>

Next ==
    \/ \E kind \in Kinds : ScopeAll(kind) \/ ScopeSelected(kind) \/ SelectKeys(kind)
    \/ SavePromptInjection \/ SaveGroupConfig \/ CreateKey
    \/ \E k \in Keys : DeleteKey(k)
    \/ \E c \in calls : \/ CheckUpdate(c) \/ WriteUpdate(c) \/ ServeDelete(c) \/ ServeCreate(c)
                        \/ ServeList(c) \/ Answered(c) \/ Failed(c)

Spec == Init /\ [][Next]_vars

-----------------------------------------------------------------------------
(* Properties *)

\* A rule comes to apply to a key that it did not apply to only by a save of that
\* kind of rule, and as saved: neither a deletion nor the save of the other kind,
\* which writes the same row, widens it.
WidenStep ==
    \A kind \in Kinds, k \in exists' :
        (Applies(row'[kind], k) /\ ~Applies(row[kind], k)) =>
            \E c \in calls : c.op = kind /\ c.state = "checked" /\ c \notin calls' /\ Applies(c.rule, k)
RulesWidenByTheirSave == [][WidenStep]_vars

\* What UpdateGroup insists on: the keys of a prompt rule belong to the group.
\* Not so: it is checked before a deletion and written after it.
PromptKeysBelongToGroup == row["prompt"].ids \subseteq exists

\* A prompt rule names a key that is gone only if a save that had been checked
\* before the deletion wrote it back: the deletion itself leaves none behind.
DanglingStep ==
    \A k \in (row["prompt"].ids \ exists)' \ (row["prompt"].ids \ exists) :
        \E c \in calls : c.op \in Kinds /\ c.state = "checked" /\ c \notin calls'
DanglingNeedsRace == [][DanglingStep]_vars

-----------------------------------------------------------------------------
\* What carries them from step to step: one save is under way at a time, and of the
\* other kind of rule it has read nothing that is wider than what is stored.
Named(rule) == rule \in Rule /\ rule.ids \subseteq used /\ (rule.scope = "all" => rule.ids = {})
AllNamed(rules) == rules \in [Kinds -> Rule] /\ \A kind \in Kinds : Named(rules[kind])
IsCall(c) == c \in [op : {c.op}, rule : {c.rule}, ids : {c.ids}, holds : BOOLEAN,
                   state : {c.state}, row : {c.row}]
NoWider(old, new) == (old.scope = "all" => new.scope = "all") /\ old.ids \cap exists \subseteq new.ids
Read(c) ==
    /\ c.op \in Kinds /\ c.row[c.op] = c.rule
    /\ \A kind \in Kinds \ {c.op} : row[kind].scope # "all" => NoWider(c.row[kind], row[kind])
RuleTypes ==
    /\ exists \subseteq used /\ used \subseteq Keys /\ listed \subseteq used
    /\ AllNamed(row) /\ AllNamed(draft) /\ busy \in BOOLEAN
    /\ \A c \in calls : IsCall(c) /\ Named(c.rule) /\ AllNamed(c.row) /\ c.ids \subseteq used
RulesInv ==
    /\ RuleTypes
    /\ \A c \in calls : /\ c.op \in Kinds \cup {"create"} => c.holds
                        /\ c.holds => busy
                        /\ c.state = "checked" => Read(c)
    /\ \A c, d \in calls : c.holds /\ d.holds => c = d
=============================================================================
