---------------------------- MODULE ServiceLists ----------------------------
(***************************************************************************)
(* The lists of notification channels and of captcha services on the       *)
(* settings page: their buttons, the captcha form, and the handlers behind *)
(* them.  Both lists are the same machine but for what the second button   *)
(* does: a notification channel is tested, a captcha service asked for its *)
(* balance, which is then written into the row.  The row of a notification *)
(* channel is edited in NotifyForm's dialog, that of a captcha service in  *)
(* the form below.  Update reads a row and saves all of it.                *)
(*                                                                         *)
(* Of a row its key is kept, and the key its balance was measured with; a  *)
(* load of the list that is overtaken by a newer one shows nothing, and    *)
(* two calls that do not differ are one.                                   *)
(***************************************************************************)
EXTENDS Naturals, FiniteSets

CONSTANTS
    Ids, Secrets, Blank,   \* rows, their keys, and an empty field
    MaxCalls, MaxClicks

VARIABLES
    kind,      \* "captcha" or "notification": whose list this is
    rows,      \* the table
    shown,     \* data: the list as loaded last
    load,      \* "no", "sent", or "failed" for a list that may be old
    busy,      \* busyCaptchaID, busyNotificationID; None for null
    asking,    \* the row whose deletion is to be confirmed
    form,      \* captchaOpen, editingCaptcha, api_key and submitting
    calls, clicks

vars == <<kind, rows, shown, load, busy, asking, form, calls, clicks>>

None == 0
NoRow == [key |-> Blank, bal |-> Blank, err |-> FALSE]
Row == [key : Secrets, bal : Secrets \cup {Blank}, err : BOOLEAN]
Live == {i \in Ids : rows[i] # NoRow}
Call(op, id, key) == [op |-> op, id |-> id, key |-> key, state |-> "sent", row |-> NoRow]
ClosedForm == [open |-> FALSE, id |-> None, key |-> Blank, submitting |-> FALSE]

TypeOK ==
    /\ kind \in {"captcha", "notification"}
    /\ rows \in [Ids -> Row \cup {NoRow}] /\ shown \in [Ids -> Row \cup {NoRow}]
    /\ load \in {"no", "sent", "failed"}
    /\ busy \in Ids \cup {None} /\ asking \in Ids \cup {None}
    /\ form \in [open : BOOLEAN, id : Ids \cup {None}, key : Secrets \cup {Blank}, submitting : BOOLEAN]
    /\ \A c \in calls : /\ c.op \in {"delete", "probe", "update", "create"}
                        /\ c.state \in {"sent", "read", "done", "refused"}
                        /\ c.row \in Row \cup {NoRow} /\ c.key \in Secrets \cup {Blank}
    /\ clicks \in 0..MaxClicks

Init ==
    /\ kind \in {"captcha", "notification"}
    /\ rows \in [Ids -> {NoRow} \cup {[NoRow EXCEPT !.key = k] : k \in Secrets}]
    /\ shown = rows /\ load = "no"
    /\ busy = None /\ asking = None /\ form = ClosedForm
    /\ calls = {} /\ clicks = 0

-----------------------------------------------------------------------------
(* The lists *)

OnPage == ~form.open /\ asking = None
Click == OnPage /\ clicks < MaxClicks /\ clicks' = clicks + 1 /\ UNCHANGED <<kind, rows, shown, load>>
Room == Cardinality(calls) < MaxCalls
Button(i) == Click /\ shown[i] # NoRow /\ busy # i

\* handleTestNotification and handleRefreshCaptchaBalance.
Probe(i) ==
    /\ Button(i) /\ Room
    /\ busy' = i /\ calls' = calls \cup {Call("probe", i, Blank)} /\ UNCHANGED <<asking, form>>

HandleDelete(i) == Button(i) /\ asking' = i /\ UNCHANGED <<busy, form, calls>>

Confirm(yes) ==
    /\ asking # None /\ asking' = None
    /\ IF yes THEN Room /\ busy' = asking /\ calls' = calls \cup {Call("delete", asking, Blank)}
       ELSE UNCHANGED <<busy, calls>>
    /\ UNCHANGED <<kind, rows, shown, load, form, clicks>>

-----------------------------------------------------------------------------
(* CaptchaFormDialog; submitting outlives the dialog's closing *)

Opened_Reset(i) == [ClosedForm EXCEPT !.open = TRUE, !.id = i]
Opened(i) == [form EXCEPT !.open = TRUE, !.id = i, !.key = Blank]
OpenForm ==
    /\ kind = "captcha" /\ Click
    /\ \E i \in {j \in Ids : shown[j] # NoRow} \cup {None} : form' = Opened(i)
    /\ UNCHANGED <<busy, asking, calls>>

InForm == form.open /\ UNCHANGED <<kind, rows, shown, load, busy, asking, clicks>>
TypeKey == InForm /\ ~form.submitting /\ (\E k \in Secrets \cup {Blank} : form' = [form EXCEPT !.key = k])
           /\ UNCHANGED calls
CloseForm == InForm /\ form' = [form EXCEPT !.open = FALSE, !.id = None] /\ UNCHANGED calls

\* A key is sent if one was typed, and a new service needs one.
HandleSubmit ==
    /\ InForm /\ ~form.submitting /\ Room
    /\ form.id = None => form.key # Blank
    /\ calls' = calls \cup {Call(IF form.id = None THEN "create" ELSE "update", form.id, form.key)}
    /\ form' = [form EXCEPT !.submitting = TRUE]

-----------------------------------------------------------------------------
(* The handlers of api/captchas.go and api/notifications.go *)

Moves(c, d) == calls' = (calls \ {c}) \cup {d}
ServerOnly == UNCHANGED <<kind, shown, load, busy, asking, form, clicks>>
Write(i, row) == rows' = [rows EXCEPT ![i] = row]
Refuse(c) == Moves(c, [c EXCEPT !.state = "refused"]) /\ UNCHANGED rows

DeleteRow(c) ==
    /\ c.op = "delete" /\ c.state = "sent" /\ ServerOnly
    /\ \/ Write(c.id, NoRow) /\ Moves(c, [c EXCEPT !.state = "done"])
       \/ Refuse(c)

CreateRow(c) ==
    /\ c.op = "create" /\ c.state = "sent" /\ ServerOnly
    /\ \/ \E i \in Ids \ Live : Write(i, [NoRow EXCEPT !.key = c.key]) /\ Moves(c, [c EXCEPT !.state = "done"])
       \/ Refuse(c)

FindRow(c) ==
    /\ c.op \in {"update", "probe"} /\ c.state = "sent" /\ ServerOnly
    /\ IF rows[c.id] = NoRow THEN Refuse(c)
       ELSE Moves(c, [c EXCEPT !.state = "read", !.row = rows[c.id]]) /\ UNCHANGED rows

KeyAfter(c) == IF c.key = Blank THEN c.row.key ELSE c.key
\* Save: with no row to update, gorm inserts it.
SaveRow(c) ==
    /\ c.op = "update" /\ c.state = "read" /\ ServerOnly
    /\ Write(c.id, [c.row EXCEPT !.key = KeyAfter(c)]) /\ Moves(c, [c EXCEPT !.state = "done"])

\* UpdateBalance writes the columns of the balance only, if there is the row;
\* what the provider refused is written, too, with the balance that was read.
Measured(c, ok) ==
    IF rows[c.id] = NoRow \/ kind = "notification" THEN rows[c.id]
    ELSE [rows[c.id] EXCEPT !.bal = IF ok THEN c.row.key ELSE c.row.bal, !.err = ~ok]
ProbeUpstream(c) ==
    /\ c.op = "probe" /\ c.state = "read" /\ ServerOnly
    /\ \E ok \in BOOLEAN : Write(c.id, Measured(c, ok)) /\ Moves(c, [c EXCEPT !.state = IF ok THEN "done" ELSE "refused"])

-----------------------------------------------------------------------------
(* Answers *)

\* Which answers load the list again: a success does; a balance that failed,
\* because the failure was written; a failed deletion or save does not.
Reloads_Successes(c) == c.state = "done"
Reloads(c) == c.state = "done" \/ (c.op = "probe" /\ kind = "captcha")
BusyAfter_OnSuccess(c) == IF c.state = "done" THEN None ELSE busy
BusyAfter(c) == None

Answered(c) ==
    /\ c.state \in {"done", "refused"} /\ calls' = calls \ {c}
    /\ load' = IF Reloads(c) THEN "sent" ELSE load
    /\ IF c.op \in {"delete", "probe"} THEN busy' = BusyAfter(c) /\ UNCHANGED form
       ELSE /\ form' = IF c.state = "done" THEN [form EXCEPT !.open = FALSE, !.id = None, !.submitting = FALSE]
                       ELSE [form EXCEPT !.submitting = FALSE]
            /\ UNCHANGED busy
    /\ UNCHANGED <<kind, rows, shown, asking, clicks>>

ListAnswered ==
    /\ load = "sent"
    /\ \/ load' = "no" /\ shown' = rows
       \/ load' = "failed" /\ UNCHANGED shown
    /\ UNCHANGED <<kind, rows, busy, asking, form, calls, clicks>>

Next ==
    \/ \E i \in Ids : Probe(i) \/ HandleDelete(i)
    \/ \E yes \in BOOLEAN : Confirm(yes)
    \/ OpenForm \/ TypeKey \/ CloseForm \/ HandleSubmit \/ ListAnswered
    \/ \E c \in calls : DeleteRow(c) \/ CreateRow(c) \/ FindRow(c) \/ SaveRow(c) \/ ProbeUpstream(c) \/ Answered(c)

Spec == Init /\ [][Next]_vars
-----------------------------------------------------------------------------
\* A row that shows as busy has a call under way, whatever ran beside it and
\* however it ended; the buttons of a row whose call is under way may work all
\* the same, because one number stands for all rows (busyCaptchaID).
BusyNamesACall == busy # None => \E c \in calls : c.id = busy /\ c.op \in {"delete", "probe"}

\* When nothing is under way and the last load succeeded, the list is the
\* table: balances that failed are on it with their error.
SettledListIsServers == calls = {} /\ load = "no" => shown = rows

KeyStep == \A i \in Ids : rows[i] # NoRow /\ rows'[i] # NoRow /\ rows'[i].key # rows[i].key =>
             \E c \in calls : c.op = "update" /\ c.id = i /\ c.key # Blank /\ rows'[i].key = c.key
\* "留空则不变": the key of a service changes only to one that was typed for it,
\* since no second save can start before the first is answered.
KeyOnlyByTyping == [][KeyStep]_vars

-----------------------------------------------------------------------------
\* What carries KeyStep from step to step: the form's flag keeps a second save
\* away, so the key of the row that a save has read is the row's as long as there is one.
AnyRow == [key : Secrets \cup {Blank}, bal : Secrets \cup {Blank}, err : BOOLEAN]
Forms == [open : BOOLEAN, id : Ids \cup {None}, key : Secrets \cup {Blank}, submitting : BOOLEAN]
Calls == [op : {"delete", "probe", "update", "create"}, id : Ids \cup {None}, key : Secrets \cup {Blank},
          state : {"sent", "read", "done", "refused"}, row : AnyRow]
SaveTypes ==
    /\ rows \in [Ids -> AnyRow] /\ asking \in Ids \cup {None} /\ form \in Forms /\ calls \subseteq Calls
    /\ \A c \in calls : c.op # "create" => c.id \in Ids
IsSave(c) == c.op \in {"update", "create"}
OneSave ==
    /\ \A c, d \in calls : IsSave(c) /\ IsSave(d) => c = d
    /\ \A c \in calls : IsSave(c) => form.submitting
SaveIsCurrent(c) == c.op = "update" /\ c.state = "read" => rows[c.id] = NoRow \/ rows[c.id].key = c.row.key
SaveInv == SaveTypes /\ OneSave /\ \A c \in calls : SaveIsCurrent(c)
=============================================================================
