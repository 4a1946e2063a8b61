----------------------------- MODULE ChannelLogin -----------------------------
(***************************************************************************)
(* How a channel of an upstream stays logged in: the dialog that edits its *)
(* credential, the handlers that save, clear and delete it, and the jobs   *)
(* that need a session.  A channel has an account's password, of which a   *)
(* login makes a session that is kept in a row of its own, or a token that *)
(* the user pasted, which a refresh replaces, so that only the latest one  *)
(* can be refreshed.                                                       *)
(*                                                                         *)
(* A job works with the row it read at its start, holds the channel's lock *)
(* only while it looks for a session, and ends by writing: a session, or   *)
(* the whole row.  The handlers take no lock.  One channel (sub2api: a     *)
(* token has generations); CheckAuth may fail for the network's reasons.   *)
(***************************************************************************)
EXTENDS Naturals, FiniteSets

CONSTANTS
    Users, Sites, NoUser,
    Jobs,
    MaxGen, MaxEdits, MaxRuns

VARIABLES
    row,       \* the channel: there, site, mode, user (whose credential), gen, refresh
    session,   \* its stored session: site and user
    gen,       \* the upstream: the generation of each user's token that can be refreshed
    job,       \* per job: pc, the row it read, the session it made
    lock,      \* the job that has the channel's lock
    form,      \* the dialog: open, site, mode, typed (a credential), refresh (typed too?)
    edit,      \* the handler at work: op, state, the row it read, what was submitted
    edits, runs,
    overlap,   \* history: a handler and a job wrote across each other
    dropped    \* history: a job refreshed a token and failed before it wrote it

vars == <<row, session, gen, job, lock, form, edit, edits, runs, overlap, dropped>>

NoJob == "none"
NoRow == [there |-> FALSE, site |-> CHOOSE s \in Sites : TRUE, mode |-> "password",
          user |-> NoUser, gen |-> 0, refresh |-> FALSE]
NoSession == [site |-> NoRow.site, user |-> NoUser]
Idle == [pc |-> "idle", row |-> NoRow, new |-> NoSession]
ClosedForm == [open |-> FALSE, site |-> NoRow.site, mode |-> "password", typed |-> NoUser, refresh |-> FALSE]
NoEdit == [op |-> "none", state |-> "none", row |-> NoRow, form |-> ClosedForm]

TypeOK ==
    /\ row \in [there : BOOLEAN, site : Sites, mode : {"password", "token"},
                user : Users \cup {NoUser}, gen : 0..MaxGen, refresh : BOOLEAN]
    /\ session \in [site : Sites, user : Users \cup {NoUser}]
    /\ gen \in [Users -> 0..MaxGen]
    /\ \A j \in Jobs : job[j].pc \in {"idle", "read", "check", "refresh", "saveToken", "login", "saveSession"}
    /\ lock \in Jobs \cup {NoJob}
    /\ form.mode \in {"password", "token"} /\ form.typed \in Users \cup {NoUser}
    /\ edit.op \in {"none", "update", "clear", "delete"}
    /\ edit.state \in {"none", "sent", "read", "cleared"}
    /\ overlap \in BOOLEAN /\ dropped \in BOOLEAN

Init ==
    /\ \E s \in Sites, m \in {"password", "token"}, u \in Users :
        row = [there |-> TRUE, site |-> s, mode |-> m, user |-> u, gen |-> 0, refresh |-> m = "token"]
    /\ session = NoSession /\ gen = [u \in Users |-> 0]
    /\ job = [j \in Jobs |-> Idle] /\ lock = NoJob
    /\ form = ClosedForm /\ edit = NoEdit /\ edits = 0 /\ runs = 0
    /\ overlap = FALSE /\ dropped = FALSE

-----------------------------------------------------------------------------
\* The dialog, which opens with the row but its credential, and closes at any time.
formOnly == <<row, session, gen, job, lock, edit, runs, overlap, dropped>>
OpenEdit ==
    /\ edits < MaxEdits /\ edits' = edits + 1
    /\ ~form.open /\ row.there
    /\ form' = [open |-> TRUE, site |-> row.site, mode |-> row.mode, typed |-> NoUser, refresh |-> FALSE]
    /\ UNCHANGED formOnly
Type(new) == form.open /\ edit = NoEdit /\ form' = new /\ UNCHANGED <<formOnly, edits>>
TypeSite == \E s \in Sites : Type([form EXCEPT !.site = s])
ToggleMode == \E m \in {"password", "token"} : Type([form EXCEPT !.mode = m, !.typed = NoUser, !.refresh = FALSE])
TypePassword == form.mode = "password" /\ \E u \in Users \cup {NoUser} : Type([form EXCEPT !.typed = u])
TypeToken ==
    /\ form.mode = "token"
    /\ \E u \in Users \cup {NoUser}, r \in BOOLEAN : Type([form EXCEPT !.typed = u, !.refresh = r])
CloseForm == form.open /\ form' = ClosedForm /\ UNCHANGED <<formOnly, edits>>

\* The form refuses a refresh token without its access token and a change of mode
\* without a credential; row.mode stands for the mode the dialog was opened with.
Submittable ==
    /\ form.refresh => form.typed # NoUser
    /\ form.mode # row.mode => form.typed # NoUser
HandleSubmit ==
    /\ form.open /\ edit = NoEdit /\ Submittable
    /\ edit' = [op |-> "update", state |-> "sent", row |-> NoRow, form |-> form]
    /\ UNCHANGED <<row, session, gen, job, lock, form, edits, runs, overlap, dropped>>
\* The list's menu: clear the login, or delete the channel.
ClickMenu(op) ==
    /\ edits < MaxEdits /\ edits' = edits + 1
    /\ ~form.open /\ edit = NoEdit /\ row.there
    /\ edit' = [op |-> op, state |-> "sent", row |-> NoRow, form |-> ClosedForm]
    /\ UNCHANGED <<row, session, gen, job, lock, form, runs, overlap, dropped>>
ClearLogin == ClickMenu("clear")
Delete == ClickMenu("delete")

-----------------------------------------------------------------------------
Busy == \E j \in Jobs : job[j].pc # "idle"

\* Update, ClearLoginInfo and Delete read the row, ...
EditRead ==
    /\ edit.state = "sent" /\ edit.op # "delete" /\ row.there
    /\ edit' = [edit EXCEPT !.state = "read", !.row = row]
    /\ UNCHANGED <<row, session, gen, job, lock, form, edits, runs, overlap, dropped>>

\* Mutant: every save writes the credential of the form.
Given_Always(e) == e.op = "update"
Given(e) == e.op = "update" /\ e.form.typed # NoUser

\* ... delete the stored session, when there is a new credential or none is to stay, ...
\* Mutant: a new credential leaves the session of the old one.
DropsSession_NotForUpdate(e) == e.op # "update"
DropsSession(e) == e.op # "update" \/ Given(e)
EditDropsSession ==
    /\ edit.state = IF edit.op = "delete" THEN "sent" ELSE "read"
    /\ session' = IF DropsSession(edit) THEN NoSession ELSE session
    /\ edit' = [edit EXCEPT !.state = "cleared"]
    /\ UNCHANGED <<row, gen, job, lock, form, edits, runs, overlap, dropped>>

\* ... and save: Update all of the row it read, with a token as the user pasted it.
Updated(e) ==
    LET new == [e.row EXCEPT !.site = e.form.site, !.mode = e.form.mode]
    IN  IF ~Given(e) THEN new
        ELSE [new EXCEPT !.user = e.form.typed, !.refresh = e.form.refresh,
                         !.gen = IF e.form.typed = NoUser THEN 0 ELSE gen[e.form.typed]]
EditSaves ==
    /\ edit.state = "cleared"
    /\ row' = CASE edit.op = "update" -> Updated(edit)
                [] edit.op = "delete" -> NoRow
                [] edit.op = "clear" /\ edit.row.mode = "token" -> [edit.row EXCEPT !.user = NoUser, !.refresh = FALSE]
                [] OTHER -> row
    /\ overlap' = (overlap \/ Busy)
    /\ edit' = NoEdit
    /\ form' = IF edit.op = "update" THEN ClosedForm ELSE form
    /\ UNCHANGED <<session, gen, job, lock, edits, runs, dropped>>
\* The row is gone, or the statement fails: the dialog stays, with the error.
EditFails ==
    /\ edit.state = "sent" \/ edit.state = "cleared"
    /\ edit' = NoEdit
    /\ overlap' = (overlap \/ Busy)
    /\ UNCHANGED <<row, session, gen, job, lock, form, edits, runs, dropped>>

-----------------------------------------------------------------------------
\* A job reads the row and only then waits for the lock.
Start(j) ==
    /\ job[j].pc = "idle" /\ runs < MaxRuns /\ row.there
    /\ runs' = runs + 1 /\ job' = [job EXCEPT ![j] = [Idle EXCEPT !.pc = "read", !.row = row]]
    /\ UNCHANGED <<row, session, gen, lock, form, edit, edits, overlap, dropped>>

Frame == <<form, edit, edits, runs>>
Goto(j, pc) == job' = [job EXCEPT ![j].pc = pc]
Finish(j) == job' = [job EXCEPT ![j] = Idle] /\ lock' = IF lock = j THEN NoJob ELSE lock

\* EnsureSession: a token is checked, and so is a stored session; none leads to a login.
EnsureSession(j) ==
    /\ job[j].pc = "read" /\ lock = NoJob
    /\ lock' = j
    /\ LET pc == IF job[j].row.mode = "password" /\ session = NoSession THEN "login" ELSE "check"
       IN  job' = [job EXCEPT ![j] = [pc |-> pc, row |-> job[j].row, new |-> session]]
    /\ UNCHANGED <<row, session, gen, Frame, overlap, dropped>>
\* TestLogin of an account with a password logs in without the lock.
TestLogin(j) ==
    /\ job[j].pc = "read" /\ job[j].row.mode = "password"
    /\ Goto(j, "login")
    /\ UNCHANGED <<row, session, gen, lock, Frame, overlap, dropped>>
\* A credential that was cleared is an error; a token that fails is refreshed if it can
\* be, and a session is refreshed, or made anew, or its refresh is an error.
Check(j) ==
    /\ job[j].pc = "check"
    /\ LET c == job[j].row IN
        \/ Finish(j)
        \/ /\ \/ c.mode = "password" /\ \E pc \in {"login", "saveSession"} : Goto(j, pc)
              \/ c.mode = "token" /\ c.refresh /\ Goto(j, "refresh")
           /\ UNCHANGED lock
    /\ UNCHANGED <<row, session, gen, Frame, overlap, dropped>>
\* The upstream takes only the latest token, and gives the next one.
Refresh(j) ==
    /\ job[j].pc = "refresh"
    /\ LET c == job[j].row IN
        \/ /\ c.gen = gen[c.user] /\ gen[c.user] < MaxGen
           /\ gen' = [gen EXCEPT ![c.user] = @ + 1]
           /\ job' = [job EXCEPT ![j] = [pc |-> "saveToken", row |-> [c EXCEPT !.gen = @ + 1], new |-> @.new]]
           /\ UNCHANGED lock
        \/ Finish(j) /\ UNCHANGED gen
    /\ UNCHANGED <<row, session, Frame, overlap, dropped>>
\* Mutant: the refreshed token is only used, not written.
Persisted_Unchanged(j) == row
Persisted(j) == job[j].row
\* The new token is checked and written with all of the row the job read: gorm's Save
\* inserts a row that is gone.  A check that fails forgets the token.
SaveToken(j) ==
    /\ job[j].pc = "saveToken"
    /\ \/ /\ row' = Persisted(j)
          /\ overlap' = (overlap \/ edit # NoEdit)
          /\ UNCHANGED dropped
       \/ dropped' = TRUE /\ UNCHANGED <<row, overlap>>
    /\ Finish(j)
    /\ UNCHANGED <<session, gen, Frame>>
Login(j) ==
    /\ job[j].pc = "login"
    /\ \/ /\ LET new == [site |-> job[j].row.site, user |-> job[j].row.user]
             IN  job' = [job EXCEPT ![j] = [pc |-> "saveSession", row |-> job[j].row, new |-> new]]
          /\ UNCHANGED <<session, lock>>
       \/ session' = NoSession /\ Finish(j)
    /\ UNCHANGED <<row, gen, Frame, overlap, dropped>>
SaveSession(j) ==
    /\ job[j].pc = "saveSession"
    /\ session' = job[j].new
    /\ overlap' = (overlap \/ edit # NoEdit)
    /\ Finish(j)
    /\ UNCHANGED <<row, gen, Frame, dropped>>

Next ==
    \/ OpenEdit \/ TypeSite \/ ToggleMode \/ TypePassword \/ TypeToken \/ CloseForm
    \/ HandleSubmit \/ ClearLogin \/ Delete
    \/ EditRead \/ EditDropsSession \/ EditSaves \/ EditFails
    \/ \E j \in Jobs :
        \/ Start(j) \/ EnsureSession(j) \/ TestLogin(j) \/ Check(j) \/ Refresh(j)
        \/ SaveToken(j) \/ Login(j) \/ SaveSession(j)

Spec == Init /\ [][Next]_vars

-----------------------------------------------------------------------------
\* The stored token is the one the upstream will still refresh, whatever the jobs do
\* to one another: it is outdated only while a job holds its successor, after a job
\* that failed before it could write it, or when an edit was saved across a job.
TokenIsLatest ==
    \/ overlap \/ dropped \/ ~row.there \/ row.mode = "password" \/ ~row.refresh
    \/ row.user = NoUser
    \/ \E j \in Jobs : job[j].pc = "saveToken"
    \/ row.gen = gen[row.user]

\* A stored session was made with the channel's present account: no new credential
\* leaves a session of the old one behind, unless a job was at work during the edit.
SessionIsOfItsUser ==
    session # NoSession /\ ~overlap => row.there /\ row.mode = "password" /\ session.user = row.user

\* A save in which no credential was typed leaves the channel's credential alone.
CredentialStep ==
    edit.op = "update" /\ edit' = NoEdit /\ row' # row /\ edit.form.typed = NoUser
        => row'.user = edit.row.user /\ row'.refresh = edit.row.refresh
CredentialOnlyByTyping == [][CredentialStep]_vars

\* What the dialog says of itself: after a change the stored session is cleared.
SaveClearsSession ==
    [][ row.there /\ row'.there /\ edit.op = "update" /\ edit' = NoEdit /\ row' # row
            => session' = NoSession ]_vars

-----------------------------------------------------------------------------
\* What carries TokenIsLatest and SessionIsOfItsUser from step to step.  A job
\* that refreshes a token holds the lock; and as long as no handler has written
\* across a job, a job's copy of the row agrees with the row about the account,
\* and a handler's copy in all.
Rows == [there : BOOLEAN, site : Sites, mode : {"password", "token"},
         user : Users \cup {NoUser}, gen : Nat, refresh : BOOLEAN]
Sessions == [site : Sites, user : Users \cup {NoUser}]
Forms == [open : BOOLEAN, site : Sites, mode : {"password", "token"},
          typed : Users \cup {NoUser}, refresh : BOOLEAN]
Works == [pc : {"idle", "read", "check", "refresh", "saveToken", "login", "saveSession"},
          row : Rows, new : Sessions]
Edits == [op : {"none", "update", "clear", "delete"}, state : {"none", "sent", "read", "cleared"},
          row : Rows, form : Forms]
LoginTypes ==
    /\ row \in Rows /\ session \in Sessions /\ gen \in [Users -> Nat] /\ form \in Forms
    /\ job \in [Jobs -> Works] /\ edit \in Edits

\* Of a job that is at w, with r the row that is stored.
Follows(w, r) ==
    /\ r.there /\ w.row.there /\ w.row.mode = r.mode /\ w.row.user = r.user
    /\ w.pc \in {"check", "saveSession"} /\ r.mode = "password" => w.new.user = r.user
JobInv(j) ==
    /\ job[j].pc \in {"check", "refresh", "saveToken"} => lock = j
    /\ job[j].pc \in {"login", "saveSession"} => job[j].row.mode = "password"
    /\ job[j].pc \in {"refresh", "saveToken"} => job[j].row.mode = "token"
    /\ job[j].pc = "saveToken" =>
          job[j].row.user = NoUser \/ job[j].row.gen = gen[job[j].row.user]
    /\ job[j].pc # "idle" /\ ~overlap => Follows(job[j], row)
EditInv ==
    /\ edit = NoEdit <=> edit.state = "none"
    /\ edit.op = "none" => edit = NoEdit
    /\ edit.state = "read" => edit.op # "delete"
    /\ edit.op = "update" /\ ~overlap /\ edit.form.typed = NoUser =>
          ~edit.form.refresh /\ edit.form.mode = row.mode
    /\ edit.state \in {"read", "cleared"} /\ edit.op # "delete" /\ ~overlap => edit.row = row
    /\ edit.state = "cleared" /\ DropsSession(edit) /\ ~overlap => session = NoSession
LoginInv ==
    /\ LoginTypes /\ EditInv /\ \A j \in Jobs : JobInv(j)
    /\ TokenIsLatest /\ SessionIsOfItsUser
=============================================================================
