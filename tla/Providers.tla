------------------------------ MODULE Providers ------------------------------
(***************************************************************************)
(* The direct providers: the console's paged and searched table of them    *)
(* with its form, and the handlers of the gateway that create, update and  *)
(* delete their rows.  A table load is not numbered, and each save and     *)
(* deletion is followed by one with the page and the query of its click.   *)
(* Update reads a row and saves all of it later; gorm's Save inserts the   *)
(* row when there is none to update.                                       *)
(*                                                                         *)
(* Of a row its name and its API key are kept.  A second administrator     *)
(* deletes rows.                                                           *)
(***************************************************************************)
EXTENDS Naturals, FiniteSets

CONSTANTS
    Names, ApiKeys, Blank,   \* Blank: an empty field, a search for everything
    MaxId, PageSize, MaxCalls, MaxClicks

VARIABLES
    rows,     \* gateway_providers by id, NoRow if there is none
    born,     \* the ids given so far
    table,    \* page: items (id and row), its number, the number of pages; was it loaded?
    pageNum, q,
    loading, busy,
    form,     \* dialogOpen, editing and form
    asking,   \* the row whose deletion is to be confirmed, 0 for none
    calls, clicks

vars == <<rows, born, table, pageNum, q, loading, busy, form, asking, calls, clicks>>

RowIds == 1..MaxId
Row == [name : Names, key : ApiKeys]
NoRow == [name |-> Blank, key |-> Blank]
Live == {i \in RowIds : rows[i] # NoRow}

\* op: "create", "update", "delete" or "load"; hold: does busy wait for it?
\* page, q: what it loads afterwards; row: what update has read, then a list's rows.
Call(op, id, hold, p, query) ==
    [op |-> op, id |-> id, name |-> form.name, key |-> form.key, hold |-> hold, page |-> p,
     q |-> query, state |-> "sent", row |-> NoRow, items |-> {}, pages |-> 0]

EmptyForm == [open |-> FALSE, editing |-> 0, name |-> Blank, key |-> Blank]

TypeOK ==
    /\ rows \in [RowIds -> Row \cup {NoRow}] /\ born \in 0..MaxId
    /\ \A i \in Live : i <= born
    /\ table.page \in Nat /\ table.pages \in 0..MaxId
    /\ pageNum \in 1..MaxId /\ q \in Names \cup {Blank}
    /\ loading \in BOOLEAN /\ busy \in BOOLEAN
    /\ form \in [open : BOOLEAN, editing : 0..MaxId, name : Names \cup {Blank}, key : ApiKeys \cup {Blank}]
    /\ asking \in 0..MaxId
    /\ clicks \in 0..MaxClicks

\* Some rows, and the panel is mounted: it asks for the first page.
Init ==
    /\ born \in 0..MaxId
    /\ rows \in [RowIds -> Row \cup {NoRow}] /\ Live = 1..born
    /\ \A i, j \in Live : i # j => rows[i].name # rows[j].name
    /\ table = [items |-> {}, page |-> 0, pages |-> 0]
    /\ pageNum = 1 /\ q = Blank
    /\ loading = TRUE /\ busy = FALSE
    /\ form = EmptyForm /\ asking = 0
    /\ calls = {[op |-> "load", id |-> 0, name |-> Blank, key |-> Blank, hold |-> FALSE, page |-> 1,
                 q |-> Blank, state |-> "sent", row |-> NoRow, items |-> {}, pages |-> 0]}
    /\ clicks = 0

-----------------------------------------------------------------------------
(* The panel: no dialog is open *)

Click == clicks < MaxClicks /\ clicks' = clicks + 1 /\ UNCHANGED <<rows, born, table>>
Room == Cardinality(calls) < MaxCalls
OnPanel == ~form.open /\ asking = 0

TypeQuery ==
    /\ OnPanel /\ \E s \in Names \cup {Blank} : q' = s
    /\ UNCHANGED <<rows, born, table, pageNum, loading, busy, form, asking, calls, clicks>>

\* The page is loaded with what is in the search field now.
LoadPage(p) ==
    /\ Click /\ OnPanel /\ Room
    /\ pageNum' = p /\ loading' = TRUE
    /\ calls' = calls \cup {Call("load", 0, FALSE, p, q)}
    /\ UNCHANGED <<q, busy, form, asking>>

\* Enter in the search field works while a load is under way; the buttons do not.
Search == LoadPage(1)
Refresh == ~loading /\ LoadPage(pageNum)
PrevPage == ~loading /\ table.pages > 1 /\ table.page > 1 /\ LoadPage(table.page - 1)

\* Variant: the last page has a next one.
NextPage_PastEnd == ~loading /\ table.pages > 1 /\ LoadPage(table.page + 1)
NextPage == ~loading /\ table.pages > 1 /\ table.page < table.pages /\ LoadPage(table.page + 1)

OpenCreate ==
    /\ Click /\ OnPanel
    /\ form' = [EmptyForm EXCEPT !.open = TRUE]
    /\ UNCHANGED <<pageNum, q, loading, busy, asking, calls>>

\* The fields are the table's, except for the key, which stays empty.
OpenEdit(i) ==
    /\ Click /\ OnPanel
    /\ \E it \in table.items : it.id = i /\ form' = [open |-> TRUE, editing |-> i, name |-> it.row.name, key |-> Blank]
    /\ UNCHANGED <<pageNum, q, loading, busy, asking, calls>>

\* remove asks first; a dialog of the page is modal.
Remove(i) ==
    /\ Click /\ OnPanel /\ ~busy
    /\ \E it \in table.items : it.id = i
    /\ asking' = i
    /\ UNCHANGED <<pageNum, q, loading, busy, form, calls>>

Confirm(yes) ==
    /\ asking # 0 /\ asking' = 0
    /\ IF yes THEN Room /\ busy' = TRUE /\ calls' = calls \cup {Call("delete", asking, TRUE, pageNum, q)}
       ELSE UNCHANGED <<busy, calls>>
    /\ UNCHANGED <<rows, born, table, pageNum, q, loading, form, clicks>>

-----------------------------------------------------------------------------
(* The form, which stays editable while it is being saved *)

EditForm ==
    /\ form.open
    /\ \E n \in Names, k \in ApiKeys \cup {Blank} : form' = [form EXCEPT !.name = n, !.key = k]
    /\ UNCHANGED <<rows, born, table, pageNum, q, loading, busy, asking, calls, clicks>>

CloseForm ==
    /\ form.open /\ form' = [form EXCEPT !.open = FALSE]
    /\ UNCHANGED <<rows, born, table, pageNum, q, loading, busy, asking, calls, clicks>>

\* A new provider needs a key.
SaveForm ==
    /\ Click /\ form.open /\ ~busy /\ Room
    /\ form.name # Blank /\ (form.editing = 0 => form.key # Blank)
    /\ busy' = TRUE
    /\ calls' = calls \cup
         {IF form.editing = 0 THEN Call("create", 0, TRUE, 1, q)
          ELSE Call("update", form.editing, TRUE, pageNum, q)}
    /\ UNCHANGED <<pageNum, q, loading, form, asking>>

-----------------------------------------------------------------------------
(* The gateway *)

Moves(c, d) == calls' = (calls \ {c}) \cup {d}
ServerOnly == UNCHANGED <<table, pageNum, q, loading, busy, form, asking, clicks>>
NameTaken(n) == \E i \in Live : rows[i].name = n

Refuse(c) == Moves(c, [c EXCEPT !.state = "refused"]) /\ UNCHANGED <<rows, born>>

CreateProvider(c) ==
    /\ c.op = "create" /\ c.state = "sent"
    /\ IF NameTaken(c.name) \/ born = MaxId THEN Refuse(c)
       ELSE /\ born' = born + 1
            /\ rows' = [rows EXCEPT ![born'] = [name |-> c.name, key |-> c.key]]
            /\ Moves(c, [c EXCEPT !.state = "done"])
    /\ ServerOnly

\* Variant: a row that is gone is not refused when the form brings its own key.
FindRow_Trusts(c) ==
    /\ c.op = "update" /\ c.state = "sent"
    /\ IF (rows[c.id] = NoRow /\ c.key = Blank) \/ (NameTaken(c.name) /\ c.name # rows[c.id].name) THEN Refuse(c)
       ELSE Moves(c, [c EXCEPT !.state = "read", !.row = rows[c.id]]) /\ UNCHANGED <<rows, born>>
    /\ ServerOnly

\* UpdateProvider up to the checks.
FindRow(c) ==
    /\ c.op = "update" /\ c.state = "sent"
    /\ IF rows[c.id] = NoRow \/ (NameTaken(c.name) /\ c.name # rows[c.id].name) THEN Refuse(c)
       ELSE Moves(c, [c EXCEPT !.state = "read", !.row = rows[c.id]]) /\ UNCHANGED <<rows, born>>
    /\ ServerOnly

\* Save: the unique index of names decides, and a row that is gone comes back.
SaveRow(c) ==
    /\ c.op = "update" /\ c.state = "read"
    /\ IF \E i \in Live \ {c.id} : rows[i].name = c.name THEN Refuse(c)
       ELSE /\ rows' = [rows EXCEPT ![c.id] = [name |-> c.name, key |-> IF c.key = Blank THEN c.row.key ELSE c.key]]
            /\ Moves(c, [c EXCEPT !.state = "done"])
            /\ UNCHANGED born
    /\ ServerOnly

DeleteProvider(c) ==
    /\ c.op = "delete" /\ c.state = "sent"
    /\ rows' = [rows EXCEPT ![c.id] = NoRow]
    /\ Moves(c, [c EXCEPT !.state = "done"])
    /\ UNCHANGED born /\ ServerOnly

OtherDelete ==
    /\ clicks < MaxClicks /\ clicks' = clicks + 1
    /\ \E i \in Live : rows' = [rows EXCEPT ![i] = NoRow]
    /\ UNCHANGED <<born, table, pageNum, q, loading, busy, form, asking, calls>>

\* GatewayProviders.List: the newest first; a page past the end is empty.
Matching(query) == {i \in Live : query \in {Blank, rows[i].name}}
OnPage(query, p) ==
    {[id |-> i, row |-> rows[i]] : i \in
        {x \in Matching(query) : Cardinality({y \in Matching(query) : y > x}) \div PageSize = p - 1}}
PagesOf(query) == (Cardinality(Matching(query)) + PageSize - 1) \div PageSize

ListProviders(c) ==
    /\ c.op = "load" /\ c.state = "sent"
    /\ Moves(c, [c EXCEPT !.state = "done", !.items = OnPage(c.q, c.page), !.pages = PagesOf(c.q)])
    /\ UNCHANGED <<rows, born>> /\ ServerOnly

-----------------------------------------------------------------------------
(* Answers *)

\* The table is replaced and numbered by the answer, whichever it answers.
LoadAnswered(c) ==
    /\ c.op = "load" /\ c.state = "done"
    /\ table' = [items |-> c.items, page |-> c.page, pages |-> c.pages]
    /\ pageNum' = c.page
    /\ loading' = FALSE
    /\ busy' = (busy /\ ~c.hold)
    /\ calls' = calls \ {c}
    /\ UNCHANGED form

\* save and remove: the dialog closes, whoever has reopened it, and the load
\* that follows uses the page and the query of the click.
WriteAnswered(c) ==
    /\ c.op # "load" /\ c.state = "done"
    /\ form' = IF c.op = "delete" THEN form ELSE [form EXCEPT !.open = FALSE]
    /\ loading' = TRUE
    /\ calls' = (calls \ {c}) \cup {[Call("load", 0, TRUE, c.page, c.q) EXCEPT !.name = Blank, !.key = Blank]}
    /\ UNCHANGED <<table, pageNum, busy>>

Answered(c) ==
    /\ LoadAnswered(c) \/ WriteAnswered(c)
    /\ UNCHANGED <<rows, born, q, asking, clicks>>

\* Variant: the buttons stay disabled.
Failed_KeepsBusy(c) ==
    /\ calls' = calls \ {c}
    /\ loading' = (loading /\ c.op # "load")
    /\ UNCHANGED <<rows, born, table, pageNum, q, busy, form, asking, clicks>>

\* A refusal, an error or a lost answer.
Failed(c) ==
    /\ calls' = calls \ {c}
    /\ loading' = (loading /\ c.op # "load")
    /\ busy' = (busy /\ ~c.hold)
    /\ UNCHANGED <<rows, born, table, pageNum, q, form, asking, clicks>>

Next ==
    \/ TypeQuery \/ Search \/ Refresh \/ PrevPage \/ NextPage
    \/ OpenCreate \/ EditForm \/ CloseForm \/ SaveForm \/ OtherDelete
    \/ \E i \in RowIds : OpenEdit(i) \/ Remove(i)
    \/ \E yes \in BOOLEAN : Confirm(yes)
    \/ \E c \in calls : CreateProvider(c) \/ FindRow(c) \/ SaveRow(c) \/ DeleteProvider(c) \/ ListProviders(c)
                         \/ Answered(c) \/ Failed(c)

Spec == Init /\ [][Next]_vars

-----------------------------------------------------------------------------
(* Properties *)

\* busy is on exactly while one save or one deletion, with the load that follows
\* it, is under way; there are never two, although the form can be reopened and
\* the table's buttons work meanwhile.
BusyIsExact ==
    LET held == {c \in calls : c.hold} IN
    Cardinality(held) <= 1 /\ (busy <=> held # {})

\* A deleted provider comes back in one case only: an update had read its row
\* before it was deleted, and saves it afterwards.
ReviveStep ==
    \A i \in 1..born :
        (rows[i] = NoRow /\ rows'[i] # NoRow) =>
            \E c \in calls : c.op = "update" /\ c.id = i /\ c.state = "read" /\ c.row # NoRow
OnlyRacesRevive == [][ReviveStep]_vars

\* What the empty table says: there are no providers yet.  Not so: after the
\* deletion of the only row of the last page that page is loaded again, it is
\* empty, and with one page left the buttons to leave it are gone.
EmptyMeansNone ==
    (table.page # 0 /\ table.items = {} /\ calls = {} /\ q = Blank) => Live = {}

-----------------------------------------------------------------------------
\* What carries them from step to step: whatever holds the buttons is alone, nobody can
\* ask for a deletion meanwhile, and an update that goes on has found its row.
IsCall(c) == c \in [op : {c.op}, id : {c.id}, name : {c.name}, key : {c.key}, hold : BOOLEAN,
                   page : {c.page}, q : {c.q}, state : {c.state}, row : {c.row},
                   items : {c.items}, pages : {c.pages}]
HoldInv ==
    /\ \A c \in calls : IsCall(c) /\ (c.op # "load" => c.hold)
    /\ \A c, d \in calls : c.hold /\ d.hold => c = d
    /\ busy \in BOOLEAN /\ (busy <=> \E c \in calls : c.hold)
    /\ asking # 0 => ~busy /\ ~form.open
    /\ form \in [open : BOOLEAN, editing : {form.editing}, name : {form.name}, key : {form.key}]
FoundInv == \A c \in calls : c.state = "read" => c.op = "update" /\ c.row # NoRow
RowsInv ==
    /\ born \in 0..MaxId /\ DOMAIN rows = RowIds
DirectInv == HoldInv /\ FoundInv /\ RowsInv
=============================================================================
