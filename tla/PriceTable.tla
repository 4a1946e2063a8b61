----------------------------- MODULE PriceTable -----------------------------
(***************************************************************************)
(* The price overrides of the gateway: the table with its editing dialog,  *)
(* the dialog of the built-in prices, and the rows in the database.  A row *)
(* is written by the name of its model and deleted by its id; the page     *)
(* goes by the list it loaded last, and lists are not numbered.            *)
(*                                                                         *)
(* A price is one value, whatever the billing mode and its fields; the     *)
(* built-in prices are known by the search that found them.                *)
(***************************************************************************)
EXTENDS Naturals, FiniteSets

CONSTANTS
    Models, Blank,     \* names of models; a name field left empty
    Prices, NoPrice,   \* prices; the absence of one
    Queries, NoList,   \* searches of the built-in prices; an empty list
    MaxRows,           \* bound of the ids given out
    MaxCalls, MaxClicks

VARIABLES
    table,       \* model_price_overrides
    lastID,      \* the id given out last
    shown,       \* prices: the table as last loaded
    form,        \* priceForm, editingPrice and priceDialogOpen
    asking,      \* the row that the confirmation asks about
    busy, loading,
    defaults,    \* the dialog of the built-in prices
    calls, clicks,
    doubt        \* did a list cross a write, or was an answer lost?

vars == <<table, lastID, shown, form, asking, busy, loading, defaults, calls, clicks, doubt>>

Row == [id : 0..MaxRows, price : Prices \cup {NoPrice}, on : BOOLEAN]
NoRow == [id |-> 0, price |-> NoPrice, on |-> FALSE]
Exists(rows, m) == rows[m].id # 0
NoOverrides == [m \in Models |-> NoRow]

\* emptyPriceForm, in a closed dialog.
ClosedForm == [open |-> FALSE, of |-> 0, model |-> Blank, price |-> NoPrice, on |-> TRUE]

\* id: the row edited or deleted; rows: the list that was answered.
Call(op, m, id, price, on, q, hold) ==
    [op |-> op, model |-> m, id |-> id, price |-> price, on |-> on, query |-> q,
     holds |-> hold, served |-> FALSE, rows |-> NoOverrides]
ListCall(hold) == Call("list", Blank, 0, NoPrice, FALSE, NoList, hold)

TypeOK ==
    /\ table \in [Models -> Row] /\ shown \in [Models -> Row] /\ lastID \in 0..MaxRows
    /\ form \in [open : BOOLEAN, of : 0..MaxRows, model : Models \cup {Blank},
                 price : Prices \cup {NoPrice}, on : BOOLEAN]
    /\ asking \in Models \cup {Blank}
    /\ busy \in BOOLEAN /\ loading \in BOOLEAN /\ doubt \in BOOLEAN
    /\ defaults \in [open : BOOLEAN, list : Queries \cup {NoList},
                     searched : Queries \cup {NoList}, loading : BOOLEAN, raced : BOOLEAN]
    /\ clicks \in 0..MaxClicks

\* The page asks for the list when it is mounted.
Init ==
    /\ \E m \in Models \cup {Blank}, p \in Prices, on \in BOOLEAN :
          /\ table = [n \in Models |-> IF n = m THEN [id |-> 1, price |-> p, on |-> on] ELSE NoRow]
          /\ lastID = IF m = Blank THEN 0 ELSE 1
    /\ shown = NoOverrides
    /\ form = ClosedForm /\ asking = Blank
    /\ busy = FALSE /\ loading = FALSE /\ doubt = FALSE
    /\ defaults = [open |-> FALSE, list |-> NoList, searched |-> NoList,
                   loading |-> FALSE, raced |-> FALSE]
    /\ calls = {ListCall(FALSE)}
    /\ clicks = 0

-----------------------------------------------------------------------------
(* The page *)

\* A modal dialog lets no click through.
Free == ~form.open /\ asking = Blank /\ ~defaults.open
Click == clicks < MaxClicks /\ clicks' = clicks + 1 /\ UNCHANGED <<table, lastID, shown>>
Room == Cardinality(calls) < MaxCalls

OpenCreatePrice ==
    /\ Click /\ Free /\ ~busy
    /\ form' = [ClosedForm EXCEPT !.open = TRUE]
    /\ UNCHANGED <<asking, busy, loading, defaults, calls, doubt>>

OpenEditPrice(m) ==
    /\ Click /\ Free /\ ~busy /\ Exists(shown, m)
    /\ form' = [open |-> TRUE, of |-> shown[m].id, model |-> m, price |-> shown[m].price,
                on |-> shown[m].on]
    /\ UNCHANGED <<asking, busy, loading, defaults, calls, doubt>>

\* The fields of the dialog, which stay editable while it is saved.
EditForm ==
    /\ form.open
    /\ \E m \in Models, p \in Prices, on \in BOOLEAN :
          form' = [form EXCEPT !.model = m, !.price = p, !.on = on]
    /\ UNCHANGED <<table, lastID, shown, asking, busy, loading, defaults, calls, clicks, doubt>>

\* Escape and the cross close it at any time.  (Every opening fills the fields
\* anew.)
CloseForm ==
    /\ form.open /\ form' = ClosedForm
    /\ UNCHANGED <<table, lastID, shown, asking, busy, loading, defaults, calls, clicks, doubt>>

SavePrice ==
    /\ form.open /\ ~busy /\ form.model # Blank /\ Room
    /\ busy' = TRUE
    /\ calls' = calls \cup {Call("save", form.model, form.of, form.price, form.on, NoList, TRUE)}
    /\ UNCHANGED <<table, lastID, shown, form, asking, loading, defaults, clicks, doubt>>

AskDelete(m) ==
    /\ Click /\ Free /\ ~busy /\ Exists(shown, m)
    /\ asking' = m
    /\ UNCHANGED <<form, busy, loading, defaults, calls, doubt>>

\* The list may have changed below the question: the row asked about is kept
\* (by its id) from the click.
DeletePrice(yes) ==
    /\ asking # Blank /\ asking' = Blank
    /\ IF yes /\ Exists(shown, asking)
       THEN /\ Room /\ busy' = TRUE
            /\ calls' = calls \cup {Call("delete", asking, shown[asking].id, NoPrice, FALSE, NoList, TRUE)}
       ELSE UNCHANGED <<busy, calls>>
    /\ UNCHANGED <<table, lastID, shown, form, loading, defaults, clicks, doubt>>

\* The page's refresh button, the prices' part of it.
RefreshAll ==
    /\ Click /\ Free /\ ~loading /\ Room
    /\ loading' = TRUE
    /\ calls' = calls \cup {ListCall(FALSE)}
    /\ UNCHANGED <<form, asking, busy, defaults, doubt>>

\* loadDefaultPrices, at the opening of the dialog, on its button and on Enter,
\* which is never disabled, with the query that the field holds then.
LoadDefaultPrices ==
    /\ Click /\ Room
    /\ \/ Free /\ ~busy
       \/ defaults.open
    /\ \E q \in Queries :
          /\ defaults' = [defaults EXCEPT !.open = TRUE, !.loading = TRUE, !.searched = q,
                             !.raced = \E c \in calls : c.op = "defaults"]
          /\ calls' = calls \cup {Call("defaults", Blank, 0, NoPrice, FALSE, q, FALSE)}
    /\ UNCHANGED <<form, asking, busy, loading, doubt>>

CloseDefaults ==
    /\ defaults.open /\ defaults' = [defaults EXCEPT !.open = FALSE]
    /\ UNCHANGED <<table, lastID, shown, form, asking, busy, loading, calls, clicks, doubt>>

\* A built-in price becomes a new override, named after its model.
ApplyDefaultAsOverride ==
    /\ defaults.open /\ ~defaults.loading /\ defaults.list # NoList
    /\ \E m \in Models, p \in Prices :
          form' = [open |-> TRUE, of |-> 0, model |-> m, price |-> p, on |-> TRUE]
    /\ defaults' = [defaults EXCEPT !.open = FALSE]
    /\ UNCHANGED <<table, lastID, shown, asking, busy, loading, calls, clicks, doubt>>

-----------------------------------------------------------------------------
(* The server *)

\* Variant: the row that was opened is written, under whatever name.
Upsert_ById(c) ==
    LET old == {m \in Models : c.id # 0 /\ table[m].id = c.id} IN
    /\ old # {} \/ lastID < MaxRows
    /\ lastID' = IF old = {} THEN lastID + 1 ELSE lastID
    /\ table' = [m \in Models |->
                   IF m = c.model
                   THEN [id |-> IF old = {} THEN lastID + 1 ELSE c.id, price |-> c.price, on |-> c.on]
                   ELSE IF m \in old THEN NoRow ELSE table[m]]

\* Upsert: the row of that name is written whole.  A new row has its switch on
\* whatever was sent: the column's default stands in for the zero value.
Upsert(c) ==
    IF Exists(table, c.model)
    THEN /\ table' = [table EXCEPT ![c.model] = [id |-> @.id, price |-> c.price, on |-> c.on]]
         /\ UNCHANGED lastID
    ELSE /\ lastID < MaxRows /\ lastID' = lastID + 1
         /\ table' = [table EXCEPT ![c.model] = [id |-> lastID + 1, price |-> c.price, on |-> TRUE]]

\* Delete: by id, and content when there is none.
DeleteRow(c) ==
    /\ table' = [m \in Models |-> IF table[m].id = c.id THEN NoRow ELSE table[m]]
    /\ UNCHANGED lastID

Serve(c) ==
    /\ c \in calls /\ ~c.served
    /\ CASE c.op = "save" -> Upsert(c)
         [] c.op = "delete" -> DeleteRow(c)
         [] OTHER -> UNCHANGED <<table, lastID>>
    /\ calls' = (calls \ {c}) \cup
         {[c EXCEPT !.served = TRUE, !.rows = IF c.op = "list" THEN table ELSE NoOverrides]}
    \* lists that were read before this write are behind
    /\ doubt' = (doubt \/ (c.op \in {"save", "delete"} /\ \E d \in calls : d.op = "list" /\ d.served))
    /\ UNCHANGED <<shown, form, asking, busy, loading, defaults, clicks>>

-----------------------------------------------------------------------------
(* Answers *)

\* Variant: the list is not asked for again.
WriteAnswered_NoReload(c) ==
    /\ c.op \in {"save", "delete"}
    /\ form' = IF c.op = "save" THEN ClosedForm ELSE form
    /\ calls' = calls \ {c}
    /\ busy' = FALSE
    /\ UNCHANGED <<shown, loading, defaults>>

\* A save closes the dialog, empties the form and asks for the list again.
WriteAnswered(c) ==
    /\ c.op \in {"save", "delete"}
    /\ form' = IF c.op = "save" THEN ClosedForm ELSE form
    /\ calls' = (calls \ {c}) \cup {ListCall(TRUE)}
    /\ UNCHANGED <<shown, busy, loading, defaults>>

LoadPrices(c) ==
    /\ c.op = "list"
    /\ shown' = c.rows
    /\ calls' = calls \ {c}
    /\ busy' = (busy /\ ~c.holds) /\ loading' = (loading /\ c.holds)
    /\ UNCHANGED <<form, defaults>>

DefaultsAnswered(c) ==
    /\ c.op = "defaults"
    /\ defaults' = [defaults EXCEPT !.list = c.query, !.loading = FALSE]
    /\ calls' = calls \ {c}
    /\ UNCHANGED <<shown, form, busy, loading>>

Answered(c) ==
    /\ c \in calls /\ c.served
    /\ WriteAnswered(c) \/ LoadPrices(c) \/ DefaultsAnswered(c)
    /\ UNCHANGED <<table, lastID, asking, clicks, doubt>>

\* Variant: the list of an earlier search stays.
DefaultsFailed_KeepsList == [defaults EXCEPT !.loading = FALSE]
DefaultsFailed == [defaults EXCEPT !.loading = FALSE, !.list = NoList]

\* A toast; a write whose answer is lost, or whose list is, leaves the page behind.
Failed(c) ==
    /\ c \in calls
    /\ calls' = calls \ {c}
    /\ defaults' = IF c.op = "defaults" THEN DefaultsFailed ELSE defaults
    /\ busy' = (busy /\ ~c.holds)
    /\ loading' = (loading /\ (c.op # "list" \/ c.holds))
    /\ doubt' = (doubt \/ c.op = "list" \/ (c.served /\ c.op # "defaults"))
    /\ UNCHANGED <<table, lastID, shown, form, asking, clicks>>

Next ==
    \/ OpenCreatePrice \/ EditForm \/ CloseForm \/ SavePrice \/ RefreshAll
    \/ \E m \in Models : OpenEditPrice(m) \/ AskDelete(m)
    \/ \E yes \in BOOLEAN : DeletePrice(yes)
    \/ LoadDefaultPrices \/ CloseDefaults \/ ApplyDefaultAsOverride
    \/ \E c \in calls : Serve(c) \/ Answered(c) \/ Failed(c)

Spec == Init /\ [][Next]_vars

-----------------------------------------------------------------------------
(* Properties *)

\* A deletion goes by the id of a list that may be old, and yet removes no
\* override but that of the model that the question named: ids and names never
\* part, also when an override is "renamed" in the dialog.
DeleteStep ==
    \A c \in calls, m \in Models :
        (c.op = "delete" /\ ~c.served /\ c \notin calls' /\ Exists(table, m) /\ ~Exists(table, m)')
            => m = c.model
DeleteNamesItsRow == [][DeleteStep]_vars

\* When nothing is under way the page shows the table, unless a list that was
\* read before a write came in late, or an answer was lost.
SettledTableIsServers == (calls = {} /\ ~doubt) => shown = table

\* The list of built-in prices belongs to the last search, or is empty, unless
\* a search was begun while another was under way.
DefaultsAnswerSearch ==
    (~defaults.loading /\ ~defaults.raced) => defaults.list \in {defaults.searched, NoList}

\* What the dialog says of its switch: an override that is switched off is kept,
\* and billing goes by the built-in price.  Not so for a new one.
SaveStep ==
    \A c \in calls : (c.op = "save" /\ ~c.served /\ table' # table /\ c \notin calls')
                        => table'[c.model].on = c.on
OffMeansDefault == [][SaveStep]_vars

-----------------------------------------------------------------------------
\* What carries them from step to step.  Whoever still holds an id, the table knows it
\* by the same name or not at all, since ids are not given out again.
IsCall(c) == c \in [op : {c.op}, model : {c.model}, id : Nat, price : {c.price}, on : {c.on},
                   query : {c.query}, holds : {c.holds}, served : BOOLEAN, rows : {c.rows}]
AnyRow == [id : Nat, price : Prices \cup {NoPrice}, on : BOOLEAN]
Knows(id, m) == id <= lastID /\ \A n \in Models : id # 0 /\ table[n].id = id => n = m
Known(rows) == rows \in [Models -> AnyRow] /\ \A m \in Models : Knows(rows[m].id, m)
IdInv ==
    /\ lastID \in Nat /\ Known(table) /\ Known(shown)
    /\ \A c \in calls : /\ IsCall(c) /\ Known(c.rows)
                        /\ c.op = "delete" => c.id # 0 /\ Knows(c.id, c.model)
                        /\ c.op = "save" => c.model \in Models /\ [id |-> 0, price |-> c.price, on |-> c.on] \in AnyRow

\* A page that shows another table has a list on the way that will show this one, or a
\* write whose answer asks for one; and who searched alone gets what was searched for.
Coming(c) == \/ c.op \in {"save", "delete"} /\ c.served
             \/ c.op = "list" /\ ~c.served
Current(c) == c.op = "list" /\ c.served
ShownInv == ~doubt =>
    /\ \A c \in calls : Current(c) => c.rows = table
    /\ shown = table \/ \E c \in calls : Coming(c) \/ Current(c)
SearchInv ==
    /\ defaults \in [open : BOOLEAN, list : {defaults.list}, searched : {defaults.searched},
                     loading : BOOLEAN, raced : BOOLEAN]
    /\ ~defaults.raced => \A c \in calls : c.op = "defaults" => c.query = defaults.searched
FormTypes ==
    /\ form \in [open : BOOLEAN, of : Nat, model : Models \cup {Blank},
                 price : Prices \cup {NoPrice}, on : BOOLEAN]
    /\ asking \in Models \cup {Blank}
TableInv == IdInv /\ ShownInv /\ SearchInv /\ DefaultsAnswerSearch /\ FormTypes
=============================================================================
