------------------------------ MODULE UsageTable ------------------------------
(***************************************************************************)
(* The table of usage records (components/gateway/usage-table.tsx): one    *)
(* row per attempt in the log, one main row per request in the table; the  *)
(* columns, kept in the browser's storage; and the dialog that deletes     *)
(* records.  The log is that of GatewayDispatch: attempts of concurrent    *)
(* requests, interleaved; an attempt that succeeds is the last one.        *)
(*                                                                         *)
(* Abstractions: a time is the number of records written before it; cells, *)
(* tooltips and texts are left out.                                        *)
(***************************************************************************)
EXTENDS Integers, FiniteSets, SequencesExt

CONSTANTS
    Requests,  \* request ids
    MaxRows,   \* bound of the records ever written
    PageSize,
    Cuts,      \* the times a deletion may be given, as first ids to stay
    Columns,
    Default    \* the columns shown by default

VARIABLES
    log,        \* gateway_usage_logs: records by ascending id
    written,    \* the records ever written
    items,      \* the page on display, newest first
    visible,    \* colVisible
    stored,     \* localStorage
    open,       \* the dialog is open
    range,      \* mode and beforeLocal: delete what is older than a time, or all
    ack,        \* the tick at "cannot be undone"
    matched,    \* the number previewed and the range it is of, or none
    preview, cleanup   \* the range of the request under way, or none

table == <<items, visible, stored>>
dialog == <<open, range, ack, matched, preview, cleanup>>
vars == <<log, written, table, dialog>>

Row == [id : 1..MaxRows, req : Requests, n : 1..MaxRows, ok : BOOLEAN]
All == MaxRows + 1
NoTime == 0                      \* the field was cleared
Ranges == Cuts \cup {NoTime, All}
None == -1

TypeOK ==
    /\ log \in Seq(Row) /\ written \in 0..MaxRows /\ items \in Seq(Row)
    /\ visible \subseteq Columns /\ stored \in [Columns -> {"on", "off", "absent"}]
    /\ open \in BOOLEAN /\ range \in Ranges /\ ack \in BOOLEAN
    /\ matched \in [count : Nat, of : Ranges] \cup {[count |-> None, of |-> None]}
    /\ preview \in Ranges \cup {None} /\ cleanup \in Ranges \cup {None}

NoCount == [count |-> None, of |-> None]
\* Variant: what is stored is taken as it is.
LoadColumns_Raw(s) == {c \in Columns : s[c] = "on" \/ (s[c] = "absent" /\ c \in Default)}

\* loadUsageColVisibility: a column the storage does not know is as by default,
\* and a table without columns is not shown.
LoadColumns(s) ==
    LET next == {c \in Columns : s[c] = "on" \/ (s[c] = "absent" /\ c \in Default)}
    IN  IF next = {} THEN Default ELSE next

Init ==
    /\ log = <<>> /\ written = 0 /\ items = <<>>
    /\ stored \in [Columns -> {"on", "off", "absent"}]
    /\ visible = LoadColumns(stored)
    /\ open = FALSE /\ range = NoTime /\ ack = FALSE /\ matched = NoCount
    /\ preview = None /\ cleanup = None

-----------------------------------------------------------------------------
(* The log and the pages of it *)

RowsOf(s, q) == SelectSeq(s, LAMBDA r : r.req = q)

\* An attempt of a request ends.
Attempt(q) ==
    LET mine == RowsOf(log, q) IN
    /\ written < MaxRows
    /\ mine # <<>> => ~Last(mine).ok
    /\ \E ok \in BOOLEAN :
          log' = Append(log, [id |-> written + 1, req |-> q, ok |-> ok,
                              n |-> IF mine = <<>> THEN 1 ELSE Last(mine).n + 1])
    /\ written' = written + 1
    /\ UNCHANGED <<table, dialog>>

\* A load of the table: ORDER BY id DESC, one page.
ShowPage ==
    /\ \E p \in 0..MaxRows : LET newest == Reverse(log) IN
          items' = SubSeq(newest, p * PageSize + 1,
                          IF (p + 1) * PageSize < Len(log) THEN (p + 1) * PageSize ELSE Len(log))
    /\ UNCHANGED <<log, written, visible, stored, dialog>>

\* chainByReq: the attempts on this page, the first one first.
Chain(q) == SetToSortSeq(ToSet(RowsOf(items, q)),
                         LAMBDA a, b : a.n < b.n \/ (a.n = b.n /\ a.id < b.id))

\* Variant: the newest record of the page stands for the request as it is.
MainRow_First(q) == Head(Chain(q))

\* The success if there is one, else the last attempt.
MainRow(q) ==
    LET good == {r \in ToSet(Chain(q)) : r.ok}
    IN  IF good = {} THEN Last(Chain(q)) ELSE CHOOSE r \in good : \A s \in good : r.n >= s.n

-----------------------------------------------------------------------------
(* Columns *)

Save(v) == stored' = [c \in Columns |-> IF c \in v THEN "on" ELSE "off"]

\* toggleCol: the last one stays.
ToggleCol(c) ==
    /\ visible # {c}
    /\ visible' = IF c \in visible THEN visible \ {c} ELSE visible \cup {c}
    /\ Save(visible')
    /\ UNCHANGED <<log, written, items, dialog>>

ResetCols ==
    /\ visible' = Default /\ Save(Default)
    /\ UNCHANGED <<log, written, items, dialog>>

Reload ==
    /\ visible' = LoadColumns(stored)
    /\ items' = <<>>
    /\ open' = FALSE /\ matched' = NoCount /\ preview' = None /\ cleanup' = None
    /\ UNCHANGED <<log, written, stored, range, ack>>

-----------------------------------------------------------------------------
(* UsageCleanupDialog *)

OpenDialog ==
    /\ ~open /\ open' = TRUE
    /\ range' \in Cuts /\ ack' = FALSE /\ matched' = NoCount
    /\ UNCHANGED <<log, written, table, preview, cleanup>>

\* The button is disabled while records are deleted, the escape key is not.
CloseDialog ==
    /\ open /\ open' = FALSE
    /\ UNCHANGED <<log, written, table, range, ack, matched, preview, cleanup>>

\* Variant: the number stays.
ChangeRange_KeepsCount(x) ==
    /\ open /\ x # range
    /\ range' = x
    /\ UNCHANGED <<log, written, table, open, ack, matched, preview, cleanup>>

\* Another mode or another time.
ChangeRange(x) ==
    /\ open /\ x # range
    /\ range' = x /\ matched' = NoCount
    /\ UNCHANGED <<log, written, table, open, ack, preview, cleanup>>

Tick ==
    /\ open /\ ack' = ~ack
    /\ UNCHANGED <<log, written, table, open, range, matched, preview, cleanup>>

RunPreview ==
    /\ open /\ preview = None /\ range # NoTime
    /\ preview' = range
    /\ UNCHANGED <<log, written, table, open, range, ack, matched, cleanup>>

\* canSubmit
RunCleanup ==
    /\ open /\ ack /\ cleanup = None /\ range # NoTime
    /\ cleanup' = range
    /\ UNCHANGED <<log, written, table, open, range, ack, matched, preview>>

Older(x) == SelectSeq(log, LAMBDA r : r.id < x)

PreviewAnswered ==
    /\ preview # None
    /\ matched' = [count |-> Len(Older(preview)), of |-> preview]
    /\ preview' = None
    /\ UNCHANGED <<log, written, table, open, range, ack, cleanup>>

\* The answer closes the dialog, were it a new one; the page loads again.
CleanupAnswered ==
    /\ cleanup # None
    /\ log' = SelectSeq(log, LAMBDA r : r.id >= cleanup)
    /\ open' = FALSE /\ cleanup' = None
    /\ UNCHANGED <<written, table, range, ack, matched, preview>>

Failed ==
    /\ \/ preview # None /\ preview' = None /\ UNCHANGED cleanup
       \/ cleanup # None /\ cleanup' = None /\ UNCHANGED preview
    /\ UNCHANGED <<log, written, table, open, range, ack, matched>>

Next ==
    \/ \E q \in Requests : Attempt(q)
    \/ ShowPage
    \/ \E c \in Columns : ToggleCol(c)
    \/ ResetCols \/ Reload
    \/ OpenDialog \/ CloseDialog \/ Tick \/ RunPreview \/ RunCleanup
    \/ \E x \in Ranges : ChangeRange(x)
    \/ PreviewAnswered \/ CleanupAnswered \/ Failed

Spec == Init /\ [][Next]_vars

-----------------------------------------------------------------------------
(* Properties *)

\* The main row of a request tells how it ended so far: a failed attempt stands
\* for a request only if no later attempt of it is on the page, and no success
\* at all, wherever the page was cut and whatever was deleted.
MainRowTellsOutcome ==
    \A q \in {r.req : r \in ToSet(items)} :
        \A r \in ToSet(RowsOf(items, q)) : MainRow(q).n >= r.n /\ (r.ok => MainRow(q).ok)

\* "At least one column": also of what an older version left in the storage.
SomethingVisible == visible # {}

\* "The preview is cleared when a condition changes": the number in the dialog is
\* of another range than the one chosen only after an answer that came late.
CountFits(m, x) == m.of \in {None, x}
StaleCountStep == (CountFits(matched, range) /\ ~CountFits(matched, range)') => preview # None /\ preview' = None
StaleCountOnlyLate == [][StaleCountStep]_vars
=============================================================================
