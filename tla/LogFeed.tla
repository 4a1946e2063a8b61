-------------------------------- MODULE LogFeed --------------------------------
(***************************************************************************)
(* The dialogs that page through a log: alerts sent (AlertFeed of          *)
(* bottom-panels.tsx) and changes of ratios (multiplier-changes.tsx).      *)
(* Pages are asked for by offset, newest row first, and appended to what   *)
(* is shown, while the log grows at its head, loses the rows of deleted    *)
(* channels and, at its end, those that are too old.  The server counts    *)
(* the rows and reads the page in two statements.                          *)
(*                                                                         *)
(* A row is its id, the number of rows ever written before it and one.     *)
(***************************************************************************)
EXTENDS Integers, FiniteSets, Sequences, SequencesExt

CONSTANTS
    Channels,  \* the upstream channels that rows are about
    Owner,     \* the channel a row is about
    Stored,    \* rows in the log before the dialog is first opened
    PageSize,  \* rows of a page
    MaxRows,   \* bound: rows ever written
    MaxOpens   \* bound: openings of the dialog

FeedAssumption == PageSize \in Nat \ {0} /\ Stored \in 0..MaxRows

VARIABLES
    log,       \* the table, newest first
    written,   \* rows ever written
    open, page, feed, pages, loading, error,   \* the state of the dialog
    calls,     \* the requests for pages whose effect has not been cleaned up
    opens,     \* openings so far
    first,     \* witness: rows written when the shown first page was read
    lost,      \* witness: rows of deleted channels that have gone since then
    unseen,    \* witness: rows written while the last shown page was being counted and read
    skipped    \* witness: the dialog went on from a page that had failed

view == <<open, page, feed, pages, loading, error, opens, skipped>>
vars == <<log, written, view, calls, first, lost, unseen>>

Rows == 1..MaxRows

\* A request: counted is the number of rows the server has counted, -1 before it
\* has; seen is written at that time, and lost and read the same for the page.
Call == [page : 1..(MaxRows + 1), counted : -1..MaxRows, seen : 0..MaxRows,
         items : Seq(Rows), read : -1..MaxRows, gone : 0..MaxRows]

Ask(p) == [page |-> p, counted |-> -1, seen |-> 0, items |-> <<>>,
           read |-> -1, gone |-> 0]

TypeOK ==
    /\ log \in Seq(Rows) /\ feed \in Seq(Rows)
    /\ written \in 0..MaxRows /\ first \in 0..MaxRows
    /\ lost \in 0..MaxRows /\ unseen \in 0..MaxRows
    /\ open \in BOOLEAN /\ loading \in BOOLEAN /\ error \in BOOLEAN /\ skipped \in BOOLEAN
    /\ page \in 1..(MaxRows + 1) /\ pages \in 1..(MaxRows + 1) /\ opens \in 0..MaxOpens
    /\ calls \subseteq Call

Init ==
    /\ log = [i \in 1..Stored |-> Stored + 1 - i] /\ written = Stored
    /\ open = FALSE /\ page = 1 /\ feed = <<>> /\ pages = 1
    /\ loading = FALSE /\ error = FALSE /\ skipped = FALSE
    /\ calls = {} /\ opens = 0 /\ first = 0 /\ lost = 0 /\ unseen = 0

PagesOf_Floor(total) == IF total < PageSize THEN 1 ELSE total \div PageSize
PagesOf(total) == IF total = 0 THEN 1 ELSE (total + PageSize - 1) \div PageSize

\* The cleanup of an effect sets cancelled: what its request brings is ignored, so
\* that the request leaves the model.
Cleanup_Forgotten(cs) == cs
Cleanup(cs) == {}

-----------------------------------------------------------------------------
(* The dialog *)

\* openDetail, and the effect that its new page and detailOpen set off.
Open ==
    /\ ~open /\ opens < MaxOpens
    /\ open' = TRUE /\ page' = 1 /\ feed' = <<>> /\ pages' = 1
    /\ error' = FALSE /\ loading' = TRUE /\ skipped' = FALSE /\ opens' = opens + 1
    /\ calls' = Cleanup(calls) \cup {Ask(1)}
    /\ UNCHANGED <<log, written, first, lost, unseen>>

\* Closing leaves everything as it is but the effect.
Close ==
    /\ open /\ open' = FALSE
    /\ calls' = Cleanup(calls)
    /\ UNCHANGED <<log, written, page, feed, pages, loading, error, opens, skipped, first, lost, unseen>>

\* loadNextPage, which the button and the end of scrolling call, and the effect.
LoadNextPage ==
    /\ open /\ ~loading /\ page < pages
    /\ page' = page + 1 /\ loading' = TRUE /\ error' = FALSE
    /\ skipped' = (skipped \/ error)
    /\ calls' = Cleanup(calls) \cup {Ask(page + 1)}
    /\ UNCHANGED <<log, written, open, feed, pages, opens, first, lost, unseen>>

\* What the page does with the items of an answer.
Shown(p, items) == IF p = 1 THEN items ELSE feed \o items

Answer(c) ==
    /\ c.read >= 0 /\ calls' = calls \ {c}
    /\ feed' = Shown(c.page, c.items)
    /\ pages' = PagesOf(c.counted)
    /\ loading' = FALSE
    /\ first' = IF c.page = 1 THEN c.read ELSE first
    /\ lost' = IF c.page = 1 THEN c.gone ELSE lost
    /\ unseen' = c.read - c.seen
    /\ UNCHANGED <<log, written, open, page, error, opens, skipped>>

\* The request fails before or after the server has worked on it.
Fail(c) ==
    /\ calls' = calls \ {c}
    /\ error' = TRUE /\ loading' = FALSE
    /\ UNCHANGED <<log, written, open, page, feed, pages, opens, skipped, first, lost, unseen>>

-----------------------------------------------------------------------------
(* The server *)

\* ListLogsPage and ListChangesPage: Count ...
Count(c) ==
    /\ c.counted = -1
    /\ calls' = (calls \ {c}) \cup {[c EXCEPT !.counted = Len(log), !.seen = written]}
    /\ UNCHANGED <<log, written, view, first, lost, unseen>>

\* ... and Find with its Offset and Limit.
UpTo(n) == IF n < Len(log) THEN n ELSE Len(log)
Slice_FromZero(p) == SubSeq(log, p * PageSize, UpTo(p * PageSize + PageSize - 1))
Slice(p) == SubSeq(log, (p - 1) * PageSize + 1, UpTo(p * PageSize))

Find(c) ==
    /\ c.counted >= 0 /\ c.read = -1
    /\ calls' = (calls \ {c}) \cup {[c EXCEPT !.items = Slice(c.page), !.read = written]}
    /\ UNCHANGED <<log, written, view, first, lost, unseen>>

\* AppendLog, AppendChange.
Write ==
    /\ written < MaxRows
    /\ written' = written + 1 /\ log' = <<written + 1>> \o log
    /\ UNCHANGED <<view, calls, first, lost, unseen>>

\* The rows of a channel go with it (Channels.Delete).
DeleteChannel(ch) ==
    LET Others(id) == Owner[id] # ch
        n == Len(log) - Len(SelectSeq(log, Others))
    IN /\ n > 0 /\ log' = SelectSeq(log, Others)
       /\ lost' = lost + n
       /\ calls' = {IF c.read >= 0 /\ c.page = 1 THEN [c EXCEPT !.gone = @ + n] ELSE c : c \in calls}
       /\ UNCHANGED <<written, view, first, unseen>>

\* DeleteLogsBefore: the oldest rows.
DeleteBefore ==
    /\ log # <<>> /\ log' = Front(log)
    /\ UNCHANGED <<written, view, calls, first, lost, unseen>>

-----------------------------------------------------------------------------
Next ==
    \/ Open \/ Close \/ LoadNextPage \/ Write \/ DeleteBefore
    \/ \E c \in calls : Answer(c) \/ Fail(c) \/ Count(c) \/ Find(c)
    \/ \E ch \in Channels : DeleteChannel(ch)

Spec == Init /\ [][Next]_vars

-----------------------------------------------------------------------------
(* Properties *)

\* An open dialog that says it is loading has one request under way, and at no other time:
\* nothing of an earlier opening ends or prolongs it.
LoadingIsExact ==
    open => Cardinality(calls) = (IF loading THEN 1 ELSE 0)

\* The rows the reader has scrolled past, and does not see: once the button is off
\* that is every row of the log that is no newer than the first page.
ScrolledPast == {id \in ToSet(log) :
    /\ id <= first /\ id \notin ToSet(feed)
    /\ \/ page >= pages
       \/ \E shown \in ToSet(feed) : shown < id}

Settled == open /\ ~loading /\ ~error /\ ~skipped

\* As long as no page has failed, a reader misses a row only because rows of a
\* deleted channel moved it to a page already read, or, at the end, because rows
\* were written between the count and the read of the last page.
NoRowIsSkipped == Settled => Cardinality(ScrolledPast) <= lost + unseen

\* A row is shown twice only because a new one has pushed it to the next page.
RepeatsAreNewRows ==
    Settled /\ feed # <<>> => Len(feed) - Cardinality(ToSet(feed)) <= written - first

\* What carries LoadingIsExact from step to step.
OnePage ==
    open => /\ loading => \E c \in calls : calls = {c}
            /\ ~loading => calls = {}
=============================================================================
