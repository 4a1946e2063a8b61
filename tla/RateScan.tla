-------------------------------- MODULE RateScan --------------------------------
(***************************************************************************)
(* The scan of a channel's group ratios (backend/monitor/service.go): what *)
(* the upstream answers is compared, statement by statement, with the      *)
(* snapshots in the database; differences go to the change log and into    *)
(* the batch that is handed to the notifications.  Nothing keeps two scans *)
(* of a channel apart: cron runs do not wait for each other (scheduler.go) *)
(* and the console starts scans of its own.                                *)
(*                                                                         *)
(* Abstractions: one channel; a ratio stands for ratio and completion      *)
(* ratio; of the change log the last entry of each group is kept.  A scan  *)
(* whose request fails changes nothing and is no step.  Announcements are  *)
(* left out.                                                               *)
(***************************************************************************)
EXTENDS Integers, FiniteSets

CONSTANTS
    Groups,     \* groups the upstream may offer
    Ratios,     \* positive numbers
    NoGroup,    \* none of them
    Keyed,      \* the groups the account has keys for
    Scanners,   \* goroutines that may scan at a time
    MaxScans,   \* bound of the scans begun
    MaxMoves    \* bound of the changes at the upstream

ScanAssumption ==
    /\ IsFiniteSet(Groups) /\ NoGroup \notin Groups /\ Keyed \subseteq Groups
    /\ Ratios \subseteq Nat \ {0}
    /\ {MaxScans, MaxMoves} \subseteq Nat

VARIABLES
    up,       \* the upstream: group -> ratio, 0 where there is no such group
    rows,     \* rate_snapshots: group -> id and ratio of its row, 0 where there is none
    lastId,   \* the last id given to a row
    last,     \* group -> new ratio in its last log entry since its row was made, or 0
    scan,     \* the locals of refreshRates in each goroutine
    begun, moves,
    base,     \* witness: the ratios in the table when the present scans began,
    saw,      \*   the answer the first of them got,
    heard,    \*   what they have reported,
    mixed,    \*   whether they got different answers or one of them was killed,
    torn      \*   whether that has ever happened

vars == <<up, rows, lastId, last, scan, begun, moves, base, saw, heard, mixed, torn>>

NoRow == [id |-> 0, ratio |-> 0]
Nothing == [g \in Groups |-> 0]
RatioOf(table) == [g \in Groups |-> table[g].ratio]
Report(k, g, a, b) == [kind |-> k, group |-> g, old |-> a, new |-> b]

Idle == [pc |-> "idle", got |-> Nothing, had |-> Nothing, first |-> FALSE, want |-> {},
         todo |-> {}, group |-> NoGroup, prev |-> NoRow, batch |-> {}]
At(s, pc) == scan[s].pc = pc
Working == {s \in Scanners : ~At(s, "idle")}

Init ==
    /\ up \in [Groups -> Ratios \cup {0}]
    /\ \/ rows = [g \in Groups |-> NoRow] /\ lastId = 0
       \/ /\ rows = [g \in Groups |-> IF up[g] = 0 THEN NoRow ELSE [id |-> 1, ratio |-> up[g]]]
          /\ lastId = 1
    /\ last = Nothing
    /\ scan = [s \in Scanners |-> Idle]
    /\ begun = 0 /\ moves = 0
    /\ base = RatioOf(rows) /\ saw = RatioOf(rows) /\ heard = {}
    /\ mixed = FALSE /\ torn = FALSE

-----------------------------------------------------------------------------
(* refreshRates *)

Table == <<rows, lastId, last>>
Witness == <<base, saw, heard, mixed, torn>>

\* GetRates.  The first of several scans opens the period the witnesses describe.
Fetch(s) ==
    /\ At(s, "idle") /\ begun < MaxScans
    /\ begun' = begun + 1
    /\ scan' = [scan EXCEPT ![s] = [Idle EXCEPT !.pc = "list", !.got = up]]
    /\ IF Working = {}
       THEN base' = RatioOf(rows) /\ saw' = up /\ heard' = {} /\ mixed' = FALSE
       ELSE UNCHANGED <<base, saw, heard>> /\ mixed' = (mixed \/ saw # up)
    /\ torn' = (torn \/ mixed')
    /\ UNCHANGED <<up, Table, moves>>

\* ListByChannel, and the groups to report: those with keys, or all of them when the
\* channel does not ask for that or its keys cannot be listed.
List(s) ==
    /\ At(s, "list")
    /\ \E want \in {Keyed, Groups} :
          scan' = [scan EXCEPT ![s].pc = "loop", ![s].want = want,
                               ![s].had = RatioOf(rows), ![s].first = (RatioOf(rows) = Nothing),
                               ![s].todo = {g \in Groups : scan[s].got[g] # 0}]
    /\ UNCHANGED <<up, Table, begun, moves, Witness>>

\* Upsert reads the row.  The upstream may list its groups in any order.
Find(s, g) ==
    /\ At(s, "loop") /\ g \in scan[s].todo
    /\ scan' = [scan EXCEPT ![s].pc = "write", ![s].todo = @ \ {g},
                            ![s].group = g, ![s].prev = rows[g]]
    /\ UNCHANGED <<up, Table, begun, moves, Witness>>

\* What is to be told of a group; a first scan makes rows and tells nothing.
Told(c, k, g, a, b) == {n \in {Report(k, g, a, b)} : g \in c.want /\ ~(c.first /\ k = "added")}

\* The row is created without a look at what another scan has made of it meanwhile.
Write_Blind(s) ==
    LET c == scan[s]
        g == c.group
    IN  /\ c.pc = "write"
        /\ rows' = [rows EXCEPT ![g] = [id |-> lastId + 1, ratio |-> c.got[g]]]
        /\ lastId' = lastId + 1
        /\ scan' = [scan EXCEPT ![s].pc = "loop", ![s].group = NoGroup, ![s].prev = NoRow,
                                ![s].batch = @ \cup Told(c, "added", g, c.prev.ratio, c.got[g])]
        /\ UNCHANGED <<up, last, begun, moves, Witness>>

\* Upsert writes.  Create fails on the unique index where there is a row by now; Save
\* updates the row by the id read, and inserts it again where it is gone, which fails on
\* the same index when another row has come.  A failure passes over the group.
Write(s) ==
    LET c == scan[s]
        g == c.group
        new == c.got[g]
        known == c.prev # NoRow
        written == rows[g].id \in {0, c.prev.id}
        differs == written /\ known /\ c.prev.ratio # new
    IN  /\ c.pc = "write"
        /\ IF written
           THEN /\ lastId' = IF known THEN lastId ELSE lastId + 1
                /\ rows' = [rows EXCEPT ![g] =
                              [id |-> IF known THEN c.prev.id ELSE lastId + 1, ratio |-> new]]
                /\ last' = [last EXCEPT ![g] = IF rows[g] = NoRow THEN 0 ELSE @]
           ELSE UNCHANGED Table
        /\ scan' = [scan EXCEPT
              ![s].pc = IF differs THEN "log" ELSE "loop",
              ![s].group = IF differs THEN g ELSE NoGroup,
              ![s].prev = IF differs THEN @ ELSE NoRow,
              ![s].batch = IF written /\ ~known THEN @ \cup Told(c, "added", g, 0, new) ELSE @]
        /\ UNCHANGED <<up, begun, moves, Witness>>

\* AppendChange, and the note in the batch.
Log(s) ==
    LET c == scan[s]
        g == c.group
        new == c.got[g]
    IN  /\ c.pc = "log"
        /\ last' = [last EXCEPT ![g] = new]
        /\ scan' = [scan EXCEPT
              ![s].pc = "loop", ![s].group = NoGroup, ![s].prev = NoRow,
              ![s].batch = @ \cup Told(c, "changed", g, c.prev.ratio, new)]
        /\ UNCHANGED <<up, rows, lastId, begun, moves, Witness>>

\* Snapshots listed before and no longer offered; DeleteSnapshot goes by the name.
Leftover(s) == {g \in Groups : scan[s].had[g] # 0 /\ scan[s].got[g] = 0}
Drop(s, g) ==
    /\ At(s, "loop") /\ scan[s].todo = {} /\ g \in Leftover(s)
    /\ rows' = [rows EXCEPT ![g] = NoRow]
    /\ last' = [last EXCEPT ![g] = 0]
    /\ scan' = [scan EXCEPT ![s].had[g] = 0,
                            ![s].batch = @ \cup Told(scan[s], "removed", g, scan[s].had[g], 0)]
    /\ UNCHANGED <<up, lastId, begun, moves, Witness>>

\* DispatchRateNotificationBatch takes the batch.
Finish(s) ==
    /\ At(s, "loop") /\ scan[s].todo = {} /\ Leftover(s) = {}
    /\ heard' = heard \cup scan[s].batch
    /\ scan' = [scan EXCEPT ![s] = Idle]
    /\ UNCHANGED <<up, Table, begun, moves, base, saw, mixed, torn>>

-----------------------------------------------------------------------------
(* The environment *)

\* The upstream sets, adds or removes a group.
Move(g, r) ==
    /\ moves < MaxMoves /\ up[g] # r
    /\ up' = [up EXCEPT ![g] = r]
    /\ moves' = moves + 1
    /\ UNCHANGED <<Table, scan, begun, Witness>>

\* The process is killed and started again; scans are not resumed.
Crash ==
    /\ Working # {}
    /\ scan' = [s \in Scanners |-> Idle]
    /\ mixed' = TRUE /\ torn' = TRUE
    /\ UNCHANGED <<up, Table, begun, moves, base, saw, heard>>

ScanStep(s) ==
    Fetch(s) \/ List(s) \/ Write(s) \/ Log(s) \/ Finish(s)
    \/ \E g \in Groups : Find(s, g) \/ Drop(s, g)

Next ==
    \/ \E s \in Scanners : ScanStep(s)
    \/ \E g \in Groups, r \in Ratios \cup {0} : Move(g, r)
    \/ Crash

Spec == Init /\ [][Next]_vars

-----------------------------------------------------------------------------
(* Properties *)

Reports == [kind : {"added", "changed", "removed"}, group : Groups,
            old : Ratios \cup {0}, new : Ratios \cup {0}]
RatioTable == [Groups -> Ratios \cup {0}]

\* Ids grow; the locals of a scan are a stage, two tables and a batch.
TypeOK ==
    /\ {up, last, base, saw} \subseteq RatioTable
    /\ rows \in [Groups -> [id : 0..lastId, ratio : Ratios \cup {0}]]
    /\ lastId \in Nat /\ begun \in 0..MaxScans /\ moves \in 0..MaxMoves
    /\ scan \in [Scanners ->
         [pc : {"idle", "list", "loop", "write", "log"}, got : RatioTable, had : RatioTable,
          first : BOOLEAN, want : SUBSET Groups, todo : SUBSET Groups,
          group : Groups \cup {NoGroup}, prev : [id : 0..lastId, ratio : Ratios \cup {0}],
          batch : SUBSET Reports]]
    /\ heard \subseteq Reports
    /\ {mixed, torn} \subseteq BOOLEAN

Quiet == Working = {} /\ ~mixed

\* When the scans that overlapped have ended, the snapshots are exactly what the upstream
\* had told them, if it told all of them the same: races between find, save, create and
\* delete leave nothing out and nothing over.  A single scan repairs whatever overlapping
\* ones or a crash have left.
QuietTableIsFetched == Quiet /\ begun > 0 => RatioOf(rows) = saw

\* What such scans report together is exactly how the table has changed, as far as they were
\* to report: no difference is told that is not one, and none passes in silence but the groups
\* of a first scan.
QuietReportIsDifference ==
    Quiet =>
        LET diff == {Report(IF base[g] = 0 THEN "added" ELSE IF saw[g] = 0 THEN "removed"
                            ELSE "changed", g, base[g], saw[g]) :
                        g \in {h \in Groups : base[h] # saw[h]}}
        IN  /\ heard \subseteq diff
            /\ base # Nothing => {n \in diff : n.group \in Keyed} \subseteq heard

\* The change log ends with the ratio of the row, as long as overlapping scans have always got
\* the same answer and none was killed.
LogEndsAtRow ==
    Working = {} /\ ~torn => \A g \in Groups : last[g] \in {0, rows[g].ratio}

\* What carries QuietReportIsDifference.  A row's id and ratio are both there or not;
IsRow(r) == r \in [id : Nat, ratio : Nat] /\ (r.id = 0 <=> r.ratio = 0)
IsScan(c) ==
    /\ c \in [pc : {"idle", "list", "loop", "write", "log"}, got : {c.got}, had : {c.had},
              first : BOOLEAN, want : {c.want}, todo : SUBSET Groups,
              group : Groups \cup {NoGroup}, prev : {c.prev}, batch : {c.batch}]
    /\ {c.got, c.had} \subseteq [Groups -> Nat]
    /\ c.pc = "idle" => c = Idle
    /\ c.pc = "list" => c.batch = {}
    /\ \A g \in c.todo : c.got[g] # 0
    /\ c.pc \in {"write", "log"} => c.group \in Groups /\ c.got[c.group] # 0 /\ IsRow(c.prev)
ScanTypes ==
    /\ rows \in [Groups -> {rows[g] : g \in Groups}] /\ \A g \in Groups : IsRow(rows[g])
    /\ {up, base, saw} \subseteq [Groups -> Nat] /\ lastId \in Nat
    /\ scan \in [Scanners -> {scan[s] : s \in Scanners}] /\ \A s \in Scanners : IsScan(scan[s])

\* while all scans have got the same answer, a row goes from the old ratio to the new one
\* and not back, and whoever is past a group has seen to that.
Difference(g) ==
    Report(IF base[g] = 0 THEN "added" ELSE IF saw[g] = 0 THEN "removed" ELSE "changed", g, base[g], saw[g])
Differences == {Difference(g) : g \in {h \in Groups : base[h] # saw[h]}}
New(g) == rows[g].ratio = saw[g]
InScan(c) == c.pc \in {"loop", "write", "log"}
Past(c, g) == saw[g] # 0 /\ g \notin c.todo /\ ~(c.pc = "write" /\ c.group = g)
GoesOn(c) ==
    /\ c.pc # "idle" => c.got = saw
    /\ c.batch \subseteq Differences
    /\ InScan(c) =>
        /\ Keyed \subseteq c.want
        /\ c.first /\ base # Nothing => saw = Nothing
        /\ \A g \in Groups : c.had[g] \in {base[g], saw[g]}
        /\ \A g \in Groups : Past(c, g) \/ (saw[g] = 0 /\ c.had[g] = 0) => New(g)
    /\ c.pc = "write" =>
        /\ c.prev.ratio \in {base[c.group], saw[c.group]}
        /\ c.prev.ratio = saw[c.group] \/ rows[c.group].id # c.prev.id => New(c.group)
    /\ c.pc = "log" => c.prev.ratio = base[c.group] /\ c.prev.ratio # saw[c.group] /\ c.prev.ratio # 0
Noted(g) ==
    \/ Difference(g) \in heard
    \/ \E s \in Scanners : Difference(g) \in scan[s].batch \/ (scan[s].pc = "log" /\ scan[s].group = g)
PeriodInv ==
    /\ \A g \in Groups : rows[g].ratio \in {base[g], saw[g]}
    /\ \A s \in Scanners : GoesOn(scan[s])
    /\ heard \subseteq Differences
    /\ (\E g \in Groups : base[g] # 0 /\ rows[g].ratio = 0) => \A g \in Groups : saw[g] # 0 => rows[g].ratio # 0
    /\ base # Nothing => \A g \in Keyed : base[g] # saw[g] /\ New(g) => Noted(g)
    /\ Working = {} => \A g \in Groups : New(g)
ScanInv == ScanTypes /\ (~mixed => PeriodInv)
=============================================================================
