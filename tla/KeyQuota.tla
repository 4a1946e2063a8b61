------------------------------ MODULE KeyQuota -------------------------------
(***************************************************************************)
(* The quota of one gateway key: concurrent requests that pass             *)
(* Authenticate and are billed when they end, and administrators who edit  *)
(* or delete the key meanwhile (backend/gateway/admin_keys.go).            *)
(*                                                                         *)
(* AddQuotaUsed is one SQL increment, but UpdateKey reads the whole row,   *)
(* changes some columns and saves the whole row again.  gorm's Save        *)
(* inserts the row when the update finds none.                             *)
(***************************************************************************)
EXTENDS Integers, FiniteSets, FiniteSetsExt

CONSTANTS
    Slots,      \* handler goroutines that can serve the key at the same time
    Admins,     \* concurrent UpdateKey calls
    Quotas,     \* quotas the key may be given, in price units; 0 is unlimited
    MaxQuota,   \* the largest of them
    Costs,      \* what one request may cost
    MaxCost,    \* the largest of them
    MaxBilled,  \* bound of the usage recorded
    MaxRaised   \* bound of raised

VARIABLES
    key,     \* the row of gateway_keys; live is FALSE once it is deleted
    billed,  \* actual_cost in gateway_usage_logs since quota_used was last reset
    slot,    \* the request each slot is serving
    edit,    \* the UpdateKey call of each administrator
    raised   \* how often an edit's old copy put quota_used back up

vars == <<key, billed, slot, edit, raised>>

ASSUME QuotaAssumption ==
    /\ IsFiniteSet(Slots) /\ Slots # {}
    /\ MaxQuota \in Nat /\ Quotas \subseteq 0..MaxQuota /\ Quotas # {}
    /\ MaxCost \in Nat /\ Costs \subseteq 0..MaxCost
    /\ MaxBilled \in Nat /\ MaxRaised \in Nat

KeyRow == [live : BOOLEAN, active : BOOLEAN, quota : Nat, used : Nat]
Idle == [pc |-> "idle", cost |-> 0]
NoEdit(k) == [open |-> FALSE, reset |-> FALSE, row |-> k]

Init ==
    /\ \E n \in Quotas : key = [live |-> TRUE, active |-> TRUE, quota |-> n, used |-> 0]
    /\ billed = 0
    /\ slot = [s \in Slots |-> Idle]
    /\ edit = [a \in Admins |-> NoEdit(key)]
    /\ raised = 0

\* Cost that is in the usage log and not yet in quota_used.
Pending == MapThenSumSet(LAMBDA s : slot[s].cost, Slots)

\* Variant: a key may be used until the quota is exceeded.
Authenticate_OffByOne(s) ==
    /\ slot[s].pc = "idle"
    /\ key.live /\ key.active
    /\ ~(key.quota > 0 /\ key.used > key.quota)
    /\ slot' = [slot EXCEPT ![s].pc = "serving"]
    /\ UNCHANGED <<key, billed, edit, raised>>

\* Authenticate: the quota is compared, nothing is reserved.
Authenticate(s) ==
    /\ slot[s].pc = "idle"
    /\ key.live /\ key.active
    /\ ~(key.quota > 0 /\ key.used >= key.quota)
    /\ slot' = [slot EXCEPT ![s].pc = "serving"]
    /\ UNCHANGED <<key, billed, edit, raised>>

\* recordUsage writes the log row; a failed or free request stops there.
RecordUsage(s) ==
    /\ slot[s].pc = "serving"
    /\ \E c \in Costs :
          /\ billed + c <= MaxBilled
          /\ billed' = billed + c
          /\ slot' = [slot EXCEPT ![s] = IF c = 0 THEN Idle ELSE [pc |-> "billing", cost |-> c]]
    /\ UNCHANGED <<key, edit, raised>>

\* Variants: the increment is repeated; it has the wrong sign.
AddQuotaUsed_Twice(s) ==
    /\ slot[s].pc = "billing"
    /\ key' = IF key.live THEN [key EXCEPT !.used = @ + 2 * slot[s].cost] ELSE key
    /\ slot' = [slot EXCEPT ![s] = Idle]
    /\ UNCHANGED <<billed, edit, raised>>

AddQuotaUsed_Refunds(s) ==
    /\ slot[s].pc = "billing"
    /\ key' = IF key.live THEN [key EXCEPT !.used = @ - slot[s].cost] ELSE key
    /\ slot' = [slot EXCEPT ![s] = Idle]
    /\ UNCHANGED <<billed, edit, raised>>

\* AddQuotaUsed: UPDATE ... SET quota_used = quota_used + ? WHERE id = ?.
AddQuotaUsed(s) ==
    /\ slot[s].pc = "billing"
    /\ key' = IF key.live THEN [key EXCEPT !.used = @ + slot[s].cost] ELSE key
    /\ slot' = [slot EXCEPT ![s] = Idle]
    /\ UNCHANGED <<billed, edit, raised>>

\* UpdateKey, first half: FindByID and the changes the form carries.
BeginUpdate(a) ==
    /\ ~edit[a].open /\ key.live
    /\ \E n \in Quotas, on \in BOOLEAN, reset \in BOOLEAN :
          edit' = [edit EXCEPT ![a] =
                     [open |-> TRUE, reset |-> reset,
                      row |-> [key EXCEPT !.quota = n, !.active = on,
                                          !.used = IF reset THEN 0 ELSE @]]]
    /\ UNCHANGED <<key, billed, slot, raised>>

\* UpdateKey, second half: Save writes every column of the copy.
SaveUpdate(a) ==
    /\ edit[a].open
    /\ key' = edit[a].row
    /\ raised' = IF edit[a].row.used > key.used THEN raised + 1 ELSE raised
    /\ raised' <= MaxRaised
    /\ billed' = IF edit[a].reset THEN Pending ELSE billed
    /\ edit' = [edit EXCEPT ![a] = NoEdit(key')]
    /\ UNCHANGED slot

\* DeleteKey, in a transaction of its own.
DeleteKey ==
    /\ key.live
    /\ key' = [key EXCEPT !.live = FALSE]
    /\ UNCHANGED <<billed, slot, edit, raised>>

Next ==
    \/ \E s \in Slots : Authenticate(s) \/ RecordUsage(s) \/ AddQuotaUsed(s)
    \/ \E a \in Admins : BeginUpdate(a) \/ SaveUpdate(a)
    \/ DeleteKey

Spec == Init /\ [][Next]_vars

-----------------------------------------------------------------------------
(* Properties *)

\* Every variable has its type; only a request being billed carries a cost.
TypeOK ==
    /\ key \in KeyRow
    /\ billed \in Nat /\ raised \in 0..MaxRaised
    /\ slot \in [Slots -> [pc : {"idle", "serving", "billing"}, cost : Nat]]
    /\ edit \in [Admins -> [open : BOOLEAN, reset : BOOLEAN, row : KeyRow]]

\* Requests may pass the quota check together, and the check reserves nothing;
\* still a limited key overshoots by at most one bill per request in flight, and by as
\* much again for every edit that puts the counter back up, which takes two edits at a
\* time: one resets it, and the other saves what it read before.
QuotaOvershootBounded ==
    0 \notin Quotas =>
        key.used <= (MaxQuota - 1) + (raised + 1) * (Cardinality(Slots) * MaxCost)

\* quota_used accumulates what the key's successful requests cost
\* (AddQuotaUsed; broken by an edit that saves an old copy of the row).
QuotaMatchesLedger == key.live => key.used + Pending = billed

\* What the counter misses of the log.
Missing == billed - key.used - Pending

\* No request loses another one's bill, however their statements interleave: the
\* counter of a key drifts from the log only when an edit saves its row.
OnlyEditsLoseBills ==
    [][key.live /\ Missing' # Missing =>
         \E a \in Admins : edit[a].open /\ ~edit'[a].open]_vars
=============================================================================
