----------------------------- MODULE AlertCooldown -----------------------------
(***************************************************************************)
(* An alert about a channel whose balance is low (backend/monitor/         *)
(* service.go, backend/notify/dispatcher.go, backend/storage/              *)
(* notifications.go).  Every check of the balance raises it; a row in the  *)
(* database keeps all but one alert per cooldown back.  The row is claimed *)
(* by two statements before the message is sent, and sending tries every   *)
(* target several times.                                                   *)
(*                                                                         *)
(* Abstractions: one channel and one event, since a claim is theirs alone; *)
(* the balance stays low.  A time is kept as the age it has, so that there *)
(* is no end of time; ages beyond the last that matters are one.           *)
(***************************************************************************)
EXTENDS Integers, FiniteSets

CONSTANTS
    Checks,       \* goroutines that check the balance: cron runs, calls of the console
    Targets,      \* enabled notification channels whose rules take the alert
    NoTarget,     \* none of them
    Cooldown,     \* BalanceLowCooldown
    Lifetime,     \* no context of a check lasts longer
    MaxAttempts,  \* SendMaxAttempts
    MaxFaults     \* bound of the failing statements, the outages and the expired contexts

CooldownAssumption ==
    /\ IsFiniteSet(Targets) /\ NoTarget \notin Targets
    /\ {Cooldown, MaxFaults} \subseteq Nat
    /\ {Lifetime, MaxAttempts} \subseteq Nat \ {0}

VARIABLES
    claim,    \* notification_cooldowns: the age of last_sent_at, or NoClaim
    job,      \* the locals of Dispatch in each goroutine
    up,       \* the targets that can be reached
    since,    \* time since each target got its last message
    faults

vars == <<claim, job, up, since, faults>>

NoClaim == -1
Oldest == Cooldown + Lifetime + 1
Idle == [pc |-> "idle", age |-> 0, sure |-> TRUE, todo |-> {}, target |-> NoTarget, tries |-> 0]
At(s, pc) == job[s].pc = pc

Init ==
    /\ claim \in 0..Oldest \cup {NoClaim}
    /\ job = [s \in Checks |-> Idle]
    /\ up = Targets
    /\ since = [t \in Targets |-> Oldest]
    /\ faults = 0

-----------------------------------------------------------------------------
(* suppress *)

\* RefreshBalance finds the balance low; TryClaimCooldown takes the time.
Check(s) ==
    /\ At(s, "idle")
    /\ job' = [job EXCEPT ![s].pc = IF Cooldown = 0 THEN "list" ELSE "update", ![s].age = 0]
    /\ UNCHANGED <<claim, up, since, faults>>

\* A row that has expired is not renewed.
Update_NeverExpires(s) ==
    /\ At(s, "update")
    /\ job' = [job EXCEPT ![s].pc = "insert"]
    /\ UNCHANGED <<claim, up, since, faults>>

\* Its first statement renews an expired row,
Update(s) ==
    LET expired == claim # NoClaim /\ claim - job[s].age > Cooldown
    IN  /\ At(s, "update")
        /\ claim' = IF expired THEN job[s].age ELSE claim
        /\ job' = [job EXCEPT ![s].pc = IF expired THEN "list" ELSE "insert"]
        /\ UNCHANGED <<up, since, faults>>

\* The row is made without a look at whether it is there.
Insert_Blind(s) ==
    /\ At(s, "insert")
    /\ claim' = job[s].age
    /\ job' = [job EXCEPT ![s].pc = "list"]
    /\ UNCHANGED <<up, since, faults>>

\* its second makes a row where there is none; where there is one, the alert is kept back.
Insert(s) ==
    /\ At(s, "insert")
    /\ IF claim = NoClaim
       THEN claim' = job[s].age /\ job' = [job EXCEPT ![s].pc = "list"]
       ELSE UNCHANGED claim /\ job' = [job EXCEPT ![s] = Idle]
    /\ UNCHANGED <<up, since, faults>>

\* A statement fails, and the alert is sent anyway.
ClaimFails(s) ==
    /\ job[s].pc \in {"update", "insert"} /\ faults < MaxFaults
    /\ faults' = faults + 1
    /\ job' = [job EXCEPT ![s].pc = "list", ![s].sure = FALSE]
    /\ UNCHANGED <<claim, up, since>>

-----------------------------------------------------------------------------
(* fanout *)

\* The goroutine turns to one of the targets left, in whatever order they were listed.
TurnTo(s, left) ==
    IF left = {} THEN job' = [job EXCEPT ![s] = Idle]
    ELSE \E t \in left : job' = [job EXCEPT ![s].pc = "send", ![s].todo = left \ {t},
                                            ![s].target = t, ![s].tries = 0]

List(s) == At(s, "list") /\ TurnTo(s, Targets) /\ UNCHANGED <<claim, up, since, faults>>

\* sendWithRetry: the message arrives,
Deliver(s) ==
    /\ At(s, "send") /\ job[s].target \in up
    /\ since' = [since EXCEPT ![job[s].target] = 0]
    /\ TurnTo(s, job[s].todo)
    /\ UNCHANGED <<claim, up, faults>>

\* or it does not: there are MaxAttempts, and then it is the next target's turn.
Fail(s) ==
    /\ At(s, "send") /\ job[s].target \notin up
    /\ IF job[s].tries + 1 < MaxAttempts
       THEN job' = [job EXCEPT ![s].tries = @ + 1]
       ELSE TurnTo(s, job[s].todo)
    /\ UNCHANGED <<claim, up, since, faults>>

\* The context ends first, and with it the attempts at this and all further targets.
Expire(s) ==
    /\ At(s, "send") /\ faults < MaxFaults
    /\ faults' = faults + 1
    /\ job' = [job EXCEPT ![s] = Idle]
    /\ UNCHANGED <<claim, up, since>>

-----------------------------------------------------------------------------
(* The environment *)

Older(n) == IF n < Oldest THEN n + 1 ELSE n
Tick ==
    /\ \A s \in Checks : job[s].age < Lifetime
    /\ claim' = IF claim = NoClaim THEN NoClaim ELSE Older(claim)
    /\ since' = [t \in Targets |-> Older(since[t])]
    /\ job' = [s \in Checks |-> IF At(s, "idle") THEN job[s] ELSE [job[s] EXCEPT !.age = @ + 1]]
    /\ UNCHANGED <<up, faults>>

GoDown(t) ==
    /\ t \in up /\ faults < MaxFaults
    /\ up' = up \ {t} /\ faults' = faults + 1
    /\ UNCHANGED <<claim, job, since>>

ComeUp(t) == t \notin up /\ up' = up \cup {t} /\ UNCHANGED <<claim, job, since, faults>>

Step(s) == Update(s) \/ Insert(s) \/ ClaimFails(s) \/ List(s) \/ Deliver(s) \/ Fail(s) \/ Expire(s)

Next ==
    \/ \E s \in Checks : Check(s) \/ Step(s)
    \/ Tick
    \/ \E t \in Targets : GoDown(t) \/ ComeUp(t)

\* Goroutines run, time goes by, and some scheduled check finds the balance low again.
Fairness ==
    /\ \A s \in Checks : WF_vars(Step(s))
    /\ WF_vars(Tick)
    /\ WF_vars(\E s \in Checks : Check(s))

Spec == Init /\ [][Next]_vars
FairSpec == Spec /\ Fairness

-----------------------------------------------------------------------------
(* Properties *)

\* A row has an age, a job a stage and the targets it still has to serve.
TypeOK ==
    /\ claim \in 0..Oldest \cup {NoClaim}
    /\ job \in [Checks -> [pc : {"idle", "update", "insert", "list", "send"}, age : 0..Lifetime,
                           sure : BOOLEAN, todo : SUBSET Targets,
                           target : Targets \cup {NoTarget}, tries : 0..MaxAttempts - 1]]
    /\ up \subseteq Targets /\ since \in [Targets -> 0..Oldest] /\ faults \in 0..MaxFaults

\* However checks interleave, two that have both claimed the row and are sending took their
\* times more than a cooldown apart, and the row remembers the later one.
OneRoundPerWindow ==
    LET sending == {s \in Checks : job[s].pc \in {"list", "send"} /\ job[s].sure /\ Cooldown > 0}
    IN  /\ \A s, t \in sending :
              s # t => job[s].age - job[t].age > Cooldown \/ job[t].age - job[s].age > Cooldown
        /\ \A s \in sending : claim # NoClaim /\ claim <= job[s].age

\* A target that stays reachable hears of the low balance again and again, although the row is
\* claimed before the message is sent: what an outage, an expired context or another target's
\* failure swallows is made up for after the cooldown.
LowIsTold == \A t \in Targets : <>[](t \in up) => []<>(since[t] = 0)
=============================================================================
