--------------------------- MODULE GatewayDispatch ---------------------------
(***************************************************************************)
(* The data plane of the gateway: HandleForward and the rows it shares     *)
(* with every other request (backend/gateway/runtime_forward.go).          *)
(*                                                                         *)
(* Each request runs in a goroutine of its own.  Its local variables are   *)
(* the fields of req[r]; what requests share lives in the database:        *)
(*   pause  the cooldown columns of gateway_routes                         *)
(*   usage  gateway_usage_logs, here one sequence of rows per request      *)
(* A step is one database statement, or the wait for one upstream answer,  *)
(* so the steps of several requests interleave as the statements do.       *)
(*                                                                         *)
(* Abstractions: an upstream answer is one of Answers; the bodies,         *)
(* headers, protocols, model mapping and prices of a request do not        *)
(* influence control and are left out; the clock is an integer; billing is *)
(* in KeyQuota.tla.                                                        *)
(***************************************************************************)
EXTENDS Integers, Sequences, FiniteSets, TLC

CONSTANTS
    Routes,       \* ids of the routes of the group
    Rate,         \* effective rate of each route (RateForRoute), in some unit
    Descending,   \* the group sorts "desc" instead of "asc"
    Requests,     \* the client requests of a behaviour
    Policies,     \* group rows (retry settings) a request may find
    Answers,      \* the upstream answers that occur in this instance
    Modes,        \* values of the request's stream flag
    ClearStreak,  \* storage.RouteRecoverSuccessClearStreak
    MaxTime,      \* bound of the clock
    NoRequest     \* "no request id" in a route row

VARIABLES now, pause, usage, gone, req

vars == <<now, pause, usage, gone, req>>

\* The retry columns of gateway_groups, as clampGroupRetryPolicy stores them.
Policy == [retryEnabled : BOOLEAN, retries : Nat, failoverEnabled : BOOLEAN,
           failoverMax : Nat, on4xx : BOOLEAN, cooldown : Nat, firstToken : BOOLEAN]

\* How one upstream attempt ends.  "status" is a 429 or 5xx, "reject" another
\* 4xx, "timeout" the first-token timeout, "canceled" an error that
\* isClientContextError attributes to the client, "config" a failed
\* resolveUpstreamTarget, "commit_*" the ends of a stream whose headers went out.
Answer == {"status", "reject", "transport", "timeout", "canceled", "ok",
           "commit_ok", "commit_gone", "commit_err"}
Outcome  == Answer \cup {"config", "none"}
Success  == {"ok", "commit_ok", "commit_gone"}
HttpError == {"status", "reject"}

ASSUME DispatchAssumption ==
    /\ Routes \subseteq Nat /\ Rate \in [Routes -> Int] /\ Descending \in BOOLEAN
    /\ Requests # {} /\ IsFiniteSet(Requests)
    /\ Policies \subseteq Policy
    /\ Answers \subseteq Answer
    /\ Modes \subseteq BOOLEAN
    /\ ClearStreak \in Nat \ {0}
    /\ MaxTime \in Nat \ {0}
    /\ NoRequest \notin Requests

\* The routes that may be the head of SortRoutes(cands), the only one HandleForward
\* uses: any of the leading block of equal rates may win the draw, since every stored
\* weight is positive (WeightedDraw has the sorting and the draw).
Better(x, y) == IF Descending THEN x > y ELSE x < y
FirstChoices(cands) == {a \in cands : \A b \in cands : ~Better(Rate[b], Rate[a])}

-----------------------------------------------------------------------------
(* The state of one request *)

Control == {"idle", "load", "pick", "attempt", "sent", "cool",
            "note", "clear", "record", "done"}

\* What the client is told: "echo" is a stored upstream error, "refused" a
\* reply of the gateway itself, "partial" a stream cut by an error.
Reply == {"none", "delivered", "partial", "rejected", "echo", "bad_gateway", "refused"}

\* The master switch turns retry, failover and failover-on-4xx off together.
Effective(g) ==
    IF g.retryEnabled THEN g
    ELSE [g EXCEPT !.retries = 0, !.failoverEnabled = FALSE,
                   !.failoverMax = 0, !.on4xx = FALSE]

\* A route as requests see it: until = 0 is NULL, by is the request id of the
\* failure on display, NoRequest when none is.
NoPause == [until |-> 0, by |-> NoRequest, streak |-> 0]
Residue(p) == p.until # 0 \/ p.by # NoRequest

\* Before Authenticate a request has no group; nothing reads this value.
NoPolicy == [retryEnabled |-> FALSE, retries |-> 0, failoverEnabled |-> FALSE,
             failoverMax |-> 0, on4xx |-> FALSE, cooldown |-> 0, firstToken |-> FALSE]

NewRequest(g) ==
    [pc |-> "idle", policy |-> g, stream |-> FALSE, mine |-> {},
     snap |-> [rt \in Routes |-> 0], tried |-> {}, route |-> 0, tries |-> 0,
     failovers |-> 0, armed |-> FALSE, late |-> FALSE, out |-> "none",
     sticky |-> 0, reply |-> "none"]

\* Variant: a route that was tried stays eligible.
Candidates_Revisit(q, t) == {rt \in q.mine : q.snap[rt] <= t}

\* Routes of the request's own copy of the table it may still go to.
Candidates(q, t) == {rt \in q.mine \ q.tried : q.snap[rt] <= t}

\* Failures the loop treats as retryable (fwdErr # nil, or isFailoverStatus).
Fails(q, out) ==
    \/ out \in {"status", "transport", "timeout", "canceled"}
    \/ out = "reject" /\ q.policy.on4xx

LastTry(q) == q.tries >= q.policy.retries

\* Variant: every failed try writes a cooldown, not only the last.
Cools_EveryTry(q, out) ==
    /\ Fails(q, out)
    /\ q.policy.retryEnabled /\ q.policy.cooldown > 0
    /\ out # "canceled"

\* The failed attempt puts its route into cooldown.
Cools(q, out) ==
    /\ Fails(q, out)
    /\ q.policy.retryEnabled /\ LastTry(q) /\ q.policy.cooldown > 0
    /\ out # "canceled"

\* Variant: one failover too many.
NoFurtherRoute_OffByOne(q) ==
    \/ Candidates(q, now) = {}
    \/ /\ q.tried # {}
       /\ ~q.policy.failoverEnabled \/ q.failovers > q.policy.failoverMax

\* The failover loop ends here instead of moving on to another route.
NoFurtherRoute(q) ==
    \/ Candidates(q, now) = {}
    \/ /\ q.tried # {}
       /\ ~q.policy.failoverEnabled \/ q.failovers >= q.policy.failoverMax

\* Variant: the timeout stays armed although no other route is left.
FirstTokenArmed_LastShot(q, t) ==
    /\ q.policy.firstToken
    /\ q.policy.retryEnabled /\ q.policy.failoverEnabled
    /\ q.failovers < q.policy.failoverMax

\* effectiveFirstTokenTimeout: whether attempts on the chosen route run under
\* the first-token timeout.
FirstTokenArmed(q, t) ==
    /\ q.policy.firstToken
    /\ q.policy.retryEnabled /\ q.policy.failoverEnabled
    /\ q.failovers < q.policy.failoverMax
    /\ Candidates(q, t) # {}

AttemptKind(q) ==
    IF q.tries > 0 THEN "retry"
    ELSE IF Cardinality(q.tried) > 1 THEN "failover" ELSE "primary"

Row(q) == [route |-> q.route, kind |-> AttemptKind(q), out |-> q.out]

\* finishError: the stored upstream error if there is one, else a 502.
Finished(q) ==
    [q EXCEPT !.pc = "done", !.reply = IF q.sticky # 0 THEN "echo" ELSE "bad_gateway"]

Refused(q) == [q EXCEPT !.pc = "done", !.reply = "refused"]

-----------------------------------------------------------------------------
(* The steps of HandleForward *)

Init ==
    /\ now = 1
    /\ pause = [rt \in Routes |-> NoPause]
    /\ usage = [r \in Requests |-> << >>]
    /\ gone = [r \in Requests |-> FALSE]
    /\ req = [r \in Requests |-> NewRequest(NoPolicy)]

\* Authenticate finds the key and its group, or turns the request away (the
\* quota check is in KeyQuota.tla).  The group row is read only here.
Authenticate(r) ==
    /\ req[r].pc = "idle"
    /\ \E g \in Policies, s \in Modes :
          LET q == [NewRequest(Effective(g)) EXCEPT !.stream = s]
          IN  \E p \in {Refused(q), [q EXCEPT !.pc = "load"]} : req' = [req EXCEPT ![r] = p]
    /\ UNCHANGED <<now, pause, usage, gone>>

\* ListByGroupID, once per request.  mine are the rows bound to the request's
\* model that are enabled and hold a key; the administrator may have changed
\* them in any way.  With no row bound at all the reply is a 503.
LoadRoutes(r) ==
    /\ req[r].pc = "load"
    /\ \E p \in {Refused(req[r])} \cup
               {[req[r] EXCEPT !.pc = "pick", !.mine = mine,
                               !.snap = [rt \in Routes |-> pause[rt].until]] :
                    mine \in SUBSET Routes} : req' = [req EXCEPT ![r] = p]
    /\ UNCHANGED <<now, pause, usage, gone>>

\* The head of the failover loop.
PickRoute(r) ==
    LET q == req[r] IN
    /\ q.pc = "pick"
    /\ \/ /\ NoFurtherRoute(q)
          /\ req' = [req EXCEPT ![r] = Finished(q)]
       \/ /\ ~NoFurtherRoute(q)
          /\ \E rt \in FirstChoices(Candidates(q, now)) :
               LET done == q.failovers + (IF q.tried = {} THEN 0 ELSE 1)
                   p    == [q EXCEPT !.pc = "attempt", !.route = rt, !.tries = 0,
                                     !.tried = q.tried \cup {rt}, !.failovers = done]
               IN  req' = [req EXCEPT ![r] =
                             [p EXCEPT !.armed = FirstTokenArmed(p, now)]]
    /\ UNCHANGED <<now, pause, usage, gone>>

\* resolveUpstreamTarget reads the provider or channel again, so it may fail at
\* any attempt; a failed conversion of the body ends the request with a 400.
StartAttempt(r) ==
    /\ req[r].pc = "attempt"
    /\ \E p \in {[req[r] EXCEPT !.pc = "sent", !.late = gone[r]],
                 [req[r] EXCEPT !.pc = "record", !.out = "config"],
                 Refused(req[r])} : req' = [req EXCEPT ![r] = p]
    /\ UNCHANGED <<now, pause, usage, gone>>

\* Variant: a call of a client that has left is never given up.
Possible_Hangs(q, left) ==
    IF q.late /\ ~q.stream THEN {}
    ELSE {"status", "reject", "transport"}

\* Ends an attempt that was sent may have.  A call whose context is already
\* canceled fails at once; a stream is detached from the client's context, so
\* the client's absence only shows when the stream is about to be written; one whose
\* failure was never written counts as a whole answer (see StreamAttempt).
Possible(q, left) ==
    IF q.late /\ ~q.stream THEN {"canceled"}
    ELSE {"status", "reject", "transport"}
         \cup (IF q.armed THEN {"timeout"} ELSE {})
         \cup (IF left THEN {"canceled"} ELSE {})
         \cup {"ok"} \cup (IF q.stream THEN {"commit_ok", "commit_err"} ELSE {})
         \cup (IF q.stream /\ left THEN {"commit_gone"} ELSE {})

\* The reply a client has as soon as this answer is in.
ReplyTo(q, out) ==
    IF out \in Success THEN "delivered"
    ELSE IF out = "commit_err" THEN "partial"
    ELSE IF out = "reject" /\ ~q.policy.on4xx THEN "rejected" ELSE "none"

\* Variant: any failure replaces the stored error.
StoredError_Any(q, out, body, n) == IF Fails(q, out) THEN n ELSE q.sticky

\* The attempt whose error is kept for finishError.  Only an HTTP error replaces
\* it, and one without a body leaves nothing to echo.
StoredError(q, out, body, n) ==
    IF out \in HttpError /\ Fails(q, out) THEN (IF body THEN n ELSE 0) ELSE q.sticky

\* One upstream answer, up to the first database statement that follows it.
Respond(r) ==
    LET q == req[r] IN
    /\ q.pc = "sent"
    /\ \E out \in Answers \cap Possible(q, gone[r]), body \in BOOLEAN :
          /\ body \/ (out \in HttpError /\ Fails(q, out))
          /\ req' = [req EXCEPT ![r] =
                [q EXCEPT !.out = out,
                          !.pc = IF out \in Success THEN "note"
                                 ELSE IF Cools(q, out) THEN "cool" ELSE "record",
                          !.reply = ReplyTo(q, out),
                          !.sticky = StoredError(q, out, body, Len(usage[r]) + 1)]]
    /\ UNCHANGED <<now, pause, usage, gone>>

\* SetTempUnschedulable.
Cool(r) ==
    /\ req[r].pc = "cool"
    /\ pause' = [pause EXCEPT ![req[r].route] =
                   [until |-> now + req[r].policy.cooldown, by |-> r, streak |-> 0]]
    /\ req' = [req EXCEPT ![r].pc = "record"]
    /\ UNCHANGED <<now, usage, gone>>

\* First statement of NoteSuccessForPauseError.
NoteSuccess(r) ==
    LET rt == req[r].route IN
    /\ req[r].pc = "note"
    /\ pause' = IF Residue(pause[rt])
                THEN [pause EXCEPT ![rt].until = 0, ![rt].streak = @ + 1]
                ELSE pause
    /\ req' = [req EXCEPT ![r].pc = "clear"]
    /\ UNCHANGED <<now, usage, gone>>

\* Variant: the threshold is compared with ">".
ClearResidue_OffByOne(r) ==
    LET rt == req[r].route IN
    /\ req[r].pc = "clear"
    /\ pause' = IF pause[rt].streak > ClearStreak
                THEN [pause EXCEPT ![rt] = NoPause] ELSE pause
    /\ req' = [req EXCEPT ![r].pc = "record"]
    /\ UNCHANGED <<now, usage, gone>>

\* Second statement of NoteSuccessForPauseError.
ClearResidue(r) ==
    LET rt == req[r].route IN
    /\ req[r].pc = "clear"
    /\ pause' = IF pause[rt].streak >= ClearStreak
                THEN [pause EXCEPT ![rt] = NoPause] ELSE pause
    /\ req' = [req EXCEPT ![r].pc = "record"]
    /\ UNCHANGED <<now, usage, gone>>

\* Variants: a client's cancellation is retried; the loop goes on after a reply;
\* the try counter runs the wrong way.
AfterRecord_RetriesCanceled(q) ==
    IF q.reply # "none" THEN [q EXCEPT !.pc = "done"]
    ELSE IF ~q.policy.retryEnabled THEN Finished(q)
    ELSE IF q.out = "config" \/ LastTry(q) THEN [q EXCEPT !.pc = "pick"]
    ELSE [q EXCEPT !.pc = "attempt", !.tries = @ + 1]

AfterRecord_IgnoresReply(q) ==
    IF q.out = "canceled" \/ ~q.policy.retryEnabled THEN Finished(q)
    ELSE IF q.out = "config" \/ LastTry(q) THEN [q EXCEPT !.pc = "pick"]
    ELSE [q EXCEPT !.pc = "attempt", !.tries = @ + 1]

AfterRecord_CountsDown(q) ==
    IF q.reply # "none" THEN [q EXCEPT !.pc = "done"]
    ELSE IF q.out = "canceled" \/ ~q.policy.retryEnabled THEN Finished(q)
    ELSE IF q.out = "config" \/ LastTry(q) THEN [q EXCEPT !.pc = "pick"]
    ELSE [q EXCEPT !.pc = "attempt", !.tries = @ - 1]

\* What the loop does once the attempt is in the usage log.
AfterRecord(q) ==
    IF q.reply # "none" THEN [q EXCEPT !.pc = "done"]
    ELSE IF q.out = "canceled" \/ ~q.policy.retryEnabled THEN Finished(q)
    ELSE IF q.out = "config" \/ LastTry(q) THEN [q EXCEPT !.pc = "pick"]
    ELSE [q EXCEPT !.pc = "attempt", !.tries = @ + 1]

\* The row recordUsage writes for every attempt.
Record(r) ==
    /\ req[r].pc = "record"
    /\ usage' = [usage EXCEPT ![r] = Append(@, Row(req[r]))]
    /\ req' = [req EXCEPT ![r] = AfterRecord(req[r])]
    /\ UNCHANGED <<now, pause, gone>>

-----------------------------------------------------------------------------
(* The environment, and the specification *)

\* The client hangs up: the context of the inbound request is canceled.  It
\* never does in an instance without the answer that would show it.
ClientLeaves(r) ==
    /\ "canceled" \in Answers
    /\ req[r].pc \notin {"idle", "done"} /\ ~gone[r]
    /\ gone' = [gone EXCEPT ![r] = TRUE]
    /\ UNCHANGED <<now, pause, usage, req>>

\* ClearRoutePause: the administrator's button.
ClearRoutePause(rt) ==
    /\ pause' = [pause EXCEPT ![rt] = NoPause]
    /\ UNCHANGED <<now, usage, gone, req>>

Tick ==
    /\ now < MaxTime
    /\ now' = now + 1
    /\ UNCHANGED <<pause, usage, gone, req>>

\* What the handler does once the request is authenticated.
Handle(r) ==
    \/ LoadRoutes(r) \/ PickRoute(r) \/ StartAttempt(r) \/ Respond(r) \/ Cool(r)
    \/ NoteSuccess(r) \/ ClearResidue(r) \/ Record(r)

Next ==
    \/ \E r \in Requests : Authenticate(r) \/ Handle(r) \/ ClientLeaves(r)
    \/ \E rt \in Routes : ClearRoutePause(rt)
    \/ Tick

Spec == Init /\ [][Next]_vars

\* A handler that has begun runs on: database calls return, and ForwardTimeout
\* bounds the wait for an upstream.  No client is obliged to send a request.
FairSpec == Spec /\ \A r \in Requests : WF_vars(Handle(r))

-----------------------------------------------------------------------------
(* Properties *)

RowType == [route : Routes, kind : {"primary", "retry", "failover"}, out : Outcome]

Local == [pc : Control, policy : Policy, stream : BOOLEAN, mine : SUBSET Routes,
          snap : [Routes -> Nat], tried : SUBSET Routes, route : Routes \cup {0},
          tries : Nat, failovers : Nat, armed : BOOLEAN, late : BOOLEAN,
          out : Outcome, sticky : Nat, reply : Reply]

\* The variables and the locals of every request have their types.
TypeOK ==
    /\ now \in 1..MaxTime
    /\ pause \in [Routes -> [until : Nat, by : Requests \cup {NoRequest}, streak : Nat]]
    /\ usage \in [Requests -> Seq(RowType)]
    /\ gone \in [Requests -> BOOLEAN]
    /\ req \in [Requests -> Local]

\* The attempts of a request, the one not yet in the usage log included.
Trail(r) ==
    IF req[r].pc \in {"cool", "note", "clear", "record"}
    THEN Append(usage[r], Row(req[r])) ELSE usage[r]

Budget(g) == (1 + g.retries) * (1 + g.failoverMax)

\* Retry and failover together stay within (1 + retry_count) * (1 + failover_max)
\* attempts, whatever mixture of errors occurs and whatever other requests do.
AttemptsBounded ==
    \A r \in Requests :
        Len(Trail(r)) <= Budget(req[r].policy)

\* A route that has been left is never used again by the same request, and only
\* the first attempt on a route other than the first is logged as a failover.
RouteVisitedOnce ==
    \A r \in Requests : \A i, j \in DOMAIN Trail(r) : i < j =>
        LET a == Trail(r)[i]
            b == Trail(r)[j]
        IN  /\ b.kind # "primary"
            /\ a.route = b.route =>
                 \A k \in i+1..j : Trail(r)[k].route = a.route /\ Trail(r)[k].kind = "retry"

\* Nothing follows an attempt that reached the client, nor one that failed
\* because the client left.
TerminalAttemptIsLast ==
    \A r \in Requests : \A i \in DOMAIN Trail(r) :
        Trail(r)[i].out \in Success \cup {"commit_err", "canceled"} => i = Len(Trail(r))

\* The client was served exactly when the last attempt in the log is a success,
\* and an echoed error is one that an upstream really sent for this request.
ReplyMatchesLog ==
    \A r \in Requests : req[r].pc = "done" =>
        /\ (req[r].reply = "delivered") <=>
             (usage[r] # << >> /\ usage[r][Len(usage[r])].out \in Success)
        /\ req[r].reply = "echo" =>
             /\ req[r].sticky \in DOMAIN usage[r]
             /\ usage[r][req[r].sticky].out \in HttpError

\* What the log of a request tells is a story HandleForward may write: each route
\* once, nothing after the end, and the reply that the last row says.
LogIsConsistent == RouteVisitedOnce /\ TerminalAttemptIsLast /\ ReplyMatchesLog

\* A route is in cooldown on account of a request only if that request used up
\* every try it had there, each one failing for a reason that is the upstream's.
CooldownEarned ==
    \A rt \in Routes, r \in Requests : pause[rt].by = r =>
        LET here == {i \in DOMAIN Trail(r) : Trail(r)[i].route = rt}
        IN  /\ Cardinality(here) = 1 + req[r].policy.retries
            /\ \A i \in here : Fails(req[r], Trail(r)[i].out) /\ Trail(r)[i].out # "canceled"

\* "The last shot waits for the upstream": no request is given up because the
\* gateway itself cut off an attempt that had nowhere left to fail over to.
FirstTokenTimeoutNeverFinal ==
    \A r \in Requests : req[r].reply \in {"echo", "bad_gateway"} =>
        usage[r] = << >> \/ usage[r][Len(usage[r])].out # "timeout"

\* The error on display goes away as soon as enough successes are counted: a
\* route with a full streak has a request between the two statements.
StreakSettles ==
    \A rt \in Routes : pause[rt].streak >= ClearStreak =>
        \E r \in Requests : req[r].pc = "clear" /\ req[r].route = rt

\* Every request that is accepted is answered, and its attempts are on record.
EveryRequestEnds == \A r \in Requests : req[r].pc # "idle" ~> req[r].pc = "done"

\* HandleForward keeps the contract: the reply is what a caller sees, the trail
\* what was spent to produce it.
Contract ==
    INSTANCE ForwardContract WITH
        Budgets  <- {Budget(Effective(g)) : g \in Policies},
        phase    <- [r \in Requests |-> IF req[r].pc = "idle" THEN "new"
                                        ELSE IF req[r].reply = "none" THEN "open" ELSE "closed"],
        budget   <- [r \in Requests |-> IF req[r].pc = "idle" THEN 0
                                        ELSE Budget(req[r].policy)],
        attempts <- [r \in Requests |-> Len(Trail(r))]

\* The detailed handler implements the contract.
ImplementsContract == Contract!Spec

-----------------------------------------------------------------------------
(* Instances for TLC: values of the constants *)

\* Route 1 is cheapest; 2 and 3 share a rate.
MCRate == [rt \in Routes |-> IF rt = 1 THEN 1 ELSE 2]

Group(retry, n, failover, m, on4xx, cooldown, first) ==
    [retryEnabled |-> retry, retries |-> n, failoverEnabled |-> failover,
     failoverMax |-> m, on4xx |-> on4xx, cooldown |-> cooldown, firstToken |-> first]

\* One request alone: the switch off, retries only, failover only, both.
AllPolicies == {Group(FALSE, 2, TRUE, 2, TRUE, 1, TRUE),
                Group(TRUE, 1, FALSE, 2, FALSE, 1, TRUE),
                Group(TRUE, 0, TRUE, 2, TRUE, 0, TRUE),
                Group(TRUE, 1, TRUE, 1, FALSE, 1, TRUE)}

\* Requests of a race are interchangeable.
RaceSymmetry == Permutations(Requests)

\* Two requests: one retry and one failover.
RacePolicies == {Group(TRUE, 1, TRUE, 1, FALSE, 1, TRUE)}
=============================================================================
