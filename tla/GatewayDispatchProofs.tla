----------------------- MODULE GatewayDispatchProofs ------------------------
(***************************************************************************)
(* Theorems about GatewayDispatch, for any number of requests and routes,  *)
(* any policies, any clock bound and any interleaving.                     *)
(*                                                                         *)
(* The inductive invariants are conjunctions of facts about one request    *)
(* at a time, so every step is proved for an arbitrary request r: either   *)
(* the step is r's own, or it leaves req[r] and usage[r] alone.            *)
(*                                                                         *)
(* In order: types; the attempt budget; the first-token timeout; what the  *)
(* usage log of a request tells, which is a story HandleForward may write; *)
(* that the handler keeps the contract of ForwardContract; and what the    *)
(* rows of the routes say of the log, their cooldowns and their streaks.   *)
(***************************************************************************)
EXTENDS GatewayDispatch, FiniteSetTheorems, TLAPS

-----------------------------------------------------------------------------
(* Types of the operators that build a request's next state *)

\* The master switch turns one stored policy into another.
LEMMA EffectiveType == ASSUME NEW g \in Policy PROVE Effective(g) \in Policy
BY DEF Effective, Policy

\* A fresh request is well typed.
LEMMA NewRequestType == ASSUME NEW g \in Policy PROVE NewRequest(g) \in Local
BY DEF NewRequest, Local, Control, Outcome, Answer, Reply

LEMMA NoPolicyType == NoPolicy \in Policy
BY DEF NoPolicy, Policy

\* So is a request that is turned away, given up, or looks for its next step.
LEMMA EndingType ==
    ASSUME NEW q \in Local
    PROVE  /\ Refused(q) \in Local /\ Refused(q).pc = "done"
           /\ Finished(q) \in Local /\ Finished(q).pc = "done"
BY DEF Refused, Finished, Local, Control, Reply

LEMMA AfterRecordType ==
    ASSUME NEW q \in Local
    PROVE  AfterRecord(q) \in Local
<1>1. [q EXCEPT !.pc = "done"] \in Local BY DEF Local, Control
<1>2. [q EXCEPT !.pc = "pick"] \in Local BY DEF Local, Control
<1>3. [q EXCEPT !.pc = "attempt", !.tries = @ + 1] \in Local
  <2>1. \A n \in Nat : [q EXCEPT !.pc = "attempt", !.tries = n] \in Local
    BY DEF Local, Control
  <2>2. q.tries + 1 \in Nat BY DEF Local
  <2> QED BY <2>1, <2>2
<1>4. Finished(q) \in Local BY EndingType
<1> QED BY <1>1, <1>2, <1>3, <1>4 DEF AfterRecord

\* The answer of one attempt leaves a well-typed request.
LEMMA ReplyToType ==
    ASSUME NEW q \in Local, NEW out \in Outcome
    PROVE  ReplyTo(q, out) \in Reply
BY DEF ReplyTo, Reply

LEMMA RowHasType ==
    ASSUME NEW q \in Local, q.route \in Routes
    PROVE  Row(q) \in RowType
<1>1. q.out \in Outcome BY DEF Local
<1>2. AttemptKind(q) \in {"primary", "retry", "failover"} BY DEF AttemptKind
<1> QED BY <1>1, <1>2 DEF Row, RowType

\* Routes are only ever drawn from the routes offered, and offered from Routes.
LEMMA FirstChoicesSubset == ASSUME NEW S PROVE FirstChoices(S) \subseteq S
BY DEF FirstChoices

LEMMA CandidatesSubset ==
    ASSUME NEW q \in Local, NEW t PROVE Candidates(q, t) \subseteq Routes \ q.tried
BY DEF Candidates, Local

-----------------------------------------------------------------------------
(* Types *)

\* A request works on a route between PickRoute and the end of its attempt.
Working == {"attempt", "sent", "cool", "note", "clear", "record"}

RouteChosen == \A r \in Requests : req[r].pc \in Working => req[r].route \in Routes

TypeInv == TypeOK /\ RouteChosen

LEMMA InitTypeInv == Init => TypeInv
<1> SUFFICES ASSUME Init PROVE TypeInv
  OBVIOUS
<1>1. NewRequest(NoPolicy) \in Local BY NewRequestType, NoPolicyType
<1>2. NoPause \in [until : Nat, by : Requests \cup {NoRequest}, streak : Nat]
  BY DEF NoPause
<1>3. << >> \in Seq(RowType) OBVIOUS
<1>4. TypeOK BY <1>1, <1>2, <1>3, DispatchAssumption DEF Init, TypeOK
<1>5. RouteChosen BY DEF Init, RouteChosen, Working, NewRequest
<1> QED BY <1>4, <1>5 DEF TypeInv

\* A step that only replaces req[r] keeps the types if the new value has them.
LEMMA ReqStepTypeInv ==
    ASSUME TypeInv, NEW r \in Requests, NEW p \in Local,
           p.pc \in Working => p.route \in Routes,
           req' = [req EXCEPT ![r] = p], UNCHANGED <<now, pause, usage, gone>>
    PROVE  TypeInv'
<1>1. TypeOK' BY DEF TypeInv, TypeOK
<1>2. RouteChosen' BY DEF TypeInv, TypeOK, RouteChosen
<1> QED BY <1>1, <1>2 DEF TypeInv

LEMMA AuthenticateTypeInv ==
    ASSUME TypeInv, NEW r \in Requests, Authenticate(r) PROVE TypeInv'
<1>1. PICK g \in Policies, s \in Modes :
         \E p \in {Refused([NewRequest(Effective(g)) EXCEPT !.stream = s]),
                   [[NewRequest(Effective(g)) EXCEPT !.stream = s] EXCEPT !.pc = "load"]} :
             req' = [req EXCEPT ![r] = p]
  BY DEF Authenticate
<1> DEFINE q == [NewRequest(Effective(g)) EXCEPT !.stream = s]
<1>2. q \in Local
  <2>1. Effective(g) \in Policy BY EffectiveType, DispatchAssumption
  <2>2. NewRequest(Effective(g)) \in Local BY <2>1, NewRequestType
  <2>3. s \in BOOLEAN BY DispatchAssumption
  <2> QED BY <2>2, <2>3 DEF Local
<1> HIDE DEF q
<1>3. [q EXCEPT !.pc = "load"] \in Local BY <1>2 DEF Local, Control
<1>4. Refused(q) \in Local BY <1>2, EndingType
<1>5. PICK p \in {Refused(q), [q EXCEPT !.pc = "load"]} : req' = [req EXCEPT ![r] = p]
  BY <1>1 DEF q
<1>6. p \in Local /\ p.pc \notin Working
  BY <1>2, <1>3, <1>4 DEF Refused, Working, Local
<1> QED BY <1>5, <1>6, ReqStepTypeInv DEF Authenticate

LEMMA LoadRoutesTypeInv ==
    ASSUME TypeInv, NEW r \in Requests, LoadRoutes(r) PROVE TypeInv'
<1>1. req[r] \in Local BY DEF TypeInv, TypeOK
<1>2. CASE req' = [req EXCEPT ![r] = Refused(req[r])]
  <2>1. Refused(req[r]) \in Local /\ Refused(req[r]).pc \notin Working
    BY <1>1, EndingType DEF Working
  <2> QED BY <1>2, <2>1, ReqStepTypeInv DEF LoadRoutes
<1>3. ASSUME NEW mine \in SUBSET Routes,
             req' = [req EXCEPT ![r] = [req[r] EXCEPT !.pc = "pick", !.mine = mine,
                              !.snap = [rt \in Routes |-> pause[rt].until]]]
      PROVE  TypeInv'
  <2> DEFINE snap == [rt \in Routes |-> pause[rt].until]
             p == [req[r] EXCEPT !.pc = "pick", !.mine = mine, !.snap = snap]
  <2>1. snap \in [Routes -> Nat] BY DEF TypeInv, TypeOK
  <2> HIDE DEF snap
  <2>2. p \in Local /\ p.pc \notin Working BY <1>1, <2>1 DEF Local, Control, Working
  <2>3. req' = [req EXCEPT ![r] = p] BY <1>3 DEF snap
  <2> HIDE DEF p
  <2> QED BY <2>2, <2>3, ReqStepTypeInv DEF LoadRoutes
<1> QED BY <1>2, <1>3 DEF LoadRoutes

LEMMA PickRouteTypeInv ==
    ASSUME TypeInv, NEW r \in Requests, PickRoute(r) PROVE TypeInv'
<1> DEFINE q == req[r]
<1>1. q \in Local BY DEF TypeInv, TypeOK
<1>2. CASE req' = [req EXCEPT ![r] = Finished(q)]
  <2>1. Finished(q) \in Local /\ Finished(q).pc \notin Working
    BY <1>1, EndingType DEF Working
  <2> QED BY <1>2, <2>1, ReqStepTypeInv DEF PickRoute
<1>3. ASSUME NEW rt \in FirstChoices(Candidates(q, now)),
             NEW done, done = q.failovers + (IF q.tried = {} THEN 0 ELSE 1),
             NEW p, p = [q EXCEPT !.pc = "attempt", !.route = rt, !.tries = 0,
                                  !.tried = q.tried \cup {rt}, !.failovers = done],
             req' = [req EXCEPT ![r] = [p EXCEPT !.armed = FirstTokenArmed(p, now)]]
      PROVE  TypeInv'
  <2>1. rt \in Routes BY <1>1, FirstChoicesSubset, CandidatesSubset
  <2>2. done \in Nat BY <1>1, <1>3 DEF Local
  <2>3. p \in Local BY <1>1, <1>3, <2>1, <2>2 DEF Local, Control
  <2>4. p.route = rt BY <1>1, <1>3 DEF Local
  <2> DEFINE n == [p EXCEPT !.armed = FirstTokenArmed(p, now)]
  <2>5. FirstTokenArmed(p, now) \in BOOLEAN BY <2>3 DEF FirstTokenArmed, Local, Policy
  <2>6. n \in Local /\ n.route \in Routes BY <2>1, <2>3, <2>4, <2>5 DEF Local
  <2> HIDE DEF n
  <2> QED BY <1>3, <2>6, ReqStepTypeInv DEF PickRoute, n
<1> QED BY <1>2, <1>3 DEF PickRoute

LEMMA StartAttemptTypeInv ==
    ASSUME TypeInv, NEW r \in Requests, StartAttempt(r) PROVE TypeInv'
<1> DEFINE q == req[r]
<1>1. q \in Local /\ q.route \in Routes
  BY DEF TypeInv, TypeOK, RouteChosen, StartAttempt, Working
<1>2. [q EXCEPT !.pc = "sent", !.late = gone[r]] \in Local
  <2>1. gone[r] \in BOOLEAN BY DEF TypeInv, TypeOK
  <2> QED BY <1>1, <2>1 DEF Local, Control
<1>3. [q EXCEPT !.pc = "record", !.out = "config"] \in Local
  BY <1>1 DEF Local, Control, Outcome
<1>4. Refused(q) \in Local /\ Refused(q).pc \notin Working
  BY <1>1, EndingType DEF Working
<1>5. PICK p \in {[q EXCEPT !.pc = "sent", !.late = gone[r]],
                 [q EXCEPT !.pc = "record", !.out = "config"],
                 Refused(q)} : req' = [req EXCEPT ![r] = p]
  BY DEF StartAttempt
<1>6. p \in Local BY <1>2, <1>3, <1>4
<1>7. p.pc \in Working => p.route \in Routes BY <1>1, <1>4 DEF Local
<1> QED BY <1>5, <1>6, <1>7, ReqStepTypeInv DEF StartAttempt

\* The answer of an upstream leaves a well-typed request on the same route.
LEMMA RespondTypeInv ==
    ASSUME TypeInv, NEW r \in Requests, Respond(r) PROVE TypeInv'
<1> DEFINE q == req[r]
<1>1. q \in Local /\ q.route \in Routes
  BY DEF TypeInv, TypeOK, RouteChosen, Respond, Working
<1>2. PICK out \in Answers \cap Possible(q, gone[r]), body \in BOOLEAN :
         req' = [req EXCEPT ![r] =
                [q EXCEPT !.out = out,
                          !.pc = IF out \in Success THEN "note"
                                 ELSE IF Cools(q, out) THEN "cool" ELSE "record",
                          !.reply = ReplyTo(q, out),
                          !.sticky = StoredError(q, out, body, Len(usage[r]) + 1)]]
  BY DEF Respond
<1> DEFINE pc == IF out \in Success THEN "note"
                 ELSE IF Cools(q, out) THEN "cool" ELSE "record"
           sticky == StoredError(q, out, body, Len(usage[r]) + 1)
           p == [q EXCEPT !.out = out, !.pc = pc, !.reply = ReplyTo(q, out),
                          !.sticky = sticky]
<1>3. out \in Outcome BY DispatchAssumption DEF Outcome
<1>4. pc \in Control BY DEF Control
<1>5. sticky \in Nat
  <2>1. Len(usage[r]) + 1 \in Nat BY DEF TypeInv, TypeOK
  <2> QED BY <1>1, <2>1 DEF StoredError, Local
<1>6. ReplyTo(q, out) \in Reply BY <1>1, <1>3, ReplyToType
<1>7. req' = [req EXCEPT ![r] = p] BY <1>2
<1> HIDE DEF pc, sticky
<1>8. p \in Local /\ p.route = q.route BY <1>1, <1>3, <1>4, <1>5, <1>6 DEF Local
<1> HIDE DEF p
<1> QED BY <1>1, <1>7, <1>8, ReqStepTypeInv DEF Respond

\* The three statements on the route row keep rows of the same shape.
LEMMA RouteRowTypeInv ==
    ASSUME TypeInv, NEW r \in Requests, Cool(r) \/ NoteSuccess(r) \/ ClearResidue(r)
    PROVE  TypeInv'
<1> DEFINE PauseType == [until : Nat, by : Requests \cup {NoRequest}, streak : Nat]
           rt == req[r].route
<1>1. req[r] \in Local /\ rt \in Routes
  BY DEF TypeInv, TypeOK, RouteChosen, Cool, NoteSuccess, ClearResidue, Working
<1>2. pause' \in [Routes -> PauseType]
  <2>1. pause \in [Routes -> PauseType] /\ pause[rt] \in PauseType
    BY <1>1 DEF TypeInv, TypeOK
  <2>2. CASE Cool(r)
    <3>1. now + req[r].policy.cooldown \in Nat
      <4>1. req[r].policy.cooldown \in Nat BY <1>1 DEF Local, Policy
      <4>2. now \in Nat BY DEF TypeInv, TypeOK
      <4> QED BY <4>1, <4>2
    <3> DEFINE u == now + req[r].policy.cooldown
    <3>2. [until |-> u, by |-> r, streak |-> 0] \in PauseType BY <3>1
    <3>3. pause' = [pause EXCEPT ![rt] = [until |-> u, by |-> r, streak |-> 0]]
      BY <2>2 DEF Cool
    <3> QED BY <2>1, <3>2, <3>3
  <2>3. CASE NoteSuccess(r)
    BY <1>1, <2>1, <2>3 DEF NoteSuccess
  <2>4. CASE ClearResidue(r)
    BY <1>1, <2>1, <2>4 DEF ClearResidue, NoPause
  <2> QED BY <2>2, <2>3, <2>4
<1>3. PICK pc \in {"clear", "record"} : req' = [req EXCEPT ![r].pc = pc]
  BY DEF Cool, NoteSuccess, ClearResidue
<1>4. req' \in [Requests -> Local]
  <2>1. [req[r] EXCEPT !.pc = pc] \in Local BY <1>1 DEF Local, Control
  <2> QED BY <1>3, <2>1 DEF TypeInv, TypeOK
<1>5. UNCHANGED <<now, usage, gone>> BY DEF Cool, NoteSuccess, ClearResidue
<1>6. TypeOK' BY <1>2, <1>4, <1>5 DEF TypeInv, TypeOK
<1>7. RouteChosen'
  <2>1. \A s \in Requests : req'[s].route = req[s].route
    BY <1>3 DEF TypeInv, TypeOK, Local
  <2>2. \A s \in Requests \ {r} : req'[s] = req[s] BY <1>3 DEF TypeInv, TypeOK
  <2> QED BY <1>1, <2>1, <2>2 DEF TypeInv, RouteChosen
<1> QED BY <1>6, <1>7 DEF TypeInv

LEMMA RecordTypeInv ==
    ASSUME TypeInv, NEW r \in Requests, Record(r) PROVE TypeInv'
<1> DEFINE q == req[r]
           p == AfterRecord(q)
<1>1. q \in Local /\ q.route \in Routes
  BY DEF TypeInv, TypeOK, RouteChosen, Record, Working
<1>2. p \in Local BY <1>1, AfterRecordType
<1>3. p.pc \in Working => p.route \in Routes
  BY <1>1, EndingType DEF AfterRecord, Working, Local
<1>4. usage' \in [Requests -> Seq(RowType)]
  <2>1. Row(q) \in RowType BY <1>1, RowHasType
  <2>2. Append(usage[r], Row(q)) \in Seq(RowType) BY <2>1 DEF TypeInv, TypeOK
  <2> QED BY <2>2 DEF Record, TypeInv, TypeOK
<1>5. req' = [req EXCEPT ![r] = p] BY DEF Record
<1> HIDE DEF p
<1>6. TypeOK' BY <1>2, <1>4, <1>5 DEF Record, TypeInv, TypeOK
<1>7. RouteChosen' BY <1>3, <1>5 DEF TypeInv, TypeOK, RouteChosen
<1> QED BY <1>6, <1>7 DEF TypeInv

LEMMA NextTypeInv == TypeInv /\ [Next]_vars => TypeInv'
<1> SUFFICES ASSUME TypeInv, [Next]_vars PROVE TypeInv'
  OBVIOUS
<1>1. ASSUME NEW r \in Requests, Authenticate(r) \/ Handle(r) PROVE TypeInv'
  BY <1>1, AuthenticateTypeInv, LoadRoutesTypeInv, PickRouteTypeInv, StartAttemptTypeInv,
     RespondTypeInv, RouteRowTypeInv, RecordTypeInv DEF Handle
<1>2. ASSUME NEW r \in Requests, ClientLeaves(r) PROVE TypeInv'
  BY <1>2 DEF ClientLeaves, TypeInv, TypeOK, RouteChosen
<1>3. ASSUME NEW rt \in Routes, ClearRoutePause(rt) PROVE TypeInv'
  BY <1>3 DEF ClearRoutePause, NoPause, TypeInv, TypeOK, RouteChosen
<1>4. CASE Tick
  <2>1. now' \in 1..MaxTime BY <1>4, DispatchAssumption DEF Tick, TypeInv, TypeOK
  <2> QED BY <1>4, <2>1 DEF Tick, TypeInv, TypeOK, RouteChosen
<1>5. CASE UNCHANGED vars
  BY <1>5 DEF vars, TypeInv, TypeOK, RouteChosen
<1> QED BY <1>1, <1>2, <1>3, <1>4, <1>5 DEF Next

\* Every variable of the data plane keeps its type; the request's route is a
\* real one whenever it is used (HandleForward).
THEOREM TypeCorrect == Spec => []TypeOK
<1>1. TypeInv => TypeOK BY DEF TypeInv
<1> QED BY InitTypeInv, NextTypeInv, <1>1, PTL DEF Spec

-----------------------------------------------------------------------------
(* What a step leaves alone *)

\* The handler of one request never touches the locals or the log of another.
LEMMA OtherRequests ==
    ASSUME TypeInv, NEW r \in Requests, NEW s \in Requests \ {r},
           Authenticate(r) \/ Handle(r)
    PROVE  req'[s] = req[s] /\ usage'[s] = usage[s]
<1>1. req \in [Requests -> Local] /\ usage \in [Requests -> Seq(RowType)]
  BY DEF TypeInv, TypeOK
<1>2. CASE Authenticate(r) BY <1>1, <1>2 DEF Authenticate
<1>3. CASE LoadRoutes(r) BY <1>1, <1>3 DEF LoadRoutes
<1>4. CASE PickRoute(r) BY <1>1, <1>4 DEF PickRoute
<1>5. CASE StartAttempt(r) BY <1>1, <1>5 DEF StartAttempt
<1>6. CASE Respond(r) BY <1>1, <1>6 DEF Respond
<1>7. CASE Cool(r) \/ NoteSuccess(r) \/ ClearResidue(r)
  BY <1>1, <1>7 DEF Cool, NoteSuccess, ClearResidue
<1>8. CASE Record(r) BY <1>1, <1>8 DEF Record
<1> QED BY <1>2, <1>3, <1>4, <1>5, <1>6, <1>7, <1>8 DEF Handle

\* Two stages of the same visit to a route.
SameVisit(q, p) ==
    /\ p.policy = q.policy /\ p.tries = q.tries /\ p.failovers = q.failovers
    /\ p.tried = q.tried /\ p.mine = q.mine /\ p.snap = q.snap /\ p.armed = q.armed
    /\ p.route = q.route

\* What Authenticate makes of the request.
LEMMA AuthenticateShape ==
    ASSUME TypeInv, NEW r \in Requests, Authenticate(r)
    PROVE  /\ req[r].pc = "idle" /\ usage' = usage
           /\ \E g \in Policies : req'[r].policy = Effective(g)
           /\ req'[r].tries = 0 /\ req'[r].failovers = 0 /\ req'[r].tried = {}
           /\ req'[r].sticky = 0
           /\ \/ req'[r].pc = "load" /\ req'[r].reply = "none"
              \/ req'[r].pc = "done" /\ req'[r].reply = "refused"
<1>1. PICK g \in Policies, s \in Modes :
         \E p \in {Refused([NewRequest(Effective(g)) EXCEPT !.stream = s]),
                   [[NewRequest(Effective(g)) EXCEPT !.stream = s] EXCEPT !.pc = "load"]} :
             req' = [req EXCEPT ![r] = p]
  BY DEF Authenticate
<1> DEFINE e == Effective(g)
<1>2. PICK p \in {Refused([NewRequest(e) EXCEPT !.stream = s]),
                 [[NewRequest(e) EXCEPT !.stream = s] EXCEPT !.pc = "load"]} :
           req'[r] = p
  BY <1>1 DEF TypeInv, TypeOK
<1> HIDE DEF e
<1>3. /\ p.policy = e /\ p.tries = 0 /\ p.failovers = 0 /\ p.tried = {} /\ p.sticky = 0
      /\ \/ p.pc = "load" /\ p.reply = "none"
         \/ p.pc = "done" /\ p.reply = "refused"
  <2> DEFINE q == [NewRequest(e) EXCEPT !.stream = s]
  <2>1. q.policy = e /\ q.tries = 0 /\ q.failovers = 0 /\ q.tried = {} /\ q.sticky = 0
        /\ q.reply = "none"
    BY DEF NewRequest
  <2>2. CASE p = Refused(q) BY <2>1, <2>2 DEF Refused, NewRequest
  <2>3. CASE p = [q EXCEPT !.pc = "load"] BY <2>1, <2>3 DEF NewRequest
  <2> QED BY <1>2, <2>2, <2>3
<1>4. req[r].pc = "idle" /\ usage' = usage BY DEF Authenticate
<1> QED BY <1>2, <1>3, <1>4 DEF e

\* What the steps within a visit make of the request.
LEMMA LoadRoutesShape ==
    ASSUME TypeInv, NEW r \in Requests, LoadRoutes(r)
    PROVE  /\ req'[r].policy = req[r].policy /\ req'[r].tries = req[r].tries
           /\ req'[r].failovers = req[r].failovers /\ req'[r].tried = req[r].tried
           /\ req'[r].out = req[r].out /\ req'[r].sticky = req[r].sticky
           /\ \/ req'[r].pc = "pick" /\ req'[r].reply = req[r].reply
              \/ req'[r].pc = "done" /\ req'[r].reply = "refused"
<1> DEFINE q == req[r]
<1>1. q \in Local /\ req \in [Requests -> Local] BY DEF TypeInv, TypeOK
<1>2. CASE req' = [req EXCEPT ![r] = Refused(q)]
  <2>1. req'[r] = Refused(q) BY <1>1, <1>2
  <2> QED BY <1>1, <2>1 DEF Refused, Local
<1>3. ASSUME NEW mine, NEW snap,
             req' = [req EXCEPT ![r] = [q EXCEPT !.pc = "pick", !.mine = mine, !.snap = snap]]
      PROVE  /\ req'[r].policy = q.policy /\ req'[r].tries = q.tries
             /\ req'[r].failovers = q.failovers /\ req'[r].tried = q.tried
             /\ req'[r].out = q.out /\ req'[r].sticky = q.sticky
             /\ req'[r].pc = "pick" /\ req'[r].reply = q.reply
  <2>1. req'[r] = [q EXCEPT !.pc = "pick", !.mine = mine, !.snap = snap] BY <1>1, <1>3
  <2> QED BY <1>1, <2>1 DEF Local
<1> DEFINE until == [rt \in Routes |-> pause[rt].until]
<1>4. \/ req' = [req EXCEPT ![r] = Refused(q)]
      \/ \E mine : req' = [req EXCEPT ![r] =
                             [q EXCEPT !.pc = "pick", !.mine = mine, !.snap = until]]
  <2>1. PICK p \in {Refused(q)} \cup
               {[q EXCEPT !.pc = "pick", !.mine = mine, !.snap = until] :
                    mine \in SUBSET Routes} : req' = [req EXCEPT ![r] = p]
    BY DEF LoadRoutes
  <2> HIDE DEF until
  <2> QED BY <2>1
<1> HIDE DEF until
<1> QED BY <1>2, <1>3, <1>4

LEMMA StartAttemptShape ==
    ASSUME TypeInv, NEW r \in Requests, StartAttempt(r)
    PROVE  /\ req[r].pc = "attempt" /\ SameVisit(req[r], req'[r])
           /\ req'[r].sticky = req[r].sticky
           /\ \/ req'[r].pc = "done" /\ req'[r].reply = "refused"
              \/ req'[r].pc = "sent" /\ req'[r].reply = req[r].reply
              \/ /\ req'[r].pc = "record" /\ req'[r].reply = req[r].reply
                 /\ req'[r].out = "config"
<1> DEFINE q == req[r]
<1>1. q \in Local /\ req \in [Requests -> Local] BY DEF TypeInv, TypeOK
<1>2. PICK p \in {[q EXCEPT !.pc = "sent", !.late = gone[r]],
                 [q EXCEPT !.pc = "record", !.out = "config"],
                 Refused(q)} : req' = [req EXCEPT ![r] = p]
  BY DEF StartAttempt
<1>3. req'[r] = p /\ q.pc = "attempt" BY <1>1, <1>2 DEF StartAttempt
<1>4. CASE p = Refused(q) BY <1>1, <1>3, <1>4 DEF Refused, Local, SameVisit
<1>5. CASE p = [q EXCEPT !.pc = "sent", !.late = gone[r]]
  BY <1>1, <1>3, <1>5 DEF Local, SameVisit
<1>6. CASE p = [q EXCEPT !.pc = "record", !.out = "config"]
  BY <1>1, <1>3, <1>6 DEF Local, SameVisit
<1> QED BY <1>2, <1>4, <1>5, <1>6

LEMMA RespondShape ==
    ASSUME TypeInv, NEW r \in Requests, Respond(r)
    PROVE  /\ req[r].pc = "sent" /\ SameVisit(req[r], req'[r])
           /\ req'[r].out \in Answers \cap Possible(req[r], gone[r])
           /\ req'[r].reply = ReplyTo(req[r], req'[r].out)
           /\ req'[r].pc \in {"note", "cool", "record"}
           /\ req'[r].pc = "note" <=> req'[r].out \in Success
           /\ req'[r].pc = "cool" => Cools(req[r], req'[r].out)
           /\ \/ req'[r].sticky = req[r].sticky
              \/ req'[r].out \in HttpError /\ req'[r].sticky \in {0, Len(usage[r]) + 1}
<1> DEFINE q == req[r]
<1>1. q \in Local /\ req \in [Requests -> Local] BY DEF TypeInv, TypeOK
<1>2. PICK out \in Answers \cap Possible(q, gone[r]), body \in BOOLEAN :
         req' = [req EXCEPT ![r] =
                [q EXCEPT !.out = out,
                          !.pc = IF out \in Success THEN "note"
                                 ELSE IF Cools(q, out) THEN "cool" ELSE "record",
                          !.reply = ReplyTo(q, out),
                          !.sticky = StoredError(q, out, body, Len(usage[r]) + 1)]]
  BY DEF Respond
<1> DEFINE pc == IF out \in Success THEN "note"
                 ELSE IF Cools(q, out) THEN "cool" ELSE "record"
           sticky == StoredError(q, out, body, Len(usage[r]) + 1)
           p == [q EXCEPT !.out = out, !.pc = pc, !.reply = ReplyTo(q, out),
                          !.sticky = sticky]
<1>3. req'[r] = p BY <1>1, <1>2
<1>4. /\ pc \in {"note", "cool", "record"}
      /\ pc = "note" <=> out \in Success
      /\ pc = "cool" => Cools(q, out)
  OBVIOUS
<1>7. sticky = q.sticky \/ (out \in HttpError /\ sticky \in {0, Len(usage[r]) + 1})
  BY DEF StoredError
<1> HIDE DEF pc, sticky
<1>5. /\ p.out = out /\ p.pc = pc /\ p.reply = ReplyTo(q, out) /\ SameVisit(q, p)
      /\ p.sticky = sticky
  BY <1>1 DEF Local, SameVisit
<1>6. q.pc = "sent" BY DEF Respond
<1> HIDE DEF p
<1> QED BY <1>2, <1>3, <1>4, <1>5, <1>6, <1>7

LEMMA RouteRowShape ==
    ASSUME TypeInv, NEW r \in Requests, Cool(r) \/ NoteSuccess(r) \/ ClearResidue(r)
    PROVE  /\ SameVisit(req[r], req'[r]) /\ req'[r].sticky = req[r].sticky
           /\ req'[r].out = req[r].out /\ req'[r].reply = req[r].reply
           /\ \/ req[r].pc = "cool" /\ req'[r].pc = "record"
              \/ req[r].pc = "note" /\ req'[r].pc = "clear"
              \/ req[r].pc = "clear" /\ req'[r].pc = "record"
BY DEF TypeInv, TypeOK, Cool, NoteSuccess, ClearResidue, Local, SameVisit

LEMMA PickRouteShape ==
    ASSUME TypeInv, NEW r \in Requests, PickRoute(r)
    PROVE  /\ req[r].pc = "pick"
           /\ \/ NoFurtherRoute(req[r]) /\ req'[r] = Finished(req[r])
              \/ /\ ~NoFurtherRoute(req[r])
                 /\ req'[r].policy = req[r].policy /\ req'[r].reply = req[r].reply
                 /\ req'[r].route \in Candidates(req[r], now)
                 /\ req'[r].tried = req[r].tried \cup {req'[r].route}
                 /\ req'[r].tries = 0 /\ req'[r].pc = "attempt"
                 /\ req'[r].sticky = req[r].sticky
                 /\ req'[r].failovers = req[r].failovers + (IF req[r].tried = {} THEN 0 ELSE 1)
                 /\ req'[r].armed = FirstTokenArmed(req'[r], now)
<1> DEFINE q == req[r]
           done == q.failovers + (IF q.tried = {} THEN 0 ELSE 1)
           visit(rt) == [q EXCEPT !.pc = "attempt", !.route = rt, !.tries = 0,
                                  !.tried = q.tried \cup {rt}, !.failovers = done]
           next(rt) == [visit(rt) EXCEPT !.armed = FirstTokenArmed(visit(rt), now)]
<1>1. q \in Local /\ req \in [Requests -> Local] BY DEF TypeInv, TypeOK
<1>2. /\ q.pc = "pick"
      /\ \/ NoFurtherRoute(q) /\ req' = [req EXCEPT ![r] = Finished(q)]
         \/ ~NoFurtherRoute(q) /\ \E rt \in FirstChoices(Candidates(q, now)) :
                req' = [req EXCEPT ![r] = next(rt)]
  BY DEF PickRoute
<1>3. CASE NoFurtherRoute(q) /\ req' = [req EXCEPT ![r] = Finished(q)]
  BY <1>1, <1>2, <1>3
<1>4. ASSUME ~NoFurtherRoute(q), NEW rt \in FirstChoices(Candidates(q, now)),
             req' = [req EXCEPT ![r] = next(rt)]
      PROVE  /\ req'[r].policy = q.policy /\ req'[r].reply = q.reply
             /\ req'[r].route \in Candidates(q, now) /\ req'[r].sticky = q.sticky
             /\ req'[r].tried = q.tried \cup {req'[r].route} /\ req'[r].tries = 0 /\ req'[r].pc = "attempt"
             /\ req'[r].failovers = done
             /\ req'[r].armed = FirstTokenArmed(req'[r], now)
  <2>1. req'[r] = next(rt) BY <1>1, <1>4
  <2> DEFINE v == visit(rt)
  <2>2. /\ v.policy = q.policy /\ v.reply = q.reply /\ v.tried = q.tried \cup {rt}
        /\ v.route = rt /\ v.sticky = q.sticky
        /\ v.tries = 0 /\ v.pc = "attempt" /\ v.failovers = done
        /\ DOMAIN v = DOMAIN q /\ "armed" \in DOMAIN v
    BY <1>1 DEF Local
  <2> DEFINE w == [v EXCEPT !.armed = FirstTokenArmed(v, now)]
  <2>3. req'[r] = w BY <2>1
  <2> HIDE DEF visit
  <2>4. /\ w.policy = v.policy /\ w.reply = v.reply /\ w.tried = v.tried
        /\ w.tries = v.tries /\ w.pc = v.pc /\ w.failovers = v.failovers
        /\ w.mine = v.mine /\ w.snap = v.snap /\ w.armed = FirstTokenArmed(v, now)
        /\ w.route = v.route /\ w.sticky = v.sticky
    BY <2>2
  <2> HIDE DEF v, w
  <2>5. FirstTokenArmed(w, now) = FirstTokenArmed(v, now)
    BY <2>4 DEF FirstTokenArmed, Candidates
  <2>6. rt \in Candidates(q, now)
    BY FirstChoicesSubset
  <2> QED BY <2>2, <2>3, <2>4, <2>5, <2>6
<1> HIDE DEF next
<1> QED BY <1>2, <1>3, <1>4

\* The environment touches neither.
LEMMA EnvironmentSteps ==
    ASSUME [Next]_vars, \A r \in Requests : ~(Authenticate(r) \/ Handle(r))
    PROVE  req' = req /\ usage' = usage
BY DEF Next, vars, ClientLeaves, ClearRoutePause, Tick

-----------------------------------------------------------------------------
(* The attempt budget *)

\* The budget is spent stage by stage: a stage is one route and costs at most
\* 1 + retries attempts.  The first stage is free, every other one a failover.
\* n is the number of attempts in the usage log.
WithinBudget(q, n) ==
    LET stage == 1 + q.policy.retries IN
    /\ q.tries <= q.policy.retries
    /\ q.failovers <= q.policy.failoverMax
    /\ q.tried = {} => n = 0 /\ q.failovers = 0
    /\ q.pc \in {"idle", "load"} => q.tried = {}
    /\ q.pc \in Working => q.tried # {} /\ n <= q.failovers * stage + q.tries
    /\ q.pc \in {"pick", "done"} => n <= (q.failovers + 1) * stage

BudgetInv == \A r \in Requests : WithinBudget(req[r], Len(usage[r]))

\* Products of the naturals that count stages: one stage more, and order.
LEMMA OneStageMore ==
    ASSUME NEW f \in Nat, NEW c \in Nat
    PROVE  f * c \in Nat /\ (f + 1) * c = f * c + c
OBVIOUS

LEMMA StagesOrdered ==
    ASSUME NEW f \in Nat, NEW m \in Nat, NEW c \in Nat, f <= m
    PROVE  (f + 1) * c <= (1 + m) * c
<1>1. PICK d \in Nat : m = f + d
  <2>1. m - f \in Nat /\ m = f + (m - f) OBVIOUS
  <2> QED BY <2>1
<1>2. (1 + m) * c = (f + 1) * c + d * c BY <1>1
<1>3. d * c \in Nat /\ (f + 1) * c \in Nat OBVIOUS
<1> QED BY <1>2, <1>3

LEMMA AttemptFitsStage ==
    ASSUME NEW n \in Nat, NEW k \in Nat, NEW t \in Nat, NEW u \in Nat, n <= k + t, t <= u
    PROVE  n + 1 <= k + (1 + u)
OBVIOUS

\* How WithinBudget is established once a stage has begun.
LEMMA StageBudget ==
    ASSUME NEW p, NEW n, NEW c, c = 1 + p.policy.retries,
           p.tries <= p.policy.retries, p.failovers <= p.policy.failoverMax,
           p.tried # {}, p.pc \notin {"idle", "load"},
           p.pc \in Working => n <= p.failovers * c + p.tries,
           p.pc \in {"pick", "done"} => n <= (p.failovers + 1) * c
    PROVE  WithinBudget(p, n)
BY DEF WithinBudget

LEMMA InitBudget == Init => BudgetInv
<1> SUFFICES ASSUME Init, NEW r \in Requests PROVE WithinBudget(req[r], Len(usage[r]))
  BY DEF BudgetInv
<1>1. req[r] = NewRequest(NoPolicy) /\ Len(usage[r]) = 0 BY DEF Init
<1> DEFINE q == NewRequest(NoPolicy)
<1>2. /\ q.tries = 0 /\ q.failovers = 0 /\ q.tried = {} /\ q.pc = "idle"
      /\ q.policy.retries = 0 /\ q.policy.failoverMax = 0
  BY DEF NewRequest, NoPolicy
<1> HIDE DEF q
<1> QED BY <1>1, <1>2 DEF WithinBudget, Working, q

\* The steps of a request that add nothing to its log and start no new stage.
LEMMA QuietBudget ==
    ASSUME NEW q \in Local, NEW p \in Local, NEW n \in Nat, WithinBudget(q, n),
           p.policy = q.policy, p.tries = q.tries, p.failovers = q.failovers,
           p.tried = q.tried, p.pc \notin {"idle", "load"},
           \/ q.pc \in Working /\ p.pc \in Working \cup {"pick", "done"}
           \/ q.pc \in {"load", "pick"} /\ p.pc \in {"pick", "done"}
    PROVE  WithinBudget(p, n)
<1> DEFINE c == 1 + q.policy.retries
           k == q.failovers * c
           l == (q.failovers + 1) * c
<1>1. c \in Nat /\ q.failovers \in Nat /\ q.tries \in Nat /\ q.policy.retries \in Nat
  BY DEF Local, Policy
<1>2. k \in Nat /\ l = k + c BY <1>1, OneStageMore
<1>3. q.pc \in Working => q.tried # {} /\ n <= k + q.tries BY DEF WithinBudget
<1>4. q.tries <= q.policy.retries BY DEF WithinBudget
<1>5. q.pc \in {"pick", "done"} => n <= l BY DEF WithinBudget
<1>6. q.pc = "load" => n = 0 BY DEF WithinBudget
<1>7. p.pc \in Working => p.tried # {} /\ n <= k + q.tries BY <1>3 DEF Working
<1>8. p.pc \in {"pick", "done"} => n <= l
  <2> HIDE DEF k, l
  <2> QED BY <1>1, <1>2, <1>3, <1>4, <1>5, <1>6
<1>9. p.failovers * (1 + p.policy.retries) = k /\ (p.failovers + 1) * (1 + p.policy.retries) = l
  OBVIOUS
<1>10. p.tries <= p.policy.retries /\ p.failovers <= p.policy.failoverMax
  BY DEF WithinBudget
<1>11. p.tried = {} => n = 0 /\ p.failovers = 0
  BY DEF WithinBudget
<1> HIDE DEF k, l, c
<1> QED BY <1>7, <1>8, <1>9, <1>10, <1>11 DEF WithinBudget

\* Respond, the statements on the route row, a failed start: the log and the
\* stage stay as they are.
LEMMA QuietSteps ==
    ASSUME TypeInv, NEW r \in Requests, WithinBudget(req[r], Len(usage[r])),
           \/ LoadRoutes(r) \/ StartAttempt(r) \/ Respond(r)
           \/ Cool(r) \/ NoteSuccess(r) \/ ClearResidue(r)
    PROVE  WithinBudget(req'[r], Len(usage'[r]))
<1> DEFINE q == req[r]
           n == Len(usage[r])
<1>1. q \in Local /\ n \in Nat BY DEF TypeInv, TypeOK
<1>2. req'[r] \in Local
  BY NextTypeInv DEF Next, Handle, TypeInv, TypeOK
<1>3. usage' = usage
  BY DEF LoadRoutes, StartAttempt, Respond, Cool, NoteSuccess, ClearResidue
<1>4. req \in [Requests -> Local] BY DEF TypeInv, TypeOK
<1>5. /\ req'[r].policy = q.policy /\ req'[r].tries = q.tries
      /\ req'[r].failovers = q.failovers /\ req'[r].tried = q.tried
  BY LoadRoutesShape, StartAttemptShape, RespondShape, RouteRowShape DEF SameVisit
<1>6. \/ q.pc \in Working /\ req'[r].pc \in Working \cup {"pick", "done"}
      \/ q.pc \in {"load", "pick"} /\ req'[r].pc \in {"pick", "done"}
  <2>1. CASE LoadRoutes(r) BY <2>1, LoadRoutesShape DEF LoadRoutes
  <2>2. CASE StartAttempt(r) BY <2>2, StartAttemptShape DEF Working
  <2>3. CASE Respond(r) BY <2>3, RespondShape DEF Working
  <2>4. CASE Cool(r) \/ NoteSuccess(r) \/ ClearResidue(r)
    BY <2>4, RouteRowShape DEF Working
  <2> QED BY <2>1, <2>2, <2>3, <2>4
<1>7. req'[r].pc \notin {"idle", "load"} BY <1>6 DEF Working
<1> QED BY <1>1, <1>2, <1>3, <1>5, <1>6, <1>7, QuietBudget

LEMMA AuthenticateBudget ==
    ASSUME TypeInv, NEW r \in Requests, WithinBudget(req[r], Len(usage[r])), Authenticate(r)
    PROVE  WithinBudget(req'[r], Len(usage'[r]))
<1>1. Len(usage[r]) = 0 BY AuthenticateShape DEF WithinBudget
<1>2. PICK g \in Policies : req'[r].policy = Effective(g)
  BY AuthenticateShape
<1> DEFINE e == Effective(g)
<1>3. e \in Policy BY EffectiveType, DispatchAssumption
<1> HIDE DEF e
<1>4. /\ req'[r].policy = e /\ req'[r].tries = 0 /\ req'[r].failovers = 0
      /\ req'[r].tried = {} /\ req'[r].pc \in {"load", "done"} /\ usage' = usage
  BY <1>2, AuthenticateShape DEF e
<1>5. e.retries \in Nat /\ e.failoverMax \in Nat BY <1>3 DEF Policy
<1>6. (0 + 1) * (1 + e.retries) \in Nat BY <1>5
<1> QED BY <1>1, <1>4, <1>5, <1>6 DEF WithinBudget, Working

LEMMA PickRouteBudget ==
    ASSUME TypeInv, NEW r \in Requests, WithinBudget(req[r], Len(usage[r])), PickRoute(r)
    PROVE  WithinBudget(req'[r], Len(usage'[r]))
<1> DEFINE q == req[r]
           n == Len(usage[r])
           c == 1 + q.policy.retries
<1>1. q \in Local /\ n \in Nat /\ req \in [Requests -> Local] BY DEF TypeInv, TypeOK
<1>2. q.pc = "pick" /\ usage' = usage BY DEF PickRoute
<1>3. /\ c \in Nat /\ q.failovers \in Nat /\ q.policy.retries \in Nat
      /\ q.policy.failoverMax \in Nat
  BY <1>1 DEF Local, Policy
<1>4. CASE req'[r] = Finished(q)
  <2>1. Finished(q) \in Local /\ Finished(q).pc = "done" BY <1>1, EndingType
  <2>2. /\ Finished(q).policy = q.policy /\ Finished(q).tries = q.tries
        /\ Finished(q).failovers = q.failovers /\ Finished(q).tried = q.tried
    BY <1>1 DEF Finished, Local
  <2> QED BY <1>1, <1>2, <1>4, <2>1, <2>2, QuietBudget
<1> DEFINE done == q.failovers + (IF q.tried = {} THEN 0 ELSE 1)
<1>5. CASE ~NoFurtherRoute(q) /\ req'[r].failovers = done /\ req'[r].pc = "attempt"
           /\ req'[r].policy = q.policy /\ req'[r].tries = 0 /\ req'[r].tried # {}
  <2>1. done \in Nat /\ done <= q.policy.failoverMax
    <3>1. CASE q.tried = {} BY <1>3, <3>1 DEF WithinBudget
    <3>2. CASE q.tried # {} BY <1>3, <1>5, <3>2 DEF NoFurtherRoute
    <3> QED BY <3>1, <3>2
  <2>2. n <= done * c
    <3>1. CASE q.tried = {}
      <4>1. n = 0 /\ done = 0 BY <1>3, <3>1 DEF WithinBudget
      <4> QED BY <1>3, <4>1
    <3>2. CASE q.tried # {}
      <4>1. done = q.failovers + 1 BY <3>2
      <4> QED BY <1>2, <4>1 DEF WithinBudget
    <3> QED BY <3>1, <3>2
  <2>3. done * c \in Nat BY <1>3, <2>1, OneStageMore
  <2>4. n <= req'[r].failovers * c + req'[r].tries /\ c = 1 + req'[r].policy.retries
    <3>1. n <= done * c + 0 BY <1>1, <2>2, <2>3
    <3> QED BY <1>5, <3>1
  <2>5. req'[r].tries <= req'[r].policy.retries /\ req'[r].failovers <= req'[r].policy.failoverMax
    BY <1>3, <1>5, <2>1
  <2>6. Len(usage'[r]) = n BY <1>2
  <2> HIDE DEF c, n, done
  <2> QED BY <1>5, <2>4, <2>5, <2>6, StageBudget
<1> QED BY <1>4, <1>5, PickRouteShape

\* The row of an attempt fits the stage, and only a new try or a new stage
\* allows a further one.
LEMMA RecordBudget ==
    ASSUME TypeInv, NEW r \in Requests, WithinBudget(req[r], Len(usage[r])), Record(r)
    PROVE  WithinBudget(req'[r], Len(usage'[r]))
<1> DEFINE q == req[r]
           n == Len(usage[r])
           c == 1 + q.policy.retries
           p == AfterRecord(q)
<1>1. q \in Local /\ q.pc = "record" /\ n \in Nat /\ q.tried \in SUBSET Routes
  BY DEF TypeInv, TypeOK, Record, Local
<1>2. /\ c \in Nat /\ q.failovers \in Nat /\ q.policy.retries \in Nat /\ q.tries \in Nat
      /\ q.policy.failoverMax \in Nat
  BY <1>1 DEF Local, Policy
<1>3. /\ n <= q.failovers * c + q.tries /\ q.tries <= q.policy.retries
      /\ q.failovers <= q.policy.failoverMax /\ q.tried # {}
  BY <1>1 DEF WithinBudget, Working
<1>4. Len(usage'[r]) = n + 1 BY DEF Record, TypeInv, TypeOK
<1>5. req'[r] = p BY DEF Record, TypeInv, TypeOK
<1>6. /\ p.policy = q.policy /\ p.failovers = q.failovers /\ p.tried = q.tried
      /\ \/ p.pc \in {"done", "pick"} /\ p.tries = q.tries
         \/ p.pc = "attempt" /\ p.tries = q.tries + 1 /\ q.tries < q.policy.retries
  BY <1>1, <1>2 DEF AfterRecord, Finished, LastTry, Local
<1> HIDE DEF p
<1>7. /\ p.tries <= p.policy.retries /\ p.failovers <= p.policy.failoverMax
      /\ p.tried # {} /\ p.pc \notin {"idle", "load"} /\ c = 1 + p.policy.retries
  <2>1. q.tries \in Nat /\ q.policy.retries \in Nat /\ q.tries <= q.policy.retries
        /\ q.failovers <= q.policy.failoverMax /\ q.tried # {} /\ c = 1 + q.policy.retries
    BY <1>2, <1>3
  <2>2. p.tries <= q.policy.retries
    <3> HIDE DEF q
    <3> QED BY <2>1, <1>6
  <2> HIDE DEF q, c
  <2> QED BY <1>6, <2>1, <2>2
<1> DEFINE k == q.failovers * c
           l == (q.failovers + 1) * c
<1>8. /\ p.failovers * c = k /\ (p.failovers + 1) * c = l /\ k \in Nat /\ l = k + c
      /\ n <= k + q.tries
  BY <1>2, <1>3, <1>6, OneStageMore
<1> HIDE DEF k, l
<1>9. p.pc \in Working => n + 1 <= k + p.tries
  <2>1. ASSUME p.pc \in Working PROVE p.tries = q.tries + 1 BY <1>2, <1>6, <2>1 DEF Working
  <2>2. n \in Nat /\ k \in Nat /\ q.tries \in Nat /\ n <= k + q.tries BY <1>1, <1>2, <1>8
  <2> HIDE DEF n, q
  <2> QED BY <2>1, <2>2
<1>10. p.pc \in {"pick", "done"} => n + 1 <= l
  <2>1. /\ n \in Nat /\ k \in Nat /\ q.tries \in Nat /\ n <= k + q.tries /\ l = k + c
        /\ q.tries <= q.policy.retries /\ q.policy.retries \in Nat /\ c = 1 + q.policy.retries
    BY <1>1, <1>2, <1>3, <1>8
  <2> HIDE DEF n, q, c
  <2> QED BY <2>1
<1> HIDE DEF c, n, q
<1> QED BY <1>4, <1>5, <1>7, <1>8, <1>9, <1>10, StageBudget

LEMMA NextBudget == TypeInv /\ BudgetInv /\ [Next]_vars => BudgetInv'
<1> SUFFICES ASSUME TypeInv, BudgetInv, [Next]_vars, NEW s \in Requests
             PROVE  WithinBudget(req'[s], Len(usage'[s]))
  BY DEF BudgetInv
<1>1. ASSUME NEW r \in Requests, Authenticate(r) \/ Handle(r)
      PROVE  WithinBudget(req'[s], Len(usage'[s]))
  <2>1. CASE r = s
    BY <1>1, <2>1, QuietSteps, AuthenticateBudget, PickRouteBudget, RecordBudget
       DEF BudgetInv, Handle
  <2>2. CASE r # s
    BY <1>1, <2>2, OtherRequests DEF BudgetInv
  <2> QED BY <2>1, <2>2
<1>2. CASE \A r \in Requests : ~(Authenticate(r) \/ Handle(r))
  BY <1>2, EnvironmentSteps DEF BudgetInv
<1> QED BY <1>1, <1>2

\* The budget covers the attempt that is not in the log yet.
LEMMA BudgetBounds == TypeInv /\ BudgetInv => AttemptsBounded
<1> SUFFICES ASSUME TypeInv, BudgetInv, NEW r \in Requests
             PROVE  Len(Trail(r)) <= Budget(req[r].policy)
  BY DEF AttemptsBounded
<1> DEFINE q == req[r]
           n == Len(usage[r])
           c == 1 + q.policy.retries
           k == q.failovers * c
           l == (q.failovers + 1) * c
           b == Budget(q.policy)
<1> SUFFICES Len(Trail(r)) <= b
  OBVIOUS
<1>1. q \in Local /\ n \in Nat BY DEF TypeInv, TypeOK
<1>2. /\ c \in Nat /\ q.failovers \in Nat /\ q.policy.failoverMax \in Nat
      /\ q.tries \in Nat /\ q.policy.retries \in Nat
  BY <1>1 DEF Local, Policy
<1>3. /\ q.failovers <= q.policy.failoverMax /\ q.tries <= q.policy.retries
      /\ q.tried = {} => n = 0
      /\ q.pc \in {"idle", "load"} => q.tried = {}
      /\ q.pc \in Working => n <= k + q.tries
      /\ q.pc \in {"pick", "done"} => n <= l
  BY DEF BudgetInv, WithinBudget
<1>4. k \in Nat /\ l = k + c BY <1>2, OneStageMore
<1>5. l <= b
  <2>1. l <= (1 + q.policy.failoverMax) * c BY <1>2, <1>3, StagesOrdered
  <2>2. b = (1 + q.policy.failoverMax) * c BY <1>2 DEF Budget
  <2> QED BY <2>1, <2>2
<1>6. b \in Nat BY <1>2 DEF Budget
<1>7. Len(Trail(r)) = IF q.pc \in {"cool", "note", "clear", "record"} THEN n + 1 ELSE n
  BY DEF Trail, TypeInv, TypeOK
<1>8. q.pc \in {"idle", "load", "pick", "done"} \cup Working BY <1>1 DEF Local, Control, Working
<1>9. c = 1 + q.policy.retries OBVIOUS
<1> HIDE DEF k, l, b, n, c
<1>10. CASE q.pc \in {"idle", "load"}
  <2>1. n = 0 /\ Len(Trail(r)) = n BY <1>3, <1>7, <1>10
  <2> QED BY <1>6, <2>1
<1>11. CASE q.pc \in {"pick", "done"}
  <2>1. n <= l /\ Len(Trail(r)) = n BY <1>3, <1>7, <1>11
  <2>2. n \in Nat /\ l \in Nat BY <1>1, <1>2, <1>4
  <2> HIDE DEF q
  <2> QED BY <1>5, <1>6, <2>1, <2>2
<1>12. CASE q.pc \in Working
  <2>1. n <= k + q.tries /\ Len(Trail(r)) \in {n, n + 1} BY <1>3, <1>7, <1>12
  <2>2. /\ n \in Nat /\ k \in Nat /\ q.tries \in Nat /\ q.policy.retries \in Nat
        /\ q.tries <= q.policy.retries
    BY <1>1, <1>2, <1>3, <1>4
  <2> HIDE DEF q
  <2>3. n + 1 <= k + (1 + q.policy.retries) BY <2>1, <2>2, AttemptFitsStage
  <2>4. n + 1 <= l /\ l \in Nat BY <1>2, <1>4, <1>9, <2>3
  <2> QED BY <1>5, <1>6, <2>1, <2>2, <2>4
<1> QED BY <1>8, <1>10, <1>11, <1>12

\* Retry and failover together stay within (1 + retry_count) * (1 + failover_max)
\* attempts, for every policy and every mixture of errors (HandleForward).
THEOREM BudgetKept == Spec => []AttemptsBounded
<1>1. Init => TypeInv /\ BudgetInv BY InitTypeInv, InitBudget
<1>2. TypeInv /\ BudgetInv /\ [Next]_vars => (TypeInv /\ BudgetInv)'
  BY NextTypeInv, NextBudget
<1> QED BY <1>1, <1>2, BudgetBounds, PTL DEF Spec

-----------------------------------------------------------------------------
(* The first-token timeout *)

\* The last attempt in the log was cut off by the first-token timeout.
TimedOut(log) == log # << >> /\ log[Len(log)].out = "timeout"

\* An armed attempt always leaves somewhere to go: its request may fail over and
\* has a route to fail over to.  This outlives the attempt's timeout, because no
\* other request touches the copy of the routes, and time only adds candidates.
MayStillFailOver(q, t) ==
    /\ q.policy.retryEnabled /\ q.policy.failoverEnabled
    /\ q.failovers < q.policy.failoverMax
    /\ Candidates(q, t) # {}

LastShot(q, log, t) ==
    /\ q.pc \in Working /\ q.armed => MayStillFailOver(q, t)
    /\ q.pc \in {"cool", "record"} /\ q.out = "timeout" => q.armed
    /\ q.pc \in {"note", "clear"} => q.out # "timeout"
    /\ q.pc = "pick" /\ TimedOut(log) => MayStillFailOver(q, t)
    /\ q.pc \in {"idle", "load"} => log = << >>
    /\ q.pc # "done" => q.reply \notin {"echo", "bad_gateway"}
    /\ q.reply \in {"echo", "bad_gateway"} => ~TimedOut(log)

LastShotInv == \A r \in Requests : LastShot(req[r], usage[r], now)

LEMMA CandidatesGrow ==
    ASSUME NEW q \in Local, NEW t \in Int PROVE Candidates(q, t) \subseteq Candidates(q, t + 1)
<1> SUFFICES ASSUME NEW rt \in q.mine \ q.tried, q.snap[rt] <= t PROVE q.snap[rt] <= t + 1
  BY DEF Candidates
<1>1. q.snap[rt] \in Nat BY DEF Local
<1> QED BY <1>1

\* What may still fail over is the same all through a visit.
LEMMA VisitMayFailOver ==
    ASSUME NEW q, NEW p, NEW t, SameVisit(q, p)
    PROVE  MayStillFailOver(q, t) <=> MayStillFailOver(p, t)
BY DEF SameVisit, MayStillFailOver, Candidates

LEMMA RecordShape ==
    ASSUME TypeInv, NEW r \in Requests, Record(r)
    PROVE  /\ req[r].pc = "record"
           /\ usage'[r] = Append(usage[r], Row(req[r]))
           /\ req'[r].policy = req[r].policy /\ req'[r].failovers = req[r].failovers
           /\ req'[r].tried = req[r].tried /\ req'[r].mine = req[r].mine
           /\ req'[r].snap = req[r].snap /\ req'[r].armed = req[r].armed
           /\ req'[r].route = req[r].route /\ req'[r].sticky = req[r].sticky
           /\ \/ req'[r].pc = "done" /\ req'[r].reply = req[r].reply /\ req[r].reply # "none"
              \/ /\ req[r].reply = "none" /\ req'[r].pc = "done"
                 /\ req'[r].reply = IF req[r].sticky # 0 THEN "echo" ELSE "bad_gateway"
                 /\ req[r].out = "canceled" \/ ~req[r].policy.retryEnabled
              \/ /\ req[r].reply = "none" /\ req'[r].reply = "none"
                 /\ req[r].out # "canceled" /\ req[r].policy.retryEnabled
                 /\ \/ req'[r].pc = "pick" /\ req'[r].tries = req[r].tries
                    \/ /\ req'[r].pc = "attempt" /\ req'[r].tries = req[r].tries + 1
                       /\ req[r].out # "config" /\ ~LastTry(req[r])
<1> DEFINE q == req[r]
<1>1. q \in Local BY DEF TypeInv, TypeOK
<1>2. req'[r] = AfterRecord(q) /\ usage'[r] = Append(usage[r], Row(q)) /\ q.pc = "record"
  BY DEF Record, TypeInv, TypeOK
<1>3. CASE req'[r] = [q EXCEPT !.pc = "done"] /\ q.reply # "none"
  BY <1>1, <1>2, <1>3 DEF Local
<1>4. CASE /\ req'[r] = Finished(q) /\ q.reply = "none"
           /\ q.out = "canceled" \/ ~q.policy.retryEnabled
  BY <1>1, <1>2, <1>4 DEF Local, Finished
<1>5. CASE /\ req'[r] = [q EXCEPT !.pc = "pick"] /\ q.reply = "none"
           /\ q.out # "canceled" /\ q.policy.retryEnabled
  BY <1>1, <1>2, <1>5 DEF Local
<1>6. CASE /\ req'[r] = [q EXCEPT !.pc = "attempt", !.tries = @ + 1] /\ q.reply = "none"
           /\ q.out # "canceled" /\ q.policy.retryEnabled
           /\ q.out # "config" /\ ~LastTry(q)
  BY <1>1, <1>2, <1>6 DEF Local
<1> QED BY <1>2, <1>3, <1>4, <1>5, <1>6 DEF AfterRecord

LEMMA RecordLastShot ==
    ASSUME TypeInv, NEW r \in Requests, LastShot(req[r], usage[r], now), Record(r)
    PROVE  LastShot(req'[r], usage'[r], now)
<1> DEFINE q == req[r]
           p == req'[r]
           log == usage'[r]
<1>1. q \in Local /\ q.pc = "record" BY RecordShape DEF TypeInv, TypeOK
<1>2. TimedOut(log) <=> q.out = "timeout"
  <2>1. usage[r] \in Seq(RowType) /\ Row(q) \in RowType
    BY <1>1, RowHasType DEF TypeInv, TypeOK, RouteChosen, Working
  <2>2. log = Append(usage[r], Row(q)) BY RecordShape
  <2>3. log # << >> /\ log[Len(log)] = Row(q) BY <2>1, <2>2
  <2> QED BY <2>3 DEF TimedOut, Row
<1>3. /\ q.out = "timeout" => q.armed
      /\ q.armed => MayStillFailOver(q, now)
      /\ q.reply \notin {"echo", "bad_gateway"}
  BY <1>1 DEF LastShot, Working
<1>4. MayStillFailOver(q, now) <=> MayStillFailOver(p, now)
  BY RecordShape DEF MayStillFailOver, Candidates
<1>5. p.armed = q.armed /\ p.pc \in {"done", "pick", "attempt"} BY RecordShape
<1>6. p.pc # "done" => p.reply \notin {"echo", "bad_gateway"} BY <1>3, RecordShape
<1>7. p.reply \in {"echo", "bad_gateway"} => q.out # "timeout"
  BY <1>1, <1>3, RecordShape DEF MayStillFailOver
<1> HIDE DEF p, log, q
<1> QED BY <1>2, <1>3, <1>4, <1>5, <1>6, <1>7 DEF LastShot, p, log

LEMMA PickLastShot ==
    ASSUME TypeInv, NEW r \in Requests, LastShot(req[r], usage[r], now), PickRoute(r)
    PROVE  LastShot(req'[r], usage'[r], now)
<1> DEFINE q == req[r]
<1>1. q \in Local /\ q.pc = "pick" /\ usage' = usage
  BY PickRouteShape DEF PickRoute, TypeInv, TypeOK
<1>2. CASE NoFurtherRoute(q) /\ req'[r] = Finished(q)
  <2>1. q.failovers \in Nat /\ q.policy.failoverMax \in Nat BY <1>1 DEF Local, Policy
  <2>2. ~MayStillFailOver(q, now) BY <1>2, <2>1 DEF NoFurtherRoute, MayStillFailOver
  <2>3. ~TimedOut(usage[r]) BY <1>1, <2>2 DEF LastShot
  <2>4. req'[r].pc = "done" BY <1>1, <1>2, EndingType
  <2> QED BY <1>1, <2>3, <2>4 DEF LastShot, Working
<1>3. CASE /\ req'[r].pc = "attempt" /\ req'[r].reply = q.reply
           /\ req'[r].armed = FirstTokenArmed(req'[r], now)
  <2>1. req'[r].armed => MayStillFailOver(req'[r], now)
    BY <1>3 DEF FirstTokenArmed, MayStillFailOver
  <2>2. q.reply \notin {"echo", "bad_gateway"} BY <1>1 DEF LastShot
  <2> QED BY <1>1, <1>3, <2>1, <2>2 DEF LastShot
<1> QED BY <1>2, <1>3, PickRouteShape

LEMMA VisitLastShot ==
    ASSUME TypeInv, NEW r \in Requests, LastShot(req[r], usage[r], now),
           \/ StartAttempt(r) \/ Respond(r)
           \/ Cool(r) \/ NoteSuccess(r) \/ ClearResidue(r)
    PROVE  LastShot(req'[r], usage'[r], now)
<1> DEFINE q == req[r]
           p == req'[r]
<1>1. usage' = usage
  BY DEF StartAttempt, Respond, Cool, NoteSuccess, ClearResidue
<1>2. SameVisit(q, p) BY StartAttemptShape, RespondShape, RouteRowShape
<1>3. MayStillFailOver(q, now) <=> MayStillFailOver(p, now) BY <1>2, VisitMayFailOver
<1>4. q.pc \in Working /\ p.armed = q.armed
  BY <1>2, StartAttemptShape, RespondShape, RouteRowShape DEF SameVisit, Working
<1>5. /\ q.armed => MayStillFailOver(q, now)
      /\ q.reply \notin {"echo", "bad_gateway"}
  BY <1>4 DEF LastShot, Working
<1>6. p.pc \notin {"idle", "load", "pick"}
  BY StartAttemptShape, RespondShape, RouteRowShape
<1>7. p.reply \notin {"echo", "bad_gateway"}
  BY <1>5, StartAttemptShape, RespondShape, RouteRowShape DEF ReplyTo
<1>8. p.pc \in {"cool", "record"} /\ p.out = "timeout" => p.armed
  <2>1. CASE StartAttempt(r) BY <2>1, StartAttemptShape
  <2>2. CASE Respond(r) BY <1>4, <2>2, RespondShape DEF Possible
  <2>3. CASE Cool(r) \/ NoteSuccess(r) \/ ClearResidue(r)
    BY <1>4, <2>3, RouteRowShape DEF LastShot
  <2> QED BY <2>1, <2>2, <2>3
<1>9. p.pc \in {"note", "clear"} => p.out # "timeout"
  <2>1. CASE StartAttempt(r) BY <2>1, StartAttemptShape
  <2>2. CASE Respond(r) BY <2>2, RespondShape DEF Success
  <2>3. CASE Cool(r) \/ NoteSuccess(r) \/ ClearResidue(r)
    BY <2>3, RouteRowShape DEF LastShot
  <2> QED BY <2>1, <2>2, <2>3
<1> QED BY <1>1, <1>3, <1>4, <1>5, <1>6, <1>7, <1>8, <1>9 DEF LastShot

LEMMA BeginLastShot ==
    ASSUME TypeInv, NEW r \in Requests, LastShot(req[r], usage[r], now),
           Authenticate(r) \/ LoadRoutes(r)
    PROVE  LastShot(req'[r], usage'[r], now)
<1>1. usage'[r] = << >> BY DEF Authenticate, LoadRoutes, LastShot
<1>2. req'[r].pc \in {"load", "pick", "done"}
      /\ req'[r].reply \notin {"echo", "bad_gateway"}
  <2>1. CASE Authenticate(r) BY <2>1, AuthenticateShape
  <2>2. CASE LoadRoutes(r) BY <2>2, LoadRoutesShape DEF LoadRoutes, LastShot
  <2> QED BY <2>1, <2>2
<1>3. ~TimedOut(usage'[r]) BY <1>1 DEF TimedOut
<1> QED BY <1>1, <1>2, <1>3 DEF LastShot, Working

\* Time only makes more routes eligible.
LEMMA TickLastShot ==
    ASSUME TypeInv, LastShotInv, Tick PROVE LastShotInv'
<1> SUFFICES ASSUME NEW r \in Requests PROVE LastShot(req[r], usage[r], now + 1)
  BY DEF LastShotInv, Tick
<1>1. Candidates(req[r], now) \subseteq Candidates(req[r], now + 1)
  <2>1. req[r] \in Local /\ now \in Int BY DEF TypeInv, TypeOK
  <2> QED BY <2>1, CandidatesGrow
<1>2. MayStillFailOver(req[r], now) => MayStillFailOver(req[r], now + 1)
  BY <1>1 DEF MayStillFailOver
<1>3. LastShot(req[r], usage[r], now) BY DEF LastShotInv
<1> QED BY <1>2, <1>3 DEF LastShot

LEMMA NextLastShot == TypeInv /\ LastShotInv /\ [Next]_vars => LastShotInv'
<1> SUFFICES ASSUME TypeInv, LastShotInv, [Next]_vars PROVE LastShotInv'
  OBVIOUS
<1>1. ASSUME NEW r \in Requests, Authenticate(r) \/ Handle(r), NEW s \in Requests
      PROVE  LastShot(req'[s], usage'[s], now')
  <2>1. now' = now
    BY <1>1 DEF Handle, Authenticate, LoadRoutes, PickRoute, StartAttempt, Respond, Cool,
                NoteSuccess, ClearResidue, Record
  <2>2. CASE r = s
    BY <1>1, <2>1, <2>2, BeginLastShot, PickLastShot, VisitLastShot, RecordLastShot
       DEF LastShotInv, Handle
  <2>3. CASE r # s
    BY <1>1, <2>1, <2>3, OtherRequests DEF LastShotInv
  <2> QED BY <2>2, <2>3
<1>2. CASE Tick BY <1>2, TickLastShot
<1>3. CASE /\ \A r \in Requests : ~(Authenticate(r) \/ Handle(r))
           /\ ~Tick
  <2>1. now' = now BY <1>3 DEF Next, vars, ClientLeaves, ClearRoutePause
  <2> QED BY <1>3, <2>1, EnvironmentSteps DEF LastShotInv
<1> QED BY <1>1, <1>2, <1>3 DEF LastShotInv

LEMMA InitLastShot == Init => LastShotInv
BY DEF Init, LastShotInv, LastShot, NewRequest, Working, TimedOut

\* "The last shot waits for the upstream": a request is never given up because
\* the gateway's own timer cut an attempt that had nowhere left to fail over to
\* (effectiveFirstTokenTimeout), whatever other requests and the clock do.
THEOREM LastShotWaits == Spec => []FirstTokenTimeoutNeverFinal
<1>1. Init => TypeInv /\ LastShotInv BY InitTypeInv, InitLastShot
<1>2. TypeInv /\ LastShotInv /\ [Next]_vars => (TypeInv /\ LastShotInv)'
  BY NextTypeInv, NextLastShot
<1>3. LastShotInv => FirstTokenTimeoutNeverFinal
  BY DEF LastShotInv, LastShot, FirstTokenTimeoutNeverFinal, TimedOut
<1> QED BY <1>1, <1>2, <1>3, PTL DEF Spec

-----------------------------------------------------------------------------
(* What the log of a request tells *)

InFlight == {"cool", "note", "clear", "record"}

\* Ends after which the request has no further attempt.
Final == Success \cup {"commit_err", "canceled"}

\* RouteVisitedOnce, of one log.
Visits(t) ==
    \A i, j \in DOMAIN t : i < j =>
        /\ t[j].kind # "primary"
        /\ t[i].route = t[j].route =>
             \A k \in i+1..j : t[k].route = t[i].route /\ t[k].kind = "retry"

\* Where the current visit stands in the log: not begun, or its latest part.
Placed(q, t) ==
    IF q.tries = 0 THEN \A i \in DOMAIN t : t[i].route # q.route
    ELSE t # << >> /\ t[Len(t)].route = q.route

\* The log t of a request with locals q, the attempt in flight included.
RoutesTold(q, t) ==
    /\ IsFiniteSet(q.tried)
    /\ \A i \in DOMAIN t : t[i].route \in q.tried
    /\ q.pc \in Working => q.route \in q.tried
    /\ q.pc \in {"attempt", "sent"} => Placed(q, t)
    /\ q.pc \in InFlight => t # << >> /\ t[Len(t)] = Row(q)
    /\ Visits(t)

\* An unsettled request has no final attempt, and the reply is the last one's.
EndingTold(q, t) ==
    /\ q.pc \in {"idle", "load", "pick", "attempt", "sent"} => q.reply = "none"
    /\ q.pc \in {"idle", "load"} => t = << >> /\ q.sticky = 0 /\ q.tried = {}
    /\ q.pc \in InFlight =>
         t # << >> /\ t[Len(t)] = Row(q) /\ q.reply = ReplyTo(q, q.out) /\ q.out # "none"
    /\ \A i \in DOMAIN t : t[i].out \in Final => i = Len(t) /\ q.pc \in InFlight \cup {"done"}
    /\ q.pc = "done" =>
         (q.reply = "delivered" <=> (t # << >> /\ t[Len(t)].out \in Success))
    /\ q.sticky # 0 => q.sticky \in DOMAIN t /\ t[q.sticky].out \in HttpError
    /\ q.reply = "echo" => q.sticky # 0

StoryInv == \A r \in Requests : RoutesTold(req[r], Trail(r)) /\ EndingTold(req[r], Trail(r))

LEMMA TrailType ==
    ASSUME TypeInv, NEW r \in Requests
    PROVE  /\ Trail(r) \in Seq(RowType) /\ usage[r] \in Seq(RowType)
           /\ req[r] \in Local
           /\ req[r].pc \in InFlight => Trail(r) = Append(usage[r], Row(req[r]))
           /\ req[r].pc \notin InFlight => Trail(r) = usage[r]
<1>1. usage[r] \in Seq(RowType) /\ req[r] \in Local BY DEF TypeInv, TypeOK
<1>2. req[r].pc \in InFlight => Row(req[r]) \in RowType
  BY <1>1, RowHasType DEF InFlight, TypeInv, RouteChosen, Working
<1> QED BY <1>1, <1>2 DEF Trail, InFlight

\* Facts about the last entry of a log.
LEMMA AppendedLog ==
    ASSUME NEW S, NEW t \in Seq(S), NEW e \in S
    PROVE  /\ Append(t, e) \in Seq(S) /\ Append(t, e) # << >>
           /\ Len(t) \in Nat /\ Len(Append(t, e)) = Len(t) + 1
           /\ DOMAIN t = 1..Len(t) /\ DOMAIN Append(t, e) = 1..Len(t) + 1
           /\ \A i \in 1..Len(t) : Append(t, e)[i] = t[i]
           /\ Append(t, e)[Len(t) + 1] = e
OBVIOUS

\* How the log grows: by the attempt that begins to be in flight, and not when
\* that attempt is written down.
LEMMA TrailGrows ==
    ASSUME TypeInv, TypeInv', NEW r \in Requests, Authenticate(r) \/ Handle(r)
    PROVE  /\ req[r].pc \in {"attempt", "sent"} /\ req'[r].pc \in InFlight =>
                Trail(r)' = Append(Trail(r), Row(req'[r]))
           /\ ~(req[r].pc \in {"attempt", "sent"} /\ req'[r].pc \in InFlight) =>
                Trail(r)' = Trail(r)
<1> DEFINE q == req[r]
           p == req'[r]
<1>1. /\ q.pc \in InFlight => Trail(r) = Append(usage[r], Row(q))
      /\ q.pc \notin InFlight => Trail(r) = usage[r]
      /\ p.pc \in InFlight => Trail(r)' = Append(usage'[r], Row(p))
      /\ p.pc \notin InFlight => Trail(r)' = usage'[r]
  BY DEF Trail, InFlight
<1>2. CASE Authenticate(r)
  BY <1>1, <1>2, AuthenticateShape DEF InFlight
<1>3. CASE LoadRoutes(r)
  BY <1>1, <1>3, LoadRoutesShape DEF LoadRoutes, InFlight
<1>4. CASE PickRoute(r)
  <2>1. usage' = usage /\ q.pc = "pick" BY <1>4 DEF PickRoute
  <2>2. p.pc \in {"attempt", "done"}
    BY <1>4, PickRouteShape, EndingType DEF TypeInv, TypeOK
  <2> QED BY <1>1, <2>1, <2>2 DEF InFlight
<1>5. CASE StartAttempt(r)
  BY <1>1, <1>5, StartAttemptShape DEF StartAttempt, InFlight
<1>6. CASE Respond(r)
  BY <1>1, <1>6, RespondShape DEF Respond, InFlight
<1>7. CASE Cool(r) \/ NoteSuccess(r) \/ ClearResidue(r)
  <2>1. usage' = usage BY <1>7 DEF Cool, NoteSuccess, ClearResidue
  <2>2. Row(p) = Row(q) BY <1>7, RouteRowShape DEF Row, AttemptKind, SameVisit
  <2>3. q.pc \in InFlight \ {"attempt", "sent"} /\ p.pc \in InFlight
    BY <1>7, RouteRowShape DEF InFlight
  <2> QED BY <1>1, <2>1, <2>2, <2>3
<1>8. CASE Record(r)
  BY <1>1, <1>8, RecordShape DEF InFlight
<1> QED BY <1>2, <1>3, <1>4, <1>5, <1>6, <1>7, <1>8 DEF Handle

\* The handler never looks at the group again, and runs until the request is done.
LEMMA PolicyStays ==
    ASSUME TypeInv, NEW r \in Requests, Handle(r)
    PROVE  /\ req'[r].policy = req[r].policy /\ req[r].tried \subseteq req'[r].tried
           /\ req[r].pc \notin {"idle", "done"}
<1>1. req[r] \in Local BY DEF TypeInv, TypeOK
<1>2. CASE LoadRoutes(r) BY <1>2, LoadRoutesShape DEF LoadRoutes
<1>3. CASE PickRoute(r)
  <2>1. CASE req'[r] = Finished(req[r])
    <3>1. req'[r].policy = req[r].policy /\ req'[r].tried = req[r].tried
      BY <1>1, <2>1 DEF Finished, Local
    <3> QED BY <1>3, <3>1, PickRouteShape
  <2>2. CASE req'[r] # Finished(req[r]) BY <1>3, <2>2, PickRouteShape
  <2> QED BY <2>1, <2>2
<1>4. CASE StartAttempt(r) \/ Respond(r)
  BY <1>4, StartAttemptShape, RespondShape DEF SameVisit
<1>5. CASE Cool(r) \/ NoteSuccess(r) \/ ClearResidue(r)
  BY <1>5, RouteRowShape DEF SameVisit
<1>6. CASE Record(r) BY <1>6, RecordShape
<1> QED BY <1>2, <1>3, <1>4, <1>5, <1>6 DEF Handle

\* Two routes tried are more than one.
LEMMA TwoOfASet ==
    ASSUME NEW S, IsFiniteSet(S), NEW a \in S, NEW b \in S, a # b
    PROVE  Cardinality(S) > 1
<1>1. IsFiniteSet({a}) /\ Cardinality({a}) = 1 BY FS_Singleton
<1>2. IsFiniteSet({a} \cup {b}) /\ Cardinality({a} \cup {b}) = 1 + 1
  BY <1>1, FS_AddElement
<1>3. {a} \cup {b} \in SUBSET S OBVIOUS
<1>4. Cardinality({a} \cup {b}) <= Cardinality(S) BY <1>3, FS_Subset
<1>5. Cardinality(S) \in Nat BY FS_CardinalityType
<1> QED BY <1>2, <1>4, <1>5

\* A further try on the route the log ends with, or a first one on a new route.
LEMMA AppendVisits ==
    ASSUME NEW t \in Seq(RowType), NEW e \in RowType, Visits(t),
           t # << >> => e.kind # "primary",
           \/ \A i \in DOMAIN t : t[i].route # e.route
           \/ t # << >> /\ t[Len(t)].route = e.route /\ e.kind = "retry"
    PROVE  Visits(Append(t, e))
<1> DEFINE u == Append(t, e)
           n == Len(t)
<1>1. /\ n \in Nat /\ DOMAIN t = 1..n /\ DOMAIN u = 1..n + 1
      /\ \A i \in 1..n : u[i] = t[i]
      /\ u[n + 1] = e
  BY AppendedLog
<1> HIDE DEF u
<1>2. SUFFICES ASSUME NEW i \in DOMAIN u, NEW j \in DOMAIN u, i < j
               PROVE  /\ u[j].kind # "primary"
                      /\ u[i].route = u[j].route =>
                           \A k \in i+1..j : u[k].route = u[i].route /\ u[k].kind = "retry"
  BY DEF Visits, u
<1>3. i \in 1..n /\ u[i] = t[i] BY <1>1, <1>2
<1>4. CASE j \in 1..n
  <2>1. u[j] = t[j] /\ \A k \in i+1..j : u[k] = t[k] BY <1>1, <1>3, <1>4
  <2> QED BY <1>1, <1>2, <1>3, <1>4, <2>1 DEF Visits
<1>5. CASE j = n + 1
  <2>1. t # << >> BY <1>1, <1>3
  <2>2. u[j].kind # "primary" BY <1>1, <1>5, <2>1
  <2>3. ASSUME u[i].route = u[j].route, NEW k \in i+1..j
        PROVE  u[k].route = u[i].route /\ u[k].kind = "retry"
    <3>1. t[i].route = e.route BY <1>1, <1>3, <1>5, <2>3
    <3>2. t[n].route = t[i].route /\ e.kind = "retry"
      BY <1>1, <1>3, <3>1
    <3>3. CASE k = n + 1 BY <1>1, <1>3, <3>1, <3>2, <3>3
    <3>4. CASE k # n + 1
      <4>1. k \in i+1..n /\ i < n /\ n \in 1..n BY <1>1, <1>3, <1>5, <2>3, <3>4
      <4>2. t[k].route = t[i].route /\ t[k].kind = "retry"
        BY <1>1, <1>3, <3>2, <4>1 DEF Visits
      <4> QED BY <1>1, <1>3, <4>1, <4>2
    <3> QED BY <3>3, <3>4
  <2> QED BY <2>2, <2>3
<1> QED BY <1>1, <1>2, <1>4, <1>5

\* An attempt enters the log.
LEMMA AttemptRoutesTold ==
    ASSUME NEW q \in Local, NEW p \in Local, NEW t \in Seq(RowType),
           RoutesTold(q, t), q.pc \in {"attempt", "sent"}, SameVisit(q, p),
           p.pc \in InFlight, Row(p) \in RowType
    PROVE  RoutesTold(p, Append(t, Row(p)))
<1> DEFINE e == Row(p)
           u == Append(t, e)
<1>1. /\ Len(t) \in Nat /\ DOMAIN t = 1..Len(t) /\ DOMAIN u = 1..Len(t) + 1
      /\ \A i \in 1..Len(t) : u[i] = t[i]
      /\ u[Len(t) + 1] = e /\ Len(u) = Len(t) + 1 /\ u # << >>
  BY AppendedLog
<1>2. e.route = q.route /\ e.kind = AttemptKind(q)
  BY DEF Row, SameVisit, AttemptKind
<1>3. /\ IsFiniteSet(q.tried) /\ q.route \in q.tried /\ Placed(q, t) /\ Visits(t)
      /\ \A i \in DOMAIN t : t[i].route \in q.tried
  BY DEF RoutesTold, Working
<1>4. p.tried = q.tried /\ p.route = q.route /\ q.tries \in Nat
  BY DEF SameVisit, Local
<1>5. t # << >> => e.kind # "primary"
  <2>1. CASE q.tries > 0 BY <1>2, <2>1 DEF AttemptKind
  <2>2. CASE t # << >> /\ q.tries = 0
    <3>1. t[1].route \in q.tried /\ t[1].route # q.route
      BY <1>1, <1>3, <2>2 DEF Placed
    <3>2. Cardinality(q.tried) > 1 BY <1>3, <3>1, TwoOfASet
    <3> QED BY <1>2, <2>2, <3>2 DEF AttemptKind
  <2> QED BY <1>4, <2>1, <2>2
<1>6. \/ \A i \in DOMAIN t : t[i].route # e.route
      \/ t # << >> /\ t[Len(t)].route = e.route /\ e.kind = "retry"
  BY <1>2, <1>3, <1>4 DEF Placed, AttemptKind
<1>7. Visits(u) BY <1>3, <1>5, <1>6, AppendVisits
<1>8. \A i \in DOMAIN u : u[i].route \in q.tried BY <1>1, <1>2, <1>3
<1>9. p.pc \in Working /\ p.pc \notin {"attempt", "sent"} BY DEF InFlight, Working
<1> QED BY <1>1, <1>3, <1>4, <1>7, <1>8, <1>9 DEF RoutesTold

\* Nothing enters it.
LEMMA QuietRoutesTold ==
    ASSUME NEW q \in Local, NEW p \in Local, NEW t, RoutesTold(q, t),
           p.tried = q.tried, p.pc \in Working => p.route = q.route,
           p.pc \in Working => q.pc \in Working,
           p.pc \in {"attempt", "sent"} => Placed(p, t),
           p.pc \in InFlight => q.pc \in InFlight /\ Row(p) = Row(q)
    PROVE  RoutesTold(p, t)
BY DEF RoutesTold

LEMMA HandleRoutesTold ==
    ASSUME TypeInv, TypeInv', NEW r \in Requests, RoutesTold(req[r], Trail(r)),
           Authenticate(r) \/ Handle(r), req[r].pc \in {"idle", "load"} => Trail(r) = << >>
    PROVE  RoutesTold(req[r], Trail(r))'
<1> DEFINE q == req[r]
           p == req'[r]
           t == Trail(r)
<1>1. q \in Local /\ p \in Local /\ t \in Seq(RowType) BY TrailType DEF TypeInv, TypeOK
<1>2. CASE Authenticate(r)
  <2>1. Trail(r)' = t /\ t = << >> /\ p.tried = {} /\ p.pc \in {"load", "done"}
    BY <1>2, AuthenticateShape, TrailGrows
  <2>2. IsFiniteSet({}) BY FS_EmptySet
  <2> QED BY <2>1, <2>2 DEF RoutesTold, Visits, Working, InFlight
<1>3. CASE LoadRoutes(r)
  <2>1. /\ Trail(r)' = t /\ p.tried = q.tried /\ p.pc \in {"pick", "done"}
    BY <1>3, LoadRoutesShape, TrailGrows DEF InFlight
  <2> QED BY <1>1, <2>1, QuietRoutesTold DEF Working, InFlight
<1>4. CASE PickRoute(r)
  <2>1. Trail(r)' = t BY <1>4, PickRouteShape, TrailGrows
  <2>2. CASE p = Finished(q)
    <3>1. p.tried = q.tried /\ p.pc = "done" BY <1>1, <2>2 DEF Finished, Local
    <3> QED BY <1>1, <2>1, <3>1, QuietRoutesTold DEF Working, InFlight
  <2>3. CASE /\ p.route \in Candidates(q, now) /\ p.tried = q.tried \cup {p.route}
             /\ p.tries = 0 /\ p.pc = "attempt"
    <3>1. p.route \notin q.tried BY <1>1, <2>3, CandidatesSubset
    <3>2. IsFiniteSet(p.tried)
      <4>1. IsFiniteSet(q.tried) BY DEF RoutesTold
      <4> HIDE DEF q
      <4>2. IsFiniteSet(q.tried \cup {p.route}) BY <4>1, FS_AddElement
      <4> QED BY <2>3, <4>2
    <3>3. Placed(p, t) BY <2>3, <3>1 DEF Placed, RoutesTold
    <3> QED BY <2>1, <2>3, <3>2, <3>3 DEF RoutesTold, InFlight
  <2> QED BY <1>4, <2>2, <2>3, PickRouteShape
<1>5. CASE StartAttempt(r) \/ Respond(r)
  <2>1. /\ q.pc \in {"attempt", "sent"} /\ SameVisit(q, p)
        /\ p.pc \in {"sent", "done"} \cup InFlight
        /\ p.pc = "sent" => q.pc = "attempt"
    BY <1>5, StartAttemptShape, RespondShape DEF InFlight
  <2>2. CASE p.pc \in InFlight
    <3>1. Row(p) \in RowType
      BY <1>1, <2>2, RowHasType DEF TypeInv, RouteChosen, InFlight, Working
    <3>2. Trail(r)' = Append(t, Row(p)) BY <2>1, <2>2, TrailGrows, <1>5 DEF Handle
    <3> QED BY <1>1, <2>1, <2>2, <3>1, <3>2, AttemptRoutesTold
  <2>3. CASE p.pc \notin InFlight
    <3>1. Trail(r)' = t BY <2>1, <2>3, TrailGrows, <1>5 DEF Handle
    <3>2. Placed(p, t) BY <2>1 DEF RoutesTold, Placed, SameVisit
    <3> QED BY <1>1, <2>1, <2>3, <3>1, <3>2, QuietRoutesTold DEF SameVisit, Working
  <2> QED BY <2>2, <2>3
<1>6. CASE Cool(r) \/ NoteSuccess(r) \/ ClearResidue(r)
  <2>1. SameVisit(q, p) /\ q.pc \in InFlight /\ p.pc \in InFlight /\ p.out = q.out
    BY <1>6, RouteRowShape DEF InFlight
  <2>2. Row(p) = Row(q) BY <2>1 DEF Row, AttemptKind, SameVisit
  <2>3. Trail(r)' = t BY <1>6, <2>1, TrailGrows DEF InFlight, Handle
  <2> QED BY <1>1, <2>1, <2>2, <2>3, QuietRoutesTold DEF SameVisit, Working, InFlight
<1>7. CASE Record(r)
  <2>1. /\ q.pc = "record" /\ p.tried = q.tried /\ p.route = q.route
        /\ \/ p.pc \in {"done", "pick"}
           \/ p.pc = "attempt" /\ p.tries = q.tries + 1
    BY <1>7, RecordShape
  <2>2. Trail(r)' = t BY <1>7, <2>1, TrailGrows DEF Handle
  <2>3. t # << >> /\ t[Len(t)].route = q.route
    BY <2>1 DEF RoutesTold, InFlight, Row
  <2>4. q.tries \in Nat BY <1>1 DEF Local
  <2>5. p.pc = "attempt" => Placed(p, t) BY <2>1, <2>3, <2>4 DEF Placed
  <2> QED BY <1>1, <2>1, <2>2, <2>5, QuietRoutesTold DEF Working, InFlight
<1> QED BY <1>2, <1>3, <1>4, <1>5, <1>6, <1>7 DEF Handle

\* What an attempt in flight says of the end.
LEMMA AttemptEndingTold ==
    ASSUME NEW q \in Local, NEW p \in Local, NEW t \in Seq(RowType),
           EndingTold(q, t), q.pc \in {"attempt", "sent"},
           p.pc \in InFlight, Row(p) \in RowType, p.reply = ReplyTo(p, p.out),
           p.out # "none",
           p.sticky = q.sticky \/ (p.out \in HttpError /\ p.sticky \in {0, Len(t) + 1})
    PROVE  EndingTold(p, Append(t, Row(p)))
<1> DEFINE e == Row(p)
           u == Append(t, e)
<1>1. /\ Len(t) \in Nat /\ DOMAIN t = 1..Len(t) /\ DOMAIN u = 1..Len(t) + 1
      /\ \A i \in 1..Len(t) : u[i] = t[i]
      /\ u[Len(t) + 1] = e /\ Len(u) = Len(t) + 1 /\ u # << >>
  BY AppendedLog
<1>2. e.out = p.out BY DEF Row
<1>3. \A i \in DOMAIN t : t[i].out \notin Final
  BY DEF EndingTold, InFlight
<1>4. \A i \in DOMAIN u : u[i].out \in Final => i = Len(u)
  BY <1>1, <1>3
<1>5. p.pc \notin {"idle", "load", "pick", "attempt", "sent", "done"} BY DEF InFlight
<1>6. p.reply # "echo" BY DEF ReplyTo
<1>7. p.sticky # 0 => p.sticky \in DOMAIN u /\ u[p.sticky].out \in HttpError
  BY <1>1, <1>2 DEF EndingTold
<1> HIDE DEF u, e
<1> QED BY <1>1, <1>4, <1>5, <1>6, <1>7 DEF EndingTold, u, e

LEMMA HandleEndingTold ==
    ASSUME TypeInv, TypeInv', NEW r \in Requests, EndingTold(req[r], Trail(r)),
           Authenticate(r) \/ Handle(r)
    PROVE  EndingTold(req[r], Trail(r))'
<1> DEFINE q == req[r]
           p == req'[r]
           t == Trail(r)
<1>1. q \in Local /\ p \in Local /\ t \in Seq(RowType) BY TrailType DEF TypeInv, TypeOK
<1>2. t # << >> => Len(t) \in DOMAIN t BY <1>1
<1>3. CASE Authenticate(r)
  <2>1. Trail(r)' = t BY <1>3, AuthenticateShape, TrailGrows DEF InFlight
  <2> QED BY <1>3, <2>1, AuthenticateShape DEF EndingTold, InFlight
<1>4. CASE LoadRoutes(r)
  <2>1. Trail(r)' = t /\ q.pc = "load" BY <1>4, LoadRoutesShape, TrailGrows DEF InFlight, LoadRoutes
  <2> QED BY <1>4, <2>1, LoadRoutesShape DEF EndingTold, InFlight
<1>5. CASE PickRoute(r)
  <2>1. Trail(r)' = t /\ q.pc = "pick" BY <1>5, PickRouteShape, TrailGrows DEF Handle
  <2>2. \A i \in DOMAIN t : t[i].out \notin Final BY <2>1 DEF EndingTold, InFlight
  <2>3. CASE p = Finished(q)
    <3>1. /\ p.pc = "done" /\ p.sticky = q.sticky
          /\ p.reply = IF q.sticky # 0 THEN "echo" ELSE "bad_gateway"
      BY <1>1, <2>3 DEF Finished, Local
    <3>2. t # << >> => t[Len(t)].out \notin Success BY <1>2, <2>2 DEF Final
    <3> QED BY <2>1, <2>2, <3>1, <3>2 DEF EndingTold, InFlight
  <2>4. CASE p.pc = "attempt" /\ p.reply = q.reply /\ p.sticky = q.sticky
    BY <2>1, <2>2, <2>4 DEF EndingTold, InFlight
  <2> QED BY <1>5, <2>3, <2>4, PickRouteShape
<1>6. CASE StartAttempt(r) \/ Respond(r)
  <2>1. /\ q.pc \in {"attempt", "sent"} /\ SameVisit(q, p)
        /\ p.pc \in {"sent", "done"} \cup InFlight
        /\ p.pc \notin InFlight => /\ p.sticky = q.sticky
                                   /\ \/ p.pc = "sent" /\ p.reply = q.reply
                                      \/ p.pc = "done" /\ p.reply = "refused"
    BY <1>6, StartAttemptShape, RespondShape DEF InFlight
  <2>2. CASE p.pc \in InFlight
    <3>1. Row(p) \in RowType
      BY <1>1, <2>2, RowHasType DEF TypeInv, RouteChosen, InFlight, Working
    <3>2. Trail(r)' = Append(t, Row(p)) BY <2>1, <2>2, TrailGrows, <1>6 DEF Handle
    <3>3. t = usage[r] BY <2>1, TrailType DEF InFlight
    <3>4. p.reply = ReplyTo(p, p.out) /\ p.out # "none"
      <4>1. CASE StartAttempt(r)
        <5>1. p.out = "config" /\ p.reply = q.reply
          BY <2>2, <4>1, StartAttemptShape DEF InFlight
        <5> QED BY <2>1, <5>1 DEF EndingTold, ReplyTo, Success
      <4>2. CASE Respond(r)
        BY <2>1, <4>2, RespondShape DEF Possible, ReplyTo, SameVisit
      <4> QED BY <1>6, <4>1, <4>2
    <3>5. p.sticky = q.sticky \/ (p.out \in HttpError /\ p.sticky \in {0, Len(t) + 1})
      BY <1>6, <3>3, StartAttemptShape, RespondShape
    <3> HIDE DEF q, p, t
    <3> QED BY <1>1, <2>1, <2>2, <3>1, <3>2, <3>4, <3>5, AttemptEndingTold DEF q, p, t
  <2>3. CASE p.pc \notin InFlight
    <3>1. Trail(r)' = t BY <2>1, <2>3, TrailGrows, <1>6 DEF Handle
    <3>2. \A i \in DOMAIN t : t[i].out \notin Final BY <2>1 DEF EndingTold, InFlight
    <3>3. t # << >> => t[Len(t)].out \notin Success BY <1>2, <3>2 DEF Final
    <3> QED BY <2>1, <2>3, <3>1, <3>2, <3>3 DEF EndingTold, InFlight
  <2> QED BY <2>2, <2>3
<1>7. CASE Cool(r) \/ NoteSuccess(r) \/ ClearResidue(r)
  <2>1. /\ SameVisit(q, p) /\ q.pc \in InFlight /\ p.pc \in InFlight /\ p.out = q.out
        /\ p.reply = q.reply /\ p.sticky = q.sticky
    BY <1>7, RouteRowShape DEF InFlight
  <2>2. Row(p) = Row(q) /\ ReplyTo(p, p.out) = ReplyTo(q, q.out)
    BY <2>1 DEF Row, AttemptKind, SameVisit, ReplyTo
  <2>3. Trail(r)' = t BY <1>7, <2>1, TrailGrows DEF InFlight, Handle
  <2> QED BY <2>1, <2>2, <2>3 DEF EndingTold, InFlight
<1>8. CASE Record(r)
  <2>1. Trail(r)' = t /\ q.pc = "record" BY <1>8, RecordShape, TrailGrows DEF Handle
  <2>2. /\ t # << >> /\ t[Len(t)].out = q.out
        /\ q.reply = ReplyTo(q, q.out) /\ q.out # "none"
    BY <2>1 DEF EndingTold, InFlight, Row
  <2>3. q.reply = "none" <=> q.out \notin Success \cup {"commit_err"}
                             /\ ~(q.out = "reject" /\ ~q.policy.on4xx)
    BY <2>2 DEF ReplyTo
  <2>4. q.reply = "delivered" <=> q.out \in Success BY <2>2 DEF ReplyTo
  <2>5. q.reply = "none" /\ q.out # "canceled" => \A i \in DOMAIN t : t[i].out \notin Final
    BY <1>2, <2>2, <2>3 DEF EndingTold, Final
  <2>6. p.pc \in {"done", "pick", "attempt"} /\ p.sticky = q.sticky
    BY <1>8, RecordShape
  <2>7. /\ p.pc \in {"pick", "attempt"} => /\ p.reply = "none"
                                           /\ q.reply = "none" /\ q.out # "canceled"
        /\ p.reply = "delivered" <=> q.reply = "delivered"
        /\ p.reply = "echo" => q.sticky # 0
    BY <1>8, <2>2, RecordShape DEF ReplyTo
  <2> QED BY <2>1, <2>2, <2>4, <2>5, <2>6, <2>7 DEF EndingTold, InFlight
<1> QED BY <1>3, <1>4, <1>5, <1>6, <1>7, <1>8 DEF Handle

\* The environment touches no log.
LEMMA NextStory == TypeInv /\ TypeInv' /\ StoryInv /\ [Next]_vars => StoryInv'
<1> SUFFICES ASSUME TypeInv, TypeInv', StoryInv, [Next]_vars, NEW s \in Requests
             PROVE  (RoutesTold(req[s], Trail(s)) /\ EndingTold(req[s], Trail(s)))'
  BY DEF StoryInv
<1>1. RoutesTold(req[s], Trail(s)) /\ EndingTold(req[s], Trail(s)) BY DEF StoryInv
<1>2. ASSUME req'[s] = req[s], usage'[s] = usage[s]
      PROVE  (RoutesTold(req[s], Trail(s)) /\ EndingTold(req[s], Trail(s)))'
  <2>1. Trail(s)' = Trail(s) BY <1>2 DEF Trail
  <2> QED BY <1>1, <1>2, <2>1
<1>3. ASSUME NEW r \in Requests, Authenticate(r) \/ Handle(r)
      PROVE  (RoutesTold(req[s], Trail(s)) /\ EndingTold(req[s], Trail(s)))'
  <2>1. CASE r = s
    <3>1. req[s].pc \in {"idle", "load"} => Trail(s) = << >> BY <1>1 DEF EndingTold
    <3>2. RoutesTold(req[s], Trail(s))' BY <1>1, <1>3, <2>1, <3>1, HandleRoutesTold
    <3>3. EndingTold(req[s], Trail(s))' BY <1>1, <1>3, <2>1, HandleEndingTold
    <3> QED BY <3>2, <3>3
  <2>2. CASE r # s BY <1>2, <1>3, <2>2, OtherRequests
  <2> QED BY <2>1, <2>2
<1>4. CASE \A r \in Requests : ~(Authenticate(r) \/ Handle(r))
  BY <1>2, <1>4, EnvironmentSteps
<1> QED BY <1>3, <1>4

LEMMA InitStory == Init => StoryInv
<1> SUFFICES ASSUME Init, NEW r \in Requests
             PROVE  RoutesTold(req[r], Trail(r)) /\ EndingTold(req[r], Trail(r))
  BY DEF StoryInv
<1>1. /\ req[r].pc = "idle" /\ req[r].tried = {} /\ req[r].reply = "none"
      /\ req[r].sticky = 0 /\ Trail(r) = << >>
  BY DEF Init, NewRequest, Trail
<1>2. IsFiniteSet({}) BY FS_EmptySet
<1>3. RoutesTold(req[r], Trail(r)) BY <1>1, <1>2 DEF RoutesTold, Visits, Working, InFlight
<1>4. EndingTold(req[r], Trail(r)) BY <1>1 DEF EndingTold, InFlight
<1> QED BY <1>3, <1>4

LEMMA StoryIsConsistent == TypeInv /\ StoryInv => LogIsConsistent
<1> SUFFICES ASSUME TypeInv, StoryInv PROVE LogIsConsistent
  OBVIOUS
<1>1. RouteVisitedOnce BY DEF RouteVisitedOnce, StoryInv, RoutesTold, Visits
<1>2. TerminalAttemptIsLast
  BY DEF TerminalAttemptIsLast, StoryInv, EndingTold, Final
<1>3. ReplyMatchesLog
  <2>1. \A r \in Requests : req[r].pc = "done" => Trail(r) = usage[r]
    BY DEF Trail
  <2> QED BY <2>1 DEF ReplyMatchesLog, StoryInv, EndingTold
<1> QED BY <1>1, <1>2, <1>3 DEF LogIsConsistent

\* The log of every request is a story HandleForward may write, whatever other requests,
\* the clock and the administrator do: each route is visited once, nothing follows
\* an attempt that settled the request, and the client got what the last row says.
THEOREM LogConsistent == Spec => []LogIsConsistent
<1>1. Init => TypeInv /\ StoryInv BY InitTypeInv, InitStory
<1>2. TypeInv /\ StoryInv /\ [Next]_vars => (TypeInv /\ StoryInv)'
  BY NextTypeInv, NextStory
<1> QED BY <1>1, <1>2, StoryIsConsistent, PTL DEF Spec

-----------------------------------------------------------------------------
(* The contract *)

\* The state a client sees, of one request.
PhaseOf(q) == IF q.pc = "idle" THEN "new" ELSE IF q.reply = "none" THEN "open" ELSE "closed"
LimitOf(q) == IF q.pc = "idle" THEN 0 ELSE Budget(q.policy)

\* One request's share of a step of the contract: phase f, budget b and attempts n
\* become g, c and m.
Accepts(f, b, n, g, c, m) ==
    f = "new" /\ c \in {Budget(Effective(d)) : d \in Policies} /\ g \in {"open", "closed"} /\ m = n
Tries(f, b, n, g, c, m) ==
    f = "open" /\ n < b /\ m = n + 1 /\ g \in {"open", "closed"} /\ c = b
GivesUp(f, b, n, g, c, m) == f = "open" /\ g = "closed" /\ c = b /\ m = n
Rests(f, b, n, g, c, m)   == g = f /\ c = b /\ m = n

ContractStep(f, b, n, g, c, m) ==
    \/ Accepts(f, b, n, g, c, m) \/ Tries(f, b, n, g, c, m)
    \/ GivesUp(f, b, n, g, c, m) \/ Rests(f, b, n, g, c, m)

Shows(r) == ContractStep(PhaseOf(req[r]), LimitOf(req[r]), Len(Trail(r)),
                         PhaseOf(req[r])', LimitOf(req[r])', Len(Trail(r))')

\* A step of the handler looks to its client like a step of the contract.
LEMMA HandleShows ==
    ASSUME TypeInv, TypeInv', StoryInv, AttemptsBounded', NEW r \in Requests,
           Authenticate(r) \/ Handle(r)
    PROVE  Shows(r)
<1> DEFINE q == req[r]
           p == req'[r]
           t == Trail(r)
<1>1. q \in Local /\ p \in Local /\ t \in Seq(RowType) /\ Len(t) \in Nat
  BY TrailType DEF TypeInv, TypeOK
<1>2. EndingTold(q, t) BY DEF StoryInv
<1>3. p.pc # "idle"
  <2>1. CASE Authenticate(r) BY <2>1, AuthenticateShape
  <2>2. CASE LoadRoutes(r) BY <2>2, LoadRoutesShape
  <2>3. CASE PickRoute(r) BY <1>1, <2>3, PickRouteShape, EndingType
  <2>4. CASE StartAttempt(r) \/ Respond(r) BY <2>4, StartAttemptShape, RespondShape
  <2>5. CASE Cool(r) \/ NoteSuccess(r) \/ ClearResidue(r) BY <2>5, RouteRowShape
  <2>6. CASE Record(r) BY <2>6, RecordShape
  <2> QED BY <2>1, <2>2, <2>3, <2>4, <2>5, <2>6 DEF Handle
<1>4. /\ PhaseOf(req[r])' = (IF p.reply = "none" THEN "open" ELSE "closed")
      /\ LimitOf(req[r])' = Budget(p.policy)
  BY <1>3 DEF PhaseOf, LimitOf
<1>5. CASE Authenticate(r)
  <2>1. q.pc = "idle" /\ \E g \in Policies : p.policy = Effective(g)
    BY <1>5, AuthenticateShape
  <2>2. Trail(r)' = t BY <1>5, <2>1, TrailGrows
  <2>3. PhaseOf(q) = "new" BY <2>1 DEF PhaseOf
  <2>4. Budget(p.policy) \in {Budget(Effective(d)) : d \in Policies} BY <2>1
  <2> HIDE DEF q, p, t
  <2> QED BY <1>4, <2>2, <2>3, <2>4 DEF Shows, ContractStep, Accepts, t, q
<1>6. ASSUME Handle(r) PROVE Shows(r)
  <2>1. q.pc \notin {"idle", "done"} /\ p.policy = q.policy BY <1>6, PolicyStays
  <2>2. /\ PhaseOf(q) = (IF q.reply = "none" THEN "open" ELSE "closed")
        /\ LimitOf(q) = Budget(q.policy) /\ Budget(p.policy) = Budget(q.policy)
    BY <2>1 DEF PhaseOf, LimitOf
  <2>3. CASE q.pc \in {"attempt", "sent"} /\ p.pc \in InFlight
    <3>1. Trail(r)' = Append(t, Row(p)) BY <1>6, <2>3, TrailGrows
    <3>2. Len(Trail(r)') = Len(t) + 1 BY <1>1, <3>1
    <3>3. Len(Trail(r)') <= Budget(p.policy) BY DEF AttemptsBounded
    <3>4. Budget(q.policy) \in Nat
      <4>1. 1 + q.policy.retries \in Nat /\ 1 + q.policy.failoverMax \in Nat
        <5>1. q.policy \in Policy BY <1>1 DEF Local
        <5> HIDE DEF q
        <5> QED BY <5>1 DEF Policy
      <4> HIDE DEF q
      <4> QED BY <4>1, OneStageMore DEF Budget
    <3>5. Len(t) < Budget(q.policy) BY <1>1, <2>2, <3>2, <3>3, <3>4
    <3>6. q.reply = "none" BY <1>2, <2>3 DEF EndingTold
    <3> HIDE DEF q, p, t
    <3> QED BY <1>4, <2>2, <3>2, <3>5, <3>6 DEF Shows, ContractStep, Tries, q, t
  <2>4. CASE ~(q.pc \in {"attempt", "sent"} /\ p.pc \in InFlight)
    <3>1. Trail(r)' = t BY <1>6, <2>4, TrailGrows
    <3>2. (p.reply = "none") = (q.reply = "none") \/ q.reply = "none"
      <4>1. CASE q.pc \in {"load", "pick", "attempt", "sent"} BY <1>2, <4>1 DEF EndingTold
      <4>2. CASE Cool(r) \/ NoteSuccess(r) \/ ClearResidue(r)
        BY <4>2, RouteRowShape
      <4>3. CASE Record(r) BY <4>3, RecordShape
      <4> QED BY <1>6, <4>1, <4>2, <4>3
          DEF Handle, LoadRoutes, PickRoute, StartAttempt, Respond
    <3> HIDE DEF q, p, t
    <3> QED BY <1>4, <2>2, <3>1, <3>2 DEF Shows, ContractStep, Rests, GivesUp, q, t
  <2> QED BY <2>3, <2>4
<1> QED BY <1>5, <1>6

LEMMA InitContract == Init => Contract!Init
<1> SUFFICES ASSUME Init PROVE Contract!Init
  OBVIOUS
<1>1. \A r \in Requests : req[r].pc = "idle" /\ Trail(r) = << >>
  BY DEF Init, NewRequest, Trail
<1>2. \A r \in Requests : Len(Trail(r)) = 0 BY <1>1
<1> QED BY <1>1, <1>2 DEF Contract!Init

\* Every step of the data plane is a step of the contract, or none.
LEMMA NextContract ==
    TypeInv /\ TypeInv' /\ StoryInv /\ AttemptsBounded' /\ [Next]_vars
        => [Contract!Next]_Contract!vars
<1> SUFFICES ASSUME TypeInv, TypeInv', StoryInv, AttemptsBounded', [Next]_vars
             PROVE  [Contract!Next]_Contract!vars
  OBVIOUS
<1> DEFINE f == [r \in Requests |-> PhaseOf(req[r])]
           b == [r \in Requests |-> LimitOf(req[r])]
           n == [r \in Requests |-> Len(Trail(r))]
           g == [r \in Requests |-> PhaseOf(req[r])']
           c == [r \in Requests |-> LimitOf(req[r])']
           m == [r \in Requests |-> Len(Trail(r))']
<1>1. /\ Contract!vars = <<f, b, n>> /\ Contract!vars' = <<g, c, m>>
      /\ \A r \in Requests :
           /\ Contract!Accept(r) <=>
                /\ f[r] = "new"
                /\ \E k \in {Budget(Effective(d)) : d \in Policies} : c = [b EXCEPT ![r] = k]
                /\ \E h \in {"open", "closed"} : g = [f EXCEPT ![r] = h]
                /\ m = n
           /\ Contract!Try(r) <=>
                /\ f[r] = "open" /\ n[r] < b[r]
                /\ m = [n EXCEPT ![r] = @ + 1]
                /\ \E h \in {"open", "closed"} : g = [f EXCEPT ![r] = h]
                /\ c = b
           /\ Contract!GiveUp(r) <=>
                /\ f[r] = "open" /\ g = [f EXCEPT ![r] = "closed"]
                /\ c = b /\ m = n
  BY DEF Contract!vars, Contract!Accept, Contract!Try, Contract!GiveUp, PhaseOf, LimitOf
<1>2. ASSUME NEW s \in Requests, req'[s] = req[s], usage'[s] = usage[s]
      PROVE  g[s] = f[s] /\ c[s] = b[s] /\ m[s] = n[s]
  <2>1. Trail(s)' = Trail(s) BY <1>2 DEF Trail
  <2> QED BY <1>2, <2>1 DEF PhaseOf, LimitOf
<1>3. ASSUME NEW r \in Requests, Authenticate(r) \/ Handle(r)
      PROVE  [Contract!Next]_Contract!vars
  <2>1. \A s \in Requests \ {r} : g[s] = f[s] /\ c[s] = b[s] /\ m[s] = n[s]
    BY <1>2, <1>3, OtherRequests
  <2>2. /\ g = [f EXCEPT ![r] = g[r]] /\ c = [b EXCEPT ![r] = c[r]]
        /\ m = [n EXCEPT ![r] = m[r]]
    BY <2>1
  <2>3. ContractStep(f[r], b[r], n[r], g[r], c[r], m[r])
    <3>1. Shows(r) BY <1>3, HandleShows
    <3> QED BY <3>1 DEF Shows
  <2>4. f = [f EXCEPT ![r] = f[r]] /\ b = [b EXCEPT ![r] = b[r]] /\ n = [n EXCEPT ![r] = n[r]]
    OBVIOUS
  <2> HIDE DEF f, b, n, g, c, m
  <2>5. Contract!Accept(r) \/ Contract!Try(r) \/ Contract!GiveUp(r) \/ <<g, c, m>> = <<f, b, n>>
    BY <1>1, <2>2, <2>3, <2>4 DEF ContractStep, Accepts, Tries, GivesUp, Rests
  <2> QED BY <1>1, <2>5 DEF Contract!Next
<1>4. CASE \A r \in Requests : ~(Authenticate(r) \/ Handle(r))
  <2>1. g = f /\ c = b /\ m = n BY <1>2, <1>4, EnvironmentSteps
  <2> QED BY <1>1, <2>1
<1> QED BY <1>3, <1>4

\* HandleForward keeps the contract of ForwardContract: whatever upstreams, other
\* requests, the clock and the administrator do, an accepted request is answered at
\* most once, makes no attempt after its reply and none beyond its group's budget.
THEOREM ContractKept == Spec => ImplementsContract
<1> DEFINE Inv == TypeInv /\ BudgetInv /\ StoryInv
<1>1. Init => Inv BY InitTypeInv, InitBudget, InitStory
<1>2. Inv /\ [Next]_vars => Inv' BY NextTypeInv, NextBudget, NextStory
<1>3. Inv /\ Inv' /\ [Next]_vars => [Contract!Next]_Contract!vars
  <2>1. Inv' => AttemptsBounded' BY BudgetBounds, PTL
  <2> QED BY <2>1, NextContract
<1>4. Init => Contract!Init BY InitContract
<1> QED BY <1>1, <1>2, <1>3, <1>4, PTL DEF Spec, ImplementsContract, Contract!Spec

-----------------------------------------------------------------------------
(* Cooldowns *)

\* The attempts of a log on one route, and one that the upstream is to blame for.
Here(t, rt) == {i \in DOMAIN t : t[i].route = rt}
Blamed(q, e) == Fails(q, e.out) /\ e.out # "canceled"

\* The try counter tells how often the log names the current route, and every try
\* there but the one in flight is the upstream's fault.
VisitCounted(q, t) ==
    q.pc \in Working =>
      /\ Cardinality(Here(t, q.route)) = q.tries + (IF q.pc \in InFlight THEN 1 ELSE 0)
      /\ \A i \in Here(t, q.route) : (q.pc \in InFlight /\ i = Len(t)) \/ Blamed(q, t[i])
      /\ q.pc = "cool" => Cools(q, q.out)

\* The request has left the route for good, or is about to, after its last try there.
UsedUp(q, t, rt) ==
    /\ rt \in q.tried
    /\ q.pc \in Working /\ q.route = rt => q.pc = "record" /\ LastTry(q)
    /\ Cardinality(Here(t, rt)) = 1 + q.policy.retries
    /\ \A i \in Here(t, rt) : Blamed(q, t[i])

EarnInv ==
    \A r \in Requests :
        /\ VisitCounted(req[r], Trail(r))
        /\ \A rt \in Routes : pause[rt].by = r => UsedUp(req[r], Trail(r), rt)

\* One more attempt on its route, and none on any other.
LEMMA AppendHere ==
    ASSUME NEW t \in Seq(RowType), NEW e \in RowType
    PROVE  /\ Here(Append(t, e), e.route) = Here(t, e.route) \cup {Len(t) + 1}
           /\ Cardinality(Here(t, e.route)) \in Nat
           /\ Cardinality(Here(Append(t, e), e.route)) = Cardinality(Here(t, e.route)) + 1
<1> DEFINE u == Append(t, e)
           n == Len(t)
<1>1. /\ n \in Nat /\ DOMAIN t = 1..n /\ DOMAIN u = 1..n + 1
      /\ \A i \in 1..n : u[i] = t[i]
      /\ u[n + 1] = e
  BY AppendedLog
<1> HIDE DEF u, n
<1>2. Here(u, e.route) = Here(t, e.route) \cup {n + 1} BY <1>1 DEF Here
<1>3. n + 1 \notin Here(t, e.route) BY <1>1 DEF Here
<1>4. IsFiniteSet(Here(t, e.route))
  <2>1. IsFiniteSet(1..n) BY <1>1, FS_Interval
  <2>2. Here(t, e.route) \subseteq 1..n BY <1>1 DEF Here
  <2> QED BY <2>1, <2>2, FS_Subset
<1> QED BY <1>2, <1>3, <1>4, FS_AddElement, FS_CardinalityType DEF u, n

LEMMA AppendElsewhere ==
    ASSUME NEW t \in Seq(RowType), NEW e \in RowType, NEW rt, rt # e.route
    PROVE  Here(Append(t, e), rt) = Here(t, rt)
BY AppendedLog DEF Here

\* Whose failure a route shows changes to a request only by its own Cool.
LEMMA PausedBy ==
    ASSUME TypeInv, [Next]_vars, NEW r \in Requests, NEW rt \in Routes, pause'[rt].by = r
    PROVE  pause[rt].by = r \/ (Cool(r) /\ rt = req[r].route)
<1>1. pause \in [Routes -> [until : Nat, by : Requests \cup {NoRequest}, streak : Nat]]
  BY DEF TypeInv, TypeOK
<1>2. r # NoRequest BY DispatchAssumption
<1>3. ASSUME NEW s \in Requests, Cool(s)
      PROVE  pause'[rt].by = pause[rt].by \/ (s = r /\ rt = req[r].route)
  <2> DEFINE e == [until |-> now + req[s].policy.cooldown, by |-> s, streak |-> 0]
  <2>1. pause' = [pause EXCEPT ![req[s].route] = e] /\ e.by = s BY <1>3 DEF Cool
  <2> HIDE DEF e
  <2>2. CASE req[s].route = rt BY <1>1, <2>1, <2>2
  <2>3. CASE req[s].route # rt BY <1>1, <2>1, <2>3
  <2> QED BY <2>2, <2>3
<1>4. ASSUME NEW s \in Requests, NoteSuccess(s) PROVE pause'[rt].by = pause[rt].by
  BY <1>1, <1>4 DEF NoteSuccess
<1>5. ASSUME NEW s \in Requests, ClearResidue(s)
      PROVE  pause'[rt] = NoPause \/ pause'[rt] = pause[rt]
  BY <1>1, <1>5 DEF ClearResidue
<1>6. ASSUME NEW x \in Routes, ClearRoutePause(x)
      PROVE  pause'[rt] = NoPause \/ pause'[rt] = pause[rt]
  BY <1>1, <1>6 DEF ClearRoutePause
<1>7. NoPause.by = NoRequest BY DEF NoPause
<1>8. ASSUME NEW s \in Requests, Authenticate(s) \/ Handle(s),
             ~Cool(s), ~NoteSuccess(s), ~ClearResidue(s)
      PROVE  pause' = pause
  BY <1>8 DEF Handle, Authenticate, LoadRoutes, PickRoute, StartAttempt, Respond, Record
<1>9. CASE \E s \in Requests : Authenticate(s) \/ Handle(s)
  BY <1>2, <1>3, <1>4, <1>5, <1>7, <1>8, <1>9
<1>10. CASE \A s \in Requests : ~(Authenticate(s) \/ Handle(s))
  BY <1>2, <1>6, <1>7, <1>10 DEF Next, vars, ClientLeaves, Tick
<1> QED BY <1>9, <1>10

\* A cooldown already on account of the request stays earned.
LEMMA HandleUsedUp ==
    ASSUME TypeInv, TypeInv', NEW r \in Requests, NEW rt \in Routes,
           RoutesTold(req[r], Trail(r)), Handle(r), UsedUp(req[r], Trail(r), rt)
    PROVE  UsedUp(req[r], Trail(r), rt)'
<1> DEFINE q == req[r]
           p == req'[r]
           t == Trail(r)
<1>1. q \in Local /\ p \in Local /\ t \in Seq(RowType) BY TrailType DEF TypeInv, TypeOK
<1>2. p.policy = q.policy /\ rt \in p.tried BY PolicyStays DEF UsedUp
<1>3. \A e : Blamed(q, e) <=> Blamed(p, e) BY <1>2 DEF Blamed, Fails
<1>4. p.pc \in Working /\ p.route = rt => p.pc = "record" /\ LastTry(p)
  <2>1. CASE LoadRoutes(r) BY <2>1, LoadRoutesShape DEF Working
  <2>2. CASE PickRoute(r)
    <3>1. CASE p = Finished(q) BY <1>1, <3>1, EndingType DEF Working
    <3>2. CASE p.route \in Candidates(q, now)
      BY <1>1, <3>2, CandidatesSubset DEF UsedUp
    <3> QED BY <2>2, <3>1, <3>2, PickRouteShape
  <2>3. CASE StartAttempt(r) \/ Respond(r)
    BY <2>3, StartAttemptShape, RespondShape DEF SameVisit, UsedUp, Working
  <2>4. CASE Cool(r) \/ NoteSuccess(r) \/ ClearResidue(r)
    BY <2>4, RouteRowShape DEF SameVisit, UsedUp, Working
  <2>5. CASE Record(r)
    BY <2>5, RecordShape DEF UsedUp, Working
  <2> QED BY <2>1, <2>2, <2>3, <2>4, <2>5 DEF Handle
<1>5. CASE q.pc \in {"attempt", "sent"} /\ p.pc \in InFlight
  <2>1. Trail(r)' = Append(t, Row(p)) BY <1>5, TrailGrows
  <2>2. Row(p) \in RowType
    BY <1>1, <1>5, RowHasType DEF TypeInv, RouteChosen, InFlight, Working
  <2>3. p.route = q.route
    BY <1>5, StartAttemptShape, RespondShape
       DEF Handle, LoadRoutes, PickRoute, Cool, NoteSuccess, ClearResidue, Record, SameVisit
  <2>4. Row(p).route # rt BY <1>5, <2>3 DEF Row, UsedUp, Working
  <2> DEFINE e == Row(p)
             u == Append(t, e)
  <2>5. Here(u, rt) = Here(t, rt) /\ \A i \in Here(t, rt) : u[i] = t[i]
    <3>1. t \in Seq(RowType) /\ e \in RowType /\ e.route # rt BY <1>1, <2>2, <2>4
    <3> HIDE DEF e, t
    <3>2. Here(u, rt) = Here(t, rt) BY <3>1, AppendElsewhere
    <3>3. \A i \in Here(t, rt) : u[i] = t[i] BY <3>1, AppendedLog DEF Here
    <3> QED BY <3>2, <3>3
  <2> HIDE DEF u, t, p, q
  <2>6. UsedUp(p, u, rt) BY <1>2, <1>3, <1>4, <2>5 DEF UsedUp, t, q
  <2> QED BY <2>1, <2>6 DEF u, p
<1>6. CASE ~(q.pc \in {"attempt", "sent"} /\ p.pc \in InFlight)
  <2>1. Trail(r)' = t BY <1>6, TrailGrows
  <2> HIDE DEF t, p, q
  <2>2. UsedUp(p, t, rt) BY <1>2, <1>3, <1>4 DEF UsedUp, t, q
  <2> QED BY <2>1, <2>2 DEF p
<1> QED BY <1>5, <1>6

\* The step that writes the cooldown has earned it.
LEMMA CoolUsesUp ==
    ASSUME TypeInv, TypeInv', NEW r \in Requests, Cool(r),
           RoutesTold(req[r], Trail(r)), VisitCounted(req[r], Trail(r)),
           WithinBudget(req[r], Len(usage[r]))
    PROVE  UsedUp(req[r], Trail(r), req[r].route)'
<1> DEFINE q == req[r]
           p == req'[r]
           t == Trail(r)
           rt == q.route
<1>1. /\ q \in Local /\ SameVisit(q, p) /\ q.pc = "cool" /\ p.pc = "record"
      /\ q.tries \in Nat /\ q.policy.retries \in Nat
  <2>1. q \in Local BY DEF TypeInv, TypeOK
  <2>2. q.policy \in Policy /\ q.tries \in Nat BY <2>1 DEF Local
  <2> HIDE DEF q
  <2>3. q.policy.retries \in Nat BY <2>2 DEF Policy
  <2> QED BY <2>1, <2>2, <2>3, RouteRowShape DEF Cool, q
<1>2. Trail(r)' = t BY <1>1, TrailGrows DEF Handle
<1>3. Cools(q, q.out) /\ q.tries <= q.policy.retries
  BY <1>1 DEF VisitCounted, Working, WithinBudget
<1>4. q.tries = q.policy.retries BY <1>1, <1>3 DEF Cools, LastTry
<1>5. /\ Cardinality(Here(t, rt)) = q.tries + 1
      /\ \A i \in Here(t, rt) : i = Len(t) \/ Blamed(q, t[i])
  BY <1>1 DEF VisitCounted, Working, InFlight
<1>6. Blamed(q, t[Len(t)])
  <2>1. t[Len(t)].out = q.out BY <1>1 DEF RoutesTold, InFlight, Row
  <2> QED BY <1>3, <2>1 DEF Blamed, Cools
<1>7. rt \in q.tried BY <1>1 DEF RoutesTold, Working
<1>8. \A e : Blamed(q, e) <=> Blamed(p, e) BY <1>1 DEF Blamed, Fails, SameVisit
<1>9. LastTry(p) BY <1>1, <1>3 DEF LastTry, SameVisit, Cools
<1> HIDE DEF t, q, p
<1>10. UsedUp(p, t, rt)
  BY <1>1, <1>4, <1>5, <1>6, <1>7, <1>8, <1>9 DEF UsedUp, SameVisit
<1>11. p.route = rt BY <1>1 DEF SameVisit
<1> QED BY <1>2, <1>10, <1>11 DEF p

\* The count of tries follows the log.
LEMMA HandleVisitCounted ==
    ASSUME TypeInv, TypeInv', NEW r \in Requests, RoutesTold(req[r], Trail(r)),
           EndingTold(req[r], Trail(r)), VisitCounted(req[r], Trail(r)),
           Authenticate(r) \/ Handle(r)
    PROVE  VisitCounted(req[r], Trail(r))'
<1> DEFINE q == req[r]
           p == req'[r]
           t == Trail(r)
<1>1. q \in Local /\ p \in Local /\ t \in Seq(RowType) /\ q.tries \in Nat
  BY TrailType DEF TypeInv, TypeOK, Local
<1>2. CASE Authenticate(r) \/ LoadRoutes(r)
  BY <1>2, AuthenticateShape, LoadRoutesShape DEF VisitCounted, Working
<1>3. CASE PickRoute(r)
  <2>1. CASE p = Finished(q)
    BY <1>1, <2>1, EndingType DEF VisitCounted, Working
  <2>2. CASE p.route \in Candidates(q, now) /\ p.tries = 0 /\ p.pc = "attempt"
    <3>1. Trail(r)' = t BY <1>3, <2>2, TrailGrows DEF Handle, InFlight
    <3>2. p.route \notin q.tried BY <1>1, <2>2, CandidatesSubset
    <3>3. Here(t, p.route) = {} BY <3>2 DEF Here, RoutesTold
    <3>4. Cardinality(Here(t, p.route)) = 0 BY <3>3, FS_EmptySet
    <3> QED BY <2>2, <3>1, <3>3, <3>4 DEF VisitCounted, InFlight
  <2> QED BY <1>3, <2>1, <2>2, PickRouteShape
<1>4. CASE StartAttempt(r) \/ Respond(r)
  <2>1. /\ q.pc \in {"attempt", "sent"} /\ SameVisit(q, p)
        /\ p.pc \in {"sent", "done"} \cup InFlight
        /\ p.pc = "cool" => Cools(q, p.out)
    BY <1>4, StartAttemptShape, RespondShape DEF InFlight
  <2>2. \A e : Blamed(q, e) <=> Blamed(p, e) BY <2>1 DEF Blamed, Fails, SameVisit
  <2>3. /\ Cardinality(Here(t, q.route)) = q.tries
        /\ \A i \in Here(t, q.route) : Blamed(q, t[i])
    BY <1>1, <2>1 DEF VisitCounted, Working, InFlight
  <2>4. Cools(q, p.out) => Cools(p, p.out) BY <2>1 DEF Cools, Fails, LastTry, SameVisit
  <2>5. CASE p.pc \in InFlight
    <3>1. Row(p) \in RowType /\ Row(p).route = q.route
      BY <1>1, <2>1, <2>5, RowHasType
         DEF TypeInv, RouteChosen, InFlight, Working, SameVisit, Row
    <3> DEFINE e == Row(p)
               u == Append(t, e)
    <3>2. Trail(r)' = u BY <1>4, <2>1, <2>5, TrailGrows DEF Handle
    <3>3. /\ Cardinality(Here(u, q.route)) = q.tries + 1
          /\ \A i \in Here(u, q.route) : i = Len(u) \/ (i \in Here(t, q.route) /\ u[i] = t[i])
      <4>1. t \in Seq(RowType) /\ e \in RowType /\ e.route = q.route BY <1>1, <3>1
      <4> HIDE DEF e, t
      <4>2. /\ Here(u, q.route) = Here(t, q.route) \cup {Len(t) + 1}
            /\ Cardinality(Here(u, q.route)) = Cardinality(Here(t, q.route)) + 1
        BY <4>1, AppendHere
      <4>3. Len(u) = Len(t) + 1 /\ \A i \in Here(t, q.route) : u[i] = t[i]
        BY <4>1, AppendedLog DEF Here
      <4> QED BY <2>3, <4>2, <4>3
    <3> HIDE DEF u, t, p, q
    <3>4. VisitCounted(p, u)
      BY <2>1, <2>2, <2>3, <2>4, <2>5, <3>3 DEF VisitCounted, SameVisit
    <3> QED BY <3>2, <3>4 DEF p
  <2>6. CASE p.pc \notin InFlight
    <3>1. Trail(r)' = t BY <1>4, <2>1, <2>6, TrailGrows DEF Handle
    <3> HIDE DEF t, p, q
    <3>2. VisitCounted(p, t)
      BY <1>1, <2>1, <2>2, <2>3, <2>6 DEF VisitCounted, SameVisit, InFlight
    <3> QED BY <3>1, <3>2 DEF p
  <2> QED BY <2>5, <2>6
<1>5. CASE Cool(r) \/ NoteSuccess(r) \/ ClearResidue(r)
  <2>1. /\ SameVisit(q, p) /\ q.pc \in InFlight /\ p.pc \in InFlight /\ p.pc # "cool"
        /\ q.pc \in Working
    BY <1>5, RouteRowShape DEF InFlight, Working
  <2>2. Trail(r)' = t BY <1>5, <2>1, TrailGrows DEF InFlight, Handle
  <2>3. \A e : Blamed(q, e) <=> Blamed(p, e) BY <2>1 DEF Blamed, Fails, SameVisit
  <2> HIDE DEF p
  <2>4. VisitCounted(p, t) BY <2>1, <2>3 DEF VisitCounted, SameVisit
  <2> QED BY <2>2, <2>4 DEF p
<1>6. CASE Record(r)
  <2>1. Trail(r)' = t /\ q.pc = "record" BY <1>6, RecordShape, TrailGrows DEF Handle
  <2>2. CASE p.pc = "attempt"
    <3>1. /\ q.reply = "none" /\ q.out \notin {"canceled", "config"}
          /\ p.tries = q.tries + 1 /\ p.route = q.route /\ p.policy = q.policy
      BY <1>6, <2>2, RecordShape
    <3>2. \A e : Blamed(q, e) <=> Blamed(p, e) BY <3>1 DEF Blamed, Fails
    <3>3. t[Len(t)].out = q.out /\ q.reply = ReplyTo(q, q.out) /\ q.out # "none"
      BY <2>1 DEF EndingTold, InFlight, Row
    <3>4. Blamed(q, t[Len(t)])
      <4>1. q.out \in Outcome BY <1>1 DEF Local
      <4>2. Fails(q, q.out)
        BY <3>1, <3>3, <4>1 DEF ReplyTo, Fails, Outcome, Answer, Success
      <4> QED BY <3>1, <3>3, <4>2 DEF Blamed
    <3> HIDE DEF p
    <3>5. VisitCounted(p, t)
      <4>1. q.tries + 1 + 0 = q.tries + 1 /\ VisitCounted(q, t) BY <1>1
      <4> HIDE DEF q
      <4> QED BY <2>1, <2>2, <3>1, <3>2, <3>4, <4>1 DEF VisitCounted, InFlight, Working
    <3> QED BY <2>1, <3>5 DEF p
  <2>3. CASE p.pc \in {"done", "pick"} BY <2>3 DEF VisitCounted, Working
  <2> QED BY <1>6, <2>2, <2>3, RecordShape
<1> QED BY <1>2, <1>3, <1>4, <1>5, <1>6 DEF Handle

LEMMA InitEarn == Init => EarnInv
<1>1. \A r \in Requests : r # NoRequest BY DispatchAssumption
<1> QED BY <1>1 DEF Init, EarnInv, VisitCounted, NewRequest, Working, NoPause

LEMMA NextEarn ==
    TypeInv /\ TypeInv' /\ BudgetInv /\ StoryInv /\ EarnInv /\ [Next]_vars => EarnInv'
<1> SUFFICES ASSUME TypeInv, TypeInv', BudgetInv, StoryInv, EarnInv, [Next]_vars,
                    NEW s \in Requests
             PROVE  /\ VisitCounted(req[s], Trail(s))'
                    /\ \A rt \in Routes : pause'[rt].by = s => UsedUp(req[s], Trail(s), rt)'
  BY DEF EarnInv
<1>1. /\ RoutesTold(req[s], Trail(s)) /\ EndingTold(req[s], Trail(s))
      /\ VisitCounted(req[s], Trail(s)) /\ WithinBudget(req[s], Len(usage[s]))
      /\ \A rt \in Routes : pause[rt].by = s => UsedUp(req[s], Trail(s), rt)
  BY DEF StoryInv, EarnInv, BudgetInv
<1>2. CASE Authenticate(s)
  <2>1. VisitCounted(req[s], Trail(s))' BY <1>1, <1>2, HandleVisitCounted
  <2>2. req[s].tried = {} /\ ~Cool(s)
    BY <1>1, <1>2, AuthenticateShape DEF WithinBudget, Cool
  <2>3. ASSUME NEW rt \in Routes, pause'[rt].by = s PROVE FALSE
    BY <1>1, <2>2, <2>3, PausedBy DEF UsedUp
  <2> QED BY <2>1, <2>3
<1>3. CASE Handle(s)
  <2>1. VisitCounted(req[s], Trail(s))' BY <1>1, <1>3, HandleVisitCounted
  <2>2. ASSUME NEW rt \in Routes, pause'[rt].by = s PROVE UsedUp(req[s], Trail(s), rt)'
    <3>1. CASE pause[rt].by = s BY <1>1, <1>3, <3>1, HandleUsedUp
    <3>2. CASE Cool(s) /\ rt = req[s].route
      <4>1. UsedUp(req[s], Trail(s), req[s].route)' BY <1>1, <3>2, CoolUsesUp
      <4>2. req'[s].route = req[s].route BY <3>2, RouteRowShape DEF SameVisit
      <4> QED BY <3>2, <4>1, <4>2
    <3> QED BY <2>2, <3>1, <3>2, PausedBy
  <2> QED BY <2>1, <2>2
<1>4. CASE ~(Authenticate(s) \/ Handle(s))
  <2>1. req'[s] = req[s] /\ usage'[s] = usage[s]
    BY <1>4, OtherRequests, EnvironmentSteps
  <2>2. Trail(s)' = Trail(s) BY <2>1 DEF Trail
  <2>3. \A rt \in Routes : pause'[rt].by = s => pause[rt].by = s
    BY <1>4, PausedBy DEF Handle
  <2> QED BY <1>1, <2>1, <2>2, <2>3
<1> QED BY <1>2, <1>3, <1>4

\* A route is in cooldown on account of a request only if that request used up every try
\* it had there and each failed for a reason that is the upstream's
\* (SetTempUnschedulable in HandleForward), whatever other requests write to the same row.
THEOREM CooldownsEarned == Spec => []CooldownEarned
<1> DEFINE Inv == TypeInv /\ BudgetInv /\ StoryInv /\ EarnInv
<1>1. Init => Inv BY InitTypeInv, InitBudget, InitStory, InitEarn
<1>2. Inv /\ [Next]_vars => Inv' BY NextTypeInv, NextBudget, NextStory, NextEarn
<1>3. Inv => CooldownEarned
  BY DEF EarnInv, CooldownEarned, UsedUp, Here, Blamed
<1> QED BY <1>1, <1>2, <1>3, PTL DEF Spec

-----------------------------------------------------------------------------
(* The streak of successes on a route *)

\* The witness of StreakSettles for a route: a request between the two statements
\* of NoteSuccessForPauseError.
Settling(rt) == \E r \in Requests : req[r].pc = "clear" /\ req[r].route = rt

\* Only its own second statement moves such a request on.
LEMMA SettlingStays ==
    ASSUME TypeInv, NEW rt, Settling(rt), [Next]_vars,
           \A r \in Requests : ClearResidue(r) => req[r].route # rt
    PROVE  Settling(rt)'
<1>1. PICK s \in Requests : req[s].pc = "clear" /\ req[s].route = rt BY DEF Settling
<1> SUFFICES req'[s].pc = "clear" /\ req'[s].route = rt
  BY DEF Settling
<1>2. ASSUME NEW r \in Requests, Authenticate(r) \/ Handle(r) PROVE req'[s] = req[s]
  <2>1. CASE r # s BY <1>2, <2>1, OtherRequests
  <2>2. CASE r = s
    BY <1>1, <1>2, <2>2 DEF Handle, Authenticate, LoadRoutes, PickRoute, StartAttempt,
                            Respond, Cool, NoteSuccess, Record
  <2> QED BY <2>1, <2>2
<1>3. CASE \A r \in Requests : ~(Authenticate(r) \/ Handle(r))
  BY <1>1, <1>3, EnvironmentSteps
<1> QED BY <1>1, <1>2, <1>3

\* A row whose streak is full either just got there, by the first statement of a request
\* that has yet to execute the second, or was full before.
LEMMA StreakFills ==
    ASSUME TypeInv, NEW rt \in Routes, [Next]_vars, pause'[rt].streak >= ClearStreak
    PROVE  \/ \E r \in Requests : NoteSuccess(r) /\ req[r].route = rt
           \/ /\ pause[rt].streak >= ClearStreak
              /\ \A r \in Requests : ClearResidue(r) => req[r].route # rt
<1>1. ClearStreak \in Nat \ {0} BY DispatchAssumption
<1>2. pause \in [Routes -> [until : Nat, by : Requests \cup {NoRequest}, streak : Nat]]
  BY DEF TypeInv, TypeOK
<1>3. ASSUME NEW r \in Requests, NoteSuccess(r), req[r].route # rt
      PROVE  pause'[rt] = pause[rt]
  BY <1>2, <1>3 DEF NoteSuccess
<1>4. ASSUME NEW r \in Requests, ClearResidue(r), req[r].route = rt PROVE FALSE
  <2>1. pause'[rt] = IF pause[rt].streak >= ClearStreak THEN NoPause ELSE pause[rt]
    BY <1>2, <1>4 DEF ClearResidue
  <2>2. pause[rt].streak \in Nat BY <1>2
  <2> QED BY <1>1, <2>1, <2>2 DEF NoPause
<1>5. ASSUME NEW r \in Requests, Cool(r) PROVE pause'[rt] = pause[rt]
  <2> DEFINE e == [until |-> now + req[r].policy.cooldown, by |-> r, streak |-> 0]
  <2>1. pause' = [pause EXCEPT ![req[r].route] = e] BY <1>5 DEF Cool
  <2>2. e.streak = 0 OBVIOUS
  <2> HIDE DEF e
  <2>3. CASE req[r].route = rt BY <1>1, <1>2, <2>1, <2>2, <2>3
  <2>4. CASE req[r].route # rt BY <1>2, <2>1, <2>4
  <2> QED BY <2>3, <2>4
<1>6. ASSUME NEW x \in Routes, ClearRoutePause(x) PROVE pause'[rt] = pause[rt]
  BY <1>1, <1>2, <1>6 DEF ClearRoutePause, NoPause
<1>7. ASSUME NEW r \in Requests, ClearResidue(r), req[r].route # rt PROVE pause'[rt] = pause[rt]
  BY <1>2, <1>7 DEF ClearResidue
<1>8. \/ pause'[rt] = pause[rt]
      \/ \E r \in Requests : NoteSuccess(r) /\ req[r].route = rt
  <2>1. ASSUME NEW r \in Requests, Authenticate(r) \/ Handle(r)
        PROVE  pause'[rt] = pause[rt] \/ (NoteSuccess(r) /\ req[r].route = rt)
    BY <1>3, <1>4, <1>5, <1>7, <2>1
       DEF Handle, Authenticate, LoadRoutes, PickRoute, StartAttempt, Respond, Record
  <2> QED BY <1>6, <2>1 DEF Next, vars, ClientLeaves, Tick
<1> QED BY <1>4, <1>8

\* The error on display goes away as soon as enough successes are counted
\* (NoteSuccessForPauseError, two statements that other requests, cooldowns and the
\* administrator's button may fall between): a route with a full streak always has a request
\* that is about to clear it.
THEOREM StreaksSettle == Spec => []StreakSettles
<1>1. Init => TypeInv /\ StreakSettles
  <2>1. Init => StreakSettles
    BY DispatchAssumption DEF Init, StreakSettles, NoPause
  <2> QED BY <2>1, InitTypeInv
<1>2. TypeInv /\ StreakSettles /\ [Next]_vars => (TypeInv /\ StreakSettles)'
  <2> SUFFICES ASSUME TypeInv, StreakSettles, [Next]_vars,
                      NEW rt \in Routes, pause'[rt].streak >= ClearStreak
               PROVE  Settling(rt)'
    BY NextTypeInv DEF StreakSettles, Settling
  <2>1. ASSUME NEW r \in Requests, NoteSuccess(r), req[r].route = rt PROVE Settling(rt)'
    <3>1. req'[r].pc = "clear" /\ req'[r].route = rt
      BY <2>1 DEF NoteSuccess, TypeInv, TypeOK, Local
    <3> QED BY <3>1 DEF Settling
  <2>2. CASE /\ pause[rt].streak >= ClearStreak
             /\ \A r \in Requests : ClearResidue(r) => req[r].route # rt
    <3>1. Settling(rt) BY <2>2 DEF StreakSettles, Settling
    <3> QED BY <2>2, <3>1, SettlingStays
  <2> QED BY <2>1, <2>2, StreakFills
<1> QED BY <1>1, <1>2, PTL DEF Spec
=============================================================================
