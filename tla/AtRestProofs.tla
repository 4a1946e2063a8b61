------------------------------ MODULE AtRestProofs ------------------------------
(***************************************************************************)
(* The machines of MCAtRest, each for any of its constants.                *)
(*   - The cooldown of an alert, for any number of checks and targets, any *)
(*     cooldown, and checks of any length.  OneRoundPerWindow is inductive *)
(*     next to the types: the row, younger than every round under way, is  *)
(*     what keeps the next one a cooldown away from all of them.           *)
(*   - The page of the groups, for any groups, requests and clicks: who    *)
(*     holds the buttons, what the latest load still owes the panels, and  *)
(*     of whom an answer may speak (DetailInv).                            *)
(*   - The types of the session of a browser's tabs.                       *)
(***************************************************************************)
EXTENDS MCAtRest, TLAPS

Job == [pc : {"idle", "update", "insert", "list", "send"}, age : 0..Lifetime,
        sure : BOOLEAN, todo : SUBSET Targets,
        target : Targets \cup {NoTarget}, tries : 0..MaxAttempts - 1]

CooldownInv == TypeOK /\ OneRoundPerWindow

\* A round is under way, with a claim that went well.
Sends(w) == w.pc \in {"list", "send"} /\ w.sure /\ Cooldown > 0

\* The property, of each check and each two of them.
LEMMA RoundsApart ==
    OneRoundPerWindow <=>
        /\ \A s, t \in Checks : Sends(job[s]) /\ Sends(job[t]) /\ s # t =>
              job[s].age - job[t].age > Cooldown \/ job[t].age - job[s].age > Cooldown
        /\ \A s \in Checks : Sends(job[s]) => claim # NoClaim /\ claim <= job[s].age
BY DEF OneRoundPerWindow, Sends

LEMMA Numbers ==
    ASSUME CooldownAssumption
    PROVE  /\ Cooldown \in Nat /\ Lifetime \in Nat /\ MaxAttempts \in Nat /\ MaxFaults \in Nat
           /\ MaxAttempts > 0 /\ Oldest = Cooldown + Lifetime + 1 /\ Oldest \in Nat
           /\ NoTarget \notin Targets
BY DEF CooldownAssumption, Oldest

LEMMA IdleIsJob == ASSUME CooldownAssumption PROVE Idle \in Job /\ ~Sends(Idle)
BY Numbers DEF Idle, Job, Sends

\* A step of one goroutine that begins no round: it is not in one, or goes on with its own.
LEMMA RoundGoesOn ==
    ASSUME CooldownAssumption, CooldownInv, NEW s \in Checks, NEW w \in Job,
           job' = [job EXCEPT ![s] = w], claim' = claim,
           Sends(w) => Sends(job[s]) /\ w.age = job[s].age,
           up' \subseteq Targets, since' \in [Targets -> 0..Oldest], faults' \in 0..MaxFaults
    PROVE  CooldownInv'
<1>1. job \in [Checks -> Job] /\ claim \in 0..Oldest \cup {NoClaim}
  BY DEF CooldownInv, TypeOK, Job
<1>2. job' \in [Checks -> Job] /\ job'[s] = w /\ \A t \in Checks \ {s} : job'[t] = job[t]
  BY <1>1
<1>3. TypeOK' BY <1>1, <1>2 DEF TypeOK, Job
<1>4. \A t \in Checks : Sends(job'[t]) => Sends(job[t]) /\ job'[t].age = job[t].age
  BY <1>2
<1>5. /\ \A t, u \in Checks : Sends(job[t]) /\ Sends(job[u]) /\ t # u =>
             job[t].age - job[u].age > Cooldown \/ job[u].age - job[t].age > Cooldown
      /\ \A t \in Checks : Sends(job[t]) => claim # NoClaim /\ claim <= job[t].age
  BY RoundsApart DEF CooldownInv
<1>6. /\ \A t, u \in Checks : Sends(job'[t]) /\ Sends(job'[u]) /\ t # u =>
             job'[t].age - job'[u].age > Cooldown \/ job'[u].age - job'[t].age > Cooldown
      /\ \A t \in Checks : Sends(job'[t]) => claim' # NoClaim /\ claim' <= job'[t].age
  BY <1>4, <1>5
<1>7. OneRoundPerWindow'
  BY <1>6 DEF OneRoundPerWindow, Sends
<1> QED BY <1>3, <1>7 DEF CooldownInv

\* A goroutine claims the row: all rounds under way are more than a cooldown older.
LEMMA RoundBegins ==
    ASSUME CooldownAssumption, CooldownInv, NEW s \in Checks, NEW w \in Job,
           job' = [job EXCEPT ![s] = w], claim' = w.age,
           ~Sends(job[s]),
           claim = NoClaim \/ claim - w.age > Cooldown,
           UNCHANGED <<up, since, faults>>
    PROVE  CooldownInv'
<1>1. job \in [Checks -> Job] /\ claim \in 0..Oldest \cup {NoClaim} /\ Oldest \in Nat
      /\ Cooldown \in Nat /\ Lifetime \in Nat /\ Oldest = Cooldown + Lifetime + 1
  BY Numbers DEF CooldownInv, TypeOK, Job
<1>2. job' \in [Checks -> Job] /\ job'[s] = w /\ \A t \in Checks \ {s} : job'[t] = job[t]
  BY <1>1
<1>3. w.age \in 0..Lifetime /\ \A t \in Checks : job[t].age \in 0..Lifetime
  <2>1. \A x \in Job : x.age \in 0..Lifetime BY DEF Job
  <2> QED BY <1>1, <2>1
<1>4. w.age \in 0..Oldest BY <1>1, <1>3
<1>5. TypeOK' BY <1>1, <1>2, <1>4 DEF CooldownInv, TypeOK, Job
<1>6. /\ \A t, u \in Checks : Sends(job[t]) /\ Sends(job[u]) /\ t # u =>
             job[t].age - job[u].age > Cooldown \/ job[u].age - job[t].age > Cooldown
      /\ \A t \in Checks : Sends(job[t]) => claim # NoClaim /\ claim <= job[t].age
  BY RoundsApart DEF CooldownInv
<1>7. \A t \in Checks \ {s} : Sends(job[t]) => job[t].age - w.age > Cooldown
  <2> SUFFICES ASSUME NEW t \in Checks \ {s}, Sends(job[t]) PROVE job[t].age - w.age > Cooldown
    OBVIOUS
  <2>1. claim - w.age > Cooldown /\ claim <= job[t].age /\ claim \in 0..Oldest
    BY <1>1, <1>6
  <2> QED BY <1>1, <1>3, <2>1
<1>8. \A t \in Checks \ {s} : Sends(job'[t]) => claim' # NoClaim /\ claim' <= job'[t].age
  BY <1>1, <1>2, <1>3, <1>7 DEF NoClaim
<1>9. claim' # NoClaim /\ claim' <= job'[s].age BY <1>2, <1>3 DEF NoClaim
<1>10. \A t, u \in Checks : Sends(job'[t]) /\ Sends(job'[u]) /\ t # u =>
             job'[t].age - job'[u].age > Cooldown \/ job'[u].age - job'[t].age > Cooldown
  <2> SUFFICES ASSUME NEW t \in Checks, NEW u \in Checks, Sends(job'[t]), Sends(job'[u]), t # u
               PROVE  job'[t].age - job'[u].age > Cooldown \/ job'[u].age - job'[t].age > Cooldown
    OBVIOUS
  <2>1. CASE t = s BY <1>2, <1>7, <2>1
  <2>2. CASE u = s BY <1>2, <1>7, <2>2
  <2>3. CASE t # s /\ u # s BY <1>2, <1>6, <2>3
  <2> QED BY <2>1, <2>2, <2>3
<1>11. OneRoundPerWindow' BY <1>8, <1>9, <1>10 DEF OneRoundPerWindow, Sends
<1> QED BY <1>5, <1>11 DEF CooldownInv

\* To the next target, or home.
LEMMA TurnStep ==
    ASSUME CooldownAssumption, CooldownInv, NEW s \in Checks, job[s].pc \in {"list", "send"},
           NEW left \in SUBSET Targets, TurnTo(s, left), claim' = claim,
           up' \subseteq Targets, since' \in [Targets -> 0..Oldest], faults' \in 0..MaxFaults
    PROVE  CooldownInv'
<1> DEFINE w == job[s]
<1>1. job \in [Checks -> Job] /\ w \in Job BY DEF CooldownInv, TypeOK, Job
<1>2. CASE left = {} BY <1>2, IdleIsJob, RoundGoesOn DEF TurnTo
<1>3. CASE left # {}
  <2>1. PICK t \in left : job' = [job EXCEPT ![s].pc = "send", ![s].todo = left \ {t},
                                             ![s].target = t, ![s].tries = 0]
    BY <1>3 DEF TurnTo
  <2> DEFINE x == [w EXCEPT !.pc = "send", !.todo = left \ {t}, !.target = t, !.tries = 0]
  <2>2. job' = [job EXCEPT ![s] = x] BY <1>1, <2>1
  <2>3. 0 \in 0..MaxAttempts - 1 BY Numbers
  <2>4. x \in Job /\ x.age = w.age /\ x.sure = w.sure /\ x.pc = "send" BY <1>1, <2>3 DEF Job
  <2> HIDE DEF x
  <2>5. Sends(x) => Sends(w) /\ x.age = w.age BY <2>4 DEF Sends
  <2> QED BY <2>2, <2>4, <2>5, RoundGoesOn
<1> QED BY <1>2, <1>3

LEMMA CheckStep ==
    ASSUME CooldownAssumption, CooldownInv, NEW s \in Checks, Check(s) \/ Step(s)
    PROVE  CooldownInv'
<1> DEFINE w == job[s]
<1>1. /\ job \in [Checks -> Job] /\ w \in Job /\ up \subseteq Targets
      /\ since \in [Targets -> 0..Oldest] /\ faults \in 0..MaxFaults
      /\ claim \in 0..Oldest \cup {NoClaim}
  BY DEF CooldownInv, TypeOK, Job
<1>2. /\ Cooldown \in Nat /\ Lifetime \in Nat /\ MaxAttempts \in Nat /\ MaxFaults \in Nat
      /\ MaxAttempts > 0 /\ Oldest \in Nat
  BY Numbers
<1>3. CASE Check(s)
  <2> DEFINE p == IF Cooldown = 0 THEN "list" ELSE "update"
             x == [w EXCEPT !.pc = p, !.age = 0]
  <2>1. job' = [job EXCEPT ![s] = x] BY <1>1, <1>3 DEF Check
  <2>2. p \in {"list", "update"} /\ (p = "list" => Cooldown = 0) OBVIOUS
  <2>3. 0 \in 0..Lifetime BY <1>2
  <2> HIDE DEF p
  <2>4. x \in Job /\ x.pc = p BY <1>1, <2>2, <2>3 DEF Job
  <2> HIDE DEF x
  <2>5. ~Sends(x) BY <2>2, <2>4 DEF Sends
  <2>6. UNCHANGED <<claim, up, since, faults>> BY <1>3 DEF Check
  <2> QED BY <1>1, <2>1, <2>4, <2>5, <2>6, RoundGoesOn
<1>4. CASE Update(s)
  <2> DEFINE expired == claim # NoClaim /\ claim - w.age > Cooldown
             p == IF expired THEN "list" ELSE "insert"
             x == [w EXCEPT !.pc = p]
  <2>1. /\ w.pc = "update" /\ claim' = (IF expired THEN w.age ELSE claim)
        /\ job' = [job EXCEPT ![s] = x] /\ UNCHANGED <<up, since, faults>>
    BY <1>4 DEF Update, At
  <2>2. p \in {"list", "insert"} /\ (~expired => p = "insert") OBVIOUS
  <2> HIDE DEF p
  <2>3. x \in Job /\ x.age = w.age /\ x.pc = p BY <1>1, <2>2 DEF Job
  <2> HIDE DEF x
  <2>4. CASE expired
    <3>1. ~Sends(w) BY <2>1 DEF Sends
    <3> QED BY <2>1, <2>3, <2>4, <3>1, RoundBegins
  <2>5. CASE ~expired
    <3>1. ~Sends(x) BY <2>2, <2>3, <2>5 DEF Sends
    <3> QED BY <1>1, <2>1, <2>3, <2>5, <3>1, RoundGoesOn
  <2> QED BY <2>4, <2>5
<1>5. CASE Insert(s)
  <2>1. w.pc = "insert" /\ UNCHANGED <<up, since, faults>> BY <1>5 DEF Insert, At
  <2>2. CASE claim = NoClaim
    <3> DEFINE x == [w EXCEPT !.pc = "list"]
    <3>1. claim' = w.age /\ job' = [job EXCEPT ![s] = x] BY <1>5, <2>2 DEF Insert
    <3>2. x \in Job /\ x.age = w.age BY <1>1 DEF Job
    <3>3. ~Sends(w) BY <2>1 DEF Sends
    <3> HIDE DEF x
    <3> QED BY <2>1, <2>2, <3>1, <3>2, <3>3, RoundBegins
  <2>3. CASE claim # NoClaim
    <3>1. claim' = claim /\ job' = [job EXCEPT ![s] = Idle] BY <1>5, <2>3 DEF Insert
    <3> QED BY <1>1, <2>1, <3>1, IdleIsJob, RoundGoesOn
  <2> QED BY <2>2, <2>3
<1>6. CASE ClaimFails(s)
  <2> DEFINE x == [w EXCEPT !.pc = "list", !.sure = FALSE]
  <2>1. /\ job' = [job EXCEPT ![s] = x] /\ UNCHANGED <<claim, up, since>>
        /\ faults' = faults + 1 /\ faults < MaxFaults
    BY <1>1, <1>6 DEF ClaimFails
  <2>2. x \in Job /\ x.sure = FALSE BY <1>1 DEF Job
  <2>3. faults' \in 0..MaxFaults BY <1>1, <1>2, <2>1
  <2> HIDE DEF x
  <2>4. ~Sends(x) BY <2>2 DEF Sends
  <2> QED BY <1>1, <2>1, <2>2, <2>3, <2>4, RoundGoesOn
<1>7. CASE List(s)
  BY <1>1, <1>7, TurnStep DEF List, At
<1>8. CASE Deliver(s)
  <2>1. w.todo \in SUBSET Targets BY <1>1 DEF Job
  <2>2. since' \in [Targets -> 0..Oldest] BY <1>1, <1>2, <1>8 DEF Deliver
  <2> QED BY <1>1, <1>8, <2>1, <2>2, TurnStep DEF Deliver, At
<1>9. CASE Fail(s)
  <2>1. w.todo \in SUBSET Targets /\ w.tries \in 0..MaxAttempts - 1 BY <1>1 DEF Job
  <2>2. w.pc = "send" /\ UNCHANGED <<claim, up, since, faults>> BY <1>9 DEF Fail, At
  <2>3. CASE w.tries + 1 < MaxAttempts
    <3> DEFINE x == [w EXCEPT !.tries = @ + 1]
    <3>1. job' = [job EXCEPT ![s] = x] BY <1>1, <1>9, <2>3 DEF Fail
    <3>2. w.tries + 1 \in 0..MaxAttempts - 1 BY <1>2, <2>1, <2>3
    <3>3. x \in Job /\ x.age = w.age /\ x.pc = w.pc /\ x.sure = w.sure BY <1>1, <3>2 DEF Job
    <3> HIDE DEF x
    <3>4. Sends(x) => Sends(w) BY <3>3 DEF Sends
    <3> QED BY <1>1, <2>2, <3>1, <3>3, <3>4, RoundGoesOn
  <2>4. CASE ~(w.tries + 1 < MaxAttempts)
    <3>1. TurnTo(s, w.todo) BY <1>9, <2>4 DEF Fail
    <3> QED BY <1>1, <2>1, <2>2, <3>1, TurnStep
  <2> QED BY <2>3, <2>4
<1>10. CASE Expire(s)
  <2>1. /\ job' = [job EXCEPT ![s] = Idle] /\ UNCHANGED <<claim, up, since>>
        /\ faults' = faults + 1 /\ faults < MaxFaults
    BY <1>10 DEF Expire
  <2>2. faults' \in 0..MaxFaults BY <1>1, <1>2, <2>1
  <2> QED BY <1>1, <2>1, <2>2, IdleIsJob, RoundGoesOn
<1> QED BY <1>3, <1>4, <1>5, <1>6, <1>7, <1>8, <1>9, <1>10 DEF Step

\* The row and the rounds under way grow older together.
LEMMA TickStep == ASSUME CooldownAssumption, CooldownInv, Tick PROVE CooldownInv'
<1>1. /\ job \in [Checks -> Job] /\ up \subseteq Targets
      /\ since \in [Targets -> 0..Oldest] /\ faults \in 0..MaxFaults
      /\ claim \in 0..Oldest \cup {NoClaim}
  BY DEF CooldownInv, TypeOK, Job
<1>2. Oldest \in Nat /\ Lifetime \in Nat /\ Cooldown \in Nat BY Numbers
<1>3. \A n \in 0..Oldest : Older(n) \in 0..Oldest /\ Older(n) <= n + 1 /\ Older(n) # NoClaim
  BY <1>2 DEF Older, NoClaim
<1>4. /\ claim' \in 0..Oldest \cup {NoClaim}
      /\ claim # NoClaim => claim' # NoClaim /\ claim' <= claim + 1
  BY <1>1, <1>3 DEF Tick
<1>5. since' \in [Targets -> 0..Oldest] BY <1>1, <1>3 DEF Tick
<1>6. \A s \in Checks :
        /\ job[s].age \in 0..Lifetime /\ job'[s].age \in 0..Lifetime /\ job'[s] \in Job
        /\ job[s].pc = "idle" => job'[s] = job[s]
        /\ job[s].pc # "idle" =>
             job'[s].age = job[s].age + 1 /\ job'[s].pc = job[s].pc /\ job'[s].sure = job[s].sure
  <2> SUFFICES ASSUME NEW s \in Checks
               PROVE  /\ job[s].age \in 0..Lifetime /\ job'[s].age \in 0..Lifetime /\ job'[s] \in Job
                      /\ job[s].pc = "idle" => job'[s] = job[s]
                      /\ job[s].pc # "idle" => /\ job'[s].age = job[s].age + 1
                                               /\ job'[s].pc = job[s].pc /\ job'[s].sure = job[s].sure
    OBVIOUS
  <2> DEFINE w == job[s]
             x == [w EXCEPT !.age = @ + 1]
  <2>1. w \in Job /\ w.age \in 0..Lifetime BY <1>1 DEF Job
  <2>2. w.age + 1 \in 0..Lifetime BY <1>2, <2>1 DEF Tick
  <2>3. job'[s] = IF w.pc = "idle" THEN w ELSE x BY DEF Tick, At
  <2>4. x \in Job /\ x.age = w.age + 1 /\ x.pc = w.pc /\ x.sure = w.sure BY <2>1, <2>2 DEF Job
  <2> HIDE DEF x, w
  <2>5. w.pc = "idle" \/ w.pc # "idle" OBVIOUS
  <2> QED BY <2>1, <2>2, <2>3, <2>4, <2>5 DEF w
<1>7. \A s \in Checks : Sends(job'[s]) => Sends(job[s]) /\ job'[s].age = job[s].age + 1
  BY <1>6 DEF Sends
<1>8. TypeOK'
  <2>1. job' \in [Checks -> Job]
    <3>1. job' = [s \in Checks |-> job'[s]] BY DEF Tick
    <3> QED BY <1>6, <3>1
  <2> QED BY <1>1, <1>4, <1>5, <2>1 DEF TypeOK, Job, Tick
<1>9. /\ \A t, u \in Checks : Sends(job[t]) /\ Sends(job[u]) /\ t # u =>
             job[t].age - job[u].age > Cooldown \/ job[u].age - job[t].age > Cooldown
      /\ \A t \in Checks : Sends(job[t]) => claim # NoClaim /\ claim <= job[t].age
  BY RoundsApart DEF CooldownInv
<1>10. \A t, u \in Checks : Sends(job'[t]) /\ Sends(job'[u]) /\ t # u =>
             job'[t].age - job'[u].age > Cooldown \/ job'[u].age - job'[t].age > Cooldown
  BY <1>2, <1>6, <1>7, <1>9
<1>11. \A t \in Checks : Sends(job'[t]) => claim' # NoClaim /\ claim' <= job'[t].age
  BY <1>1, <1>2, <1>4, <1>6, <1>7, <1>9
<1>12. OneRoundPerWindow' BY <1>10, <1>11 DEF OneRoundPerWindow, Sends
<1> QED BY <1>8, <1>12 DEF CooldownInv

LEMMA InitCooldown == ASSUME CooldownAssumption, Init PROVE CooldownInv
<1>1. Idle \in Job /\ ~Sends(Idle) BY IdleIsJob
<1>2. Oldest \in 0..Oldest /\ 0 \in 0..MaxFaults BY Numbers
<1>3. TypeOK BY <1>1, <1>2 DEF Init, TypeOK, Job
<1>4. OneRoundPerWindow BY <1>1, RoundsApart DEF Init
<1> QED BY <1>3, <1>4 DEF CooldownInv

LEMMA NextCooldown == CooldownAssumption /\ CooldownInv /\ [Next]_vars => CooldownInv'
<1> SUFFICES ASSUME CooldownAssumption, CooldownInv, [Next]_vars PROVE CooldownInv'
  OBVIOUS
<1>1. ASSUME NEW t \in Targets, GoDown(t) \/ ComeUp(t) PROVE CooldownInv'
  <2>1. UNCHANGED <<claim, job, since>> BY <1>1 DEF GoDown, ComeUp
  <2>2. up' \subseteq Targets /\ faults' \in 0..MaxFaults
    BY <1>1, Numbers DEF GoDown, ComeUp, CooldownInv, TypeOK
  <2>3. TypeOK' BY <2>1, <2>2 DEF CooldownInv, TypeOK
  <2> QED BY <2>1, <2>3 DEF CooldownInv, OneRoundPerWindow
<1>2. CASE UNCHANGED vars BY <1>2 DEF vars, CooldownInv, TypeOK, OneRoundPerWindow
<1> QED BY <1>1, <1>2, CheckStep, TickStep DEF Next

\* Everything keeps its type: the ages stay in the range the cooldown is told from, and an
\* alert has no more than its SendMaxAttempts at a target.
THEOREM TypeCorrect == ASSUME CooldownAssumption PROVE Spec => []TypeOK
<1>1. CooldownInv => TypeOK BY DEF CooldownInv
<1> QED BY <1>1, InitCooldown, NextCooldown, PTL DEF Spec

\* However checks interleave between the two statements of a claim (TryClaimCooldown), two
\* rounds that were both claimed are more than a cooldown apart.
THEOREM RoundsAreApart == ASSUME CooldownAssumption PROVE Spec => []OneRoundPerWindow
<1>1. CooldownInv => OneRoundPerWindow BY DEF CooldownInv
<1> QED BY <1>1, InitCooldown, NextCooldown, PTL DEF Spec

-----------------------------------------------------------------------------
(* The page of the groups.  A request that has a number, cur or stale, is a *)
(* load of the keys or the routes and holds no button; the latest ones are  *)
(* of the current group.  A current group whose routes are not there is     *)
(* waited for behind the veil, or its load has failed and said so.          *)

PageTypes == Detail!DetailAssumption /\ Detail!TypeOK

\* What a request under way may be.
Sensible(c) ==
    /\ c \in Detail!Call
    /\ c.tag # "free" => c.op \in {"keys", "routes"} /\ ~c.holds
    /\ c.op = "refreshAll" => ~c.holds
    /\ c.op \notin {"groups", "refreshAll", "createGroup"} => c.of \in Groups

\* The latest loads are of the current group.
Latest(c) == c.tag = "cur" => c.of = Detail!Current

\* At most one of the requests cs holds the buttons, and they are locked if one does.
Held(cs, b) ==
    /\ b <=> \E c \in cs : c.holds
    /\ \A c, d \in cs : c.holds /\ d.holds => c = d

\* The load of the routes that the veil is down for.
Owes(c) == c.op = "routes" /\ c.tag = "cur"
Owed == \E c \in calls : Owes(c)
RoutesKnown ==
    Detail!Current # Nothing => panel["routes"] # Nothing \/ unloaded \/ (groupLoading /\ Owed)

DetailInv ==
    /\ PageTypes
    /\ \A c \in calls : Sensible(c) /\ Latest(c)
    /\ Held(calls, busy)
    /\ RoutesKnown

\* The requests.
LEMMA CallTypes ==
    ASSUME PageTypes, NEW op \in Detail!BusyOps \cup Detail!FreeOps, NEW g \in Groups \cup {Nothing},
           NEW tag \in {"cur", "stale", "free"}
    PROVE  LET c == Detail!NewCall(op, g, tag) IN
           /\ c \in Detail!Call /\ c.op = op /\ c.of = g /\ c.tag = tag /\ ~c.served
           /\ c.holds <=> op \in Detail!BusyOps
<1> DEFINE c == Detail!NewCall(op, g, tag)
           h == op \in Detail!BusyOps
           was == IF op = "refreshAll" THEN selected ELSE Nothing
<1>1. c = [op |-> op, of |-> g, tag |-> tag, holds |-> h, was |-> was, served |-> FALSE, seen |-> {}]
  BY DEF Detail!NewCall
<1>2. h \in BOOLEAN /\ was \in Groups \cup {Nothing} BY DEF PageTypes, Detail!TypeOK
<1>3. c.op = op /\ c.of = g /\ c.tag = tag /\ c.holds = h /\ ~c.served BY <1>1
<1> HIDE DEF h, was
<1>4. c \in Detail!Call BY <1>1, <1>2 DEF Detail!Call
<1> QED BY <1>3, <1>4 DEF h

LEMMA LoadIsSensible ==
    ASSUME PageTypes, NEW op \in {"keys", "routes"}, NEW g \in Groups, NEW tag \in {"cur", "free"}
    PROVE  LET c == Detail!NewCall(op, g, tag) IN
           Sensible(c) /\ ~c.holds /\ c.of = g /\ c.op = op /\ c.tag = tag
<1> DEFINE c == Detail!NewCall(op, g, tag)
<1>1. op \in Detail!FreeOps /\ op \notin Detail!BusyOps BY DEF Detail!BusyOps, Detail!FreeOps
<1>2. /\ c \in Detail!Call /\ c.op = op /\ c.of = g /\ c.tag = tag
      /\ c.holds <=> op \in Detail!BusyOps
  BY <1>1, CallTypes
<1> HIDE DEF c
<1>3. Sensible(c) /\ ~c.holds BY <1>1, <1>2 DEF Sensible
<1> QED BY <1>2, <1>3 DEF c

\* A change of the selection ends what is the latest, and frees or locks no button.
LEMMA OutdatedCalls ==
    ASSUME NEW cs, \A c \in cs : Sensible(c), NEW b, Held(cs, b)
    PROVE  /\ \A d \in Detail!Outdated(cs) : Sensible(d) /\ d.tag # "cur"
           /\ Held(Detail!Outdated(cs), b)
<1> DEFINE Old(c) == IF c.tag = "cur" THEN [c EXCEPT !.tag = "stale"] ELSE c
<1>1. Detail!Outdated(cs) = {Old(c) : c \in cs} BY DEF Detail!Outdated
<1>2. ASSUME NEW c \in cs
      PROVE  Sensible(Old(c)) /\ Old(c).tag # "cur" /\ Old(c).holds = c.holds
  <2>1. c \in Detail!Call BY DEF Sensible
  <2> DEFINE d == [c EXCEPT !.tag = "stale"]
  <2>2. d \in Detail!Call /\ d.tag = "stale" /\ d.op = c.op /\ d.of = c.of /\ d.holds = c.holds
    BY <2>1 DEF Detail!Call
  <2> HIDE DEF d
  <2>3. CASE c.tag = "cur"
    <3>1. Sensible(d) BY <2>2, <2>3 DEF Sensible
    <3> QED BY <2>2, <2>3, <3>1 DEF d
  <2> QED BY <2>3
<1> HIDE DEF Old
<1>3. \A d \in Detail!Outdated(cs) : Sensible(d) /\ d.tag # "cur"
  BY <1>1, <1>2
<1>4. b <=> \E d \in Detail!Outdated(cs) : d.holds
  BY <1>1, <1>2 DEF Held
<1>5. ASSUME NEW d \in Detail!Outdated(cs), NEW e \in Detail!Outdated(cs), d.holds, e.holds
      PROVE  d = e
  <2>1. PICK x \in cs, y \in cs : d = Old(x) /\ e = Old(y) BY <1>1
  <2>2. x.holds /\ y.holds BY <1>2, <1>5, <2>1
  <2> QED BY <2>1, <2>2 DEF Held
<1> QED BY <1>3, <1>4, <1>5 DEF Held

\* A step that leaves the selection and the list alone.
LEMMA SameSelection ==
    ASSUME DetailInv, PageTypes', UNCHANGED <<listed, selected>>,
           \A c \in calls' : Sensible(c) /\ Latest(c), Held(calls', busy'), RoutesKnown'
    PROVE  DetailInv'
<1>1. Detail!Current' = Detail!Current BY DEF Detail!Current, Detail!Shown
<1>2. \A c \in calls' : Sensible(c)' /\ Latest(c)' BY <1>1 DEF Sensible, Latest
<1>3. Held(calls, busy)' BY DEF Held
<1> QED BY <1>2, <1>3 DEF DetailInv

\* What the page shows after a render: the panels of the current group, if any, and behind
\* the veil the loads of its keys and routes.
LEMMA DetailShown ==
    ASSUME PageTypes, NEW g \in Groups \cup {Nothing}, NEW cs, \A c \in cs : Sensible(c),
           Held(cs, busy'), Detail!ShowDetail(g, cs), Detail!Current' = g
    PROVE  /\ \A c \in calls' : Sensible(c) /\ Latest(c)'
           /\ Held(calls', busy') /\ RoutesKnown'
           /\ panel' \in [Detail!Panels -> {Nothing, g}]
           /\ unloaded' \in BOOLEAN /\ groupLoading' \in BOOLEAN
<1> DEFINE old == Detail!Outdated(cs)
           k == Detail!NewCall("keys", g, "cur")
           r == Detail!NewCall("routes", g, "cur")
<1>1. (\A d \in old : Sensible(d) /\ d.tag # "cur") /\ Held(old, busy') BY OutdatedCalls
<1>2. CASE g = Nothing
  <2>1. /\ panel' = Detail!Empty /\ calls' = old
        /\ unloaded' = FALSE /\ groupLoading' = FALSE
    BY <1>2 DEF Detail!ShowDetail, Detail!ClearDetail
  <2> HIDE DEF old
  <2>2. \A c \in calls' : Sensible(c) /\ Latest(c)' BY <1>1, <2>1 DEF Latest
  <2>3. RoutesKnown' BY <1>2 DEF RoutesKnown
  <2>4. panel' \in [Detail!Panels -> {Nothing, g}] BY <2>1 DEF Detail!Empty
  <2> QED BY <1>1, <2>1, <2>2, <2>3, <2>4
<1>3. CASE g # Nothing
  <2>1. /\ panel' = [Detail!Empty EXCEPT !["models"] = g, !["prompt"] = g]
        /\ unloaded' = FALSE /\ groupLoading' = TRUE /\ calls' = old \cup {k, r}
    BY <1>3 DEF Detail!ShowDetail, Detail!ReloadGroupDetail
  <2>2. /\ Sensible(k) /\ ~k.holds /\ k.of = g /\ k.tag = "cur"
        /\ Sensible(r) /\ ~r.holds /\ r.of = g /\ r.tag = "cur" /\ r.op = "routes"
    BY <1>3, LoadIsSensible
  <2> HIDE DEF old, k, r
  <2>3. \A c \in calls' : Sensible(c) /\ Latest(c)' BY <1>1, <2>1, <2>2 DEF Latest
  <2>4. Held(calls', busy') BY <1>1, <2>1, <2>2 DEF Held
  <2>5. RoutesKnown' BY <2>1, <2>2 DEF RoutesKnown, Owed, Owes
  <2>6. panel' \in [Detail!Panels -> {Nothing, g}] BY <2>1 DEF Detail!Empty, Detail!Panels
  <2> QED BY <2>1, <2>3, <2>4, <2>5, <2>6
<1> QED BY <1>2, <1>3

LEMMA RenderStep ==
    ASSUME DetailInv, NEW s \in Groups \cup {Nothing}, NEW L \in SUBSET Groups,
           NEW cs, NEW reload \in BOOLEAN, Detail!Render(s, L, cs, reload),
           \A c \in cs : Sensible(c) /\ Latest(c), Held(cs, busy'),
           \A c \in calls : Owes(c) => c \in cs,
           server' = server, link' = link, busy' \in BOOLEAN, loading' \in BOOLEAN,
           clicks' \in 0..MaxClicks
    PROVE  /\ DetailInv'
           /\ \A p \in Detail!Panels : Detail!ForeignPanel(p)' => Detail!ForeignPanel(p)
<1> DEFINE t == IF link \in L THEN link ELSE s
           g == Detail!Shown(t, L)
           same == ~reload /\ s = t /\ g = Detail!Current
<1>1. t \in Groups \cup {Nothing} /\ g \in Groups \cup {Nothing}
  BY DEF DetailInv, PageTypes, Detail!TypeOK, Detail!Shown
<1>2. /\ listed' = L /\ selected' = t
      /\ IF same THEN calls' = cs /\ UNCHANGED <<panel, unloaded, groupLoading>>
                 ELSE Detail!ShowDetail(g, cs)
  BY DEF Detail!Render
<1>3. Detail!Current' = g BY <1>2 DEF Detail!Current
<1> HIDE DEF t, g
<1>4. CASE same
  <2>1. calls' = cs /\ UNCHANGED <<panel, unloaded, groupLoading>> /\ Detail!Current' = Detail!Current
    BY <1>2, <1>3, <1>4
  <2>2. calls' \subseteq Detail!Call BY <2>1 DEF Sensible
  <2>3. PageTypes' BY <1>1, <1>2, <2>1, <2>2 DEF DetailInv, PageTypes, Detail!TypeOK
  <2>4. \A c \in calls' : Sensible(c)' /\ Latest(c)' BY <2>1 DEF Sensible, Latest
  <2>5. RoutesKnown' BY <2>1 DEF DetailInv, RoutesKnown, Owed, Owes
  <2>6. Held(calls, busy)' BY <2>1 DEF Held
  <2>7. \A p \in Detail!Panels : Detail!ForeignPanel(p)' => Detail!ForeignPanel(p)
    BY <2>1 DEF Detail!ForeignPanel
  <2> QED BY <2>3, <2>4, <2>5, <2>6, <2>7 DEF DetailInv
<1>5. CASE ~same
  <2>1. /\ \A c \in calls' : Sensible(c) /\ Latest(c)'
        /\ Held(calls', busy') /\ RoutesKnown'
        /\ panel' \in [Detail!Panels -> {Nothing, g}]
        /\ unloaded' \in BOOLEAN /\ groupLoading' \in BOOLEAN
    <3>1. PageTypes /\ (\A c \in cs : Sensible(c)) BY DEF DetailInv
    <3>2. Detail!ShowDetail(g, cs) BY <1>2, <1>5
    <3> HIDE DEF same
    <3> QED BY <1>1, <1>3, <3>1, <3>2, DetailShown
  <2>2. calls' \subseteq Detail!Call BY <2>1 DEF Sensible
  <2>3. panel' \in [Detail!Panels -> Groups \cup {Nothing}] BY <1>1, <2>1
  <2>4. PageTypes' BY <1>1, <1>2, <2>1, <2>2, <2>3 DEF DetailInv, PageTypes, Detail!TypeOK
  <2>5. (\A c \in calls : Sensible(c))' /\ Held(calls, busy)' BY <2>1 DEF Sensible, Held
  <2>6. \A p \in Detail!Panels : ~Detail!ForeignPanel(p)' BY <1>3, <2>1 DEF Detail!ForeignPanel
  <2> QED BY <2>1, <2>4, <2>5, <2>6 DEF DetailInv
<1> QED BY <1>4, <1>5

-----------------------------------------------------------------------------
(* The requests under way after a step *)

\* A handler has ended, and gives the buttons back if it held them.
LEMMA DoneCalls ==
    ASSUME DetailInv, NEW c \in calls
    PROVE  /\ \A d \in Detail!Done(c) : Sensible(d) /\ Latest(d)
           /\ Held(Detail!Done(c), busy /\ ~c.holds)
<1>1. Detail!Done(c) = calls \ {c} BY DEF Detail!Done
<1>2. c \in Detail!Call /\ busy \in BOOLEAN BY DEF DetailInv, PageTypes, Detail!TypeOK
<1>3. Held(calls \ {c}, busy /\ ~c.holds) BY <1>2 DEF DetailInv, Held
<1> QED BY <1>1, <1>3 DEF DetailInv

\* One request takes the place of another, and holds what that one held.
LEMMA ReplacedCalls ==
    ASSUME DetailInv, NEW c \in calls, NEW d, Sensible(d), Latest(d), d.holds = c.holds,
           NEW cs, cs = (calls \ {c}) \cup {d}
    PROVE  (\A e \in cs : Sensible(e) /\ Latest(e)) /\ Held(cs, busy)
<1>1. Held(calls, busy) /\ \A e \in calls : Sensible(e) /\ Latest(e) BY DEF DetailInv
<1>2. Held(cs, busy) BY <1>1 DEF Held
<1> QED BY <1>1, <1>2

\* A handler goes on.
LEMMA ThenCalls ==
    ASSUME DetailInv, NEW c \in calls, NEW op \in {"groups", "keys", "routes", "configRoutes"},
           op # "groups" => c.of \in Groups
    PROVE  /\ \A d \in Detail!Then(c, op) : Sensible(d) /\ Latest(d)
           /\ Held(Detail!Then(c, op), busy)
           /\ \A d \in calls \ {c} : d \in Detail!Then(c, op)
<1> DEFINE g == IF op = "groups" THEN Nothing ELSE c.of
           n == Detail!NewCall(op, g, "free")
           d == [n EXCEPT !.holds = c.holds]
<1>1. g \in Groups \cup {Nothing} /\ (op # "groups" => g \in Groups) OBVIOUS
<1>2. c \in Detail!Call BY DEF DetailInv, PageTypes, Detail!TypeOK
<1>3. n \in Detail!Call /\ n.op = op /\ n.of = g /\ n.tag = "free"
  <2>1. op \in Detail!BusyOps \cup Detail!FreeOps BY DEF Detail!BusyOps, Detail!FreeOps
  <2> HIDE DEF g
  <2> QED BY <1>1, <2>1, CallTypes DEF DetailInv
<1> HIDE DEF n, g
<1>4. d \in Detail!Call /\ d.op = op /\ d.of = g /\ d.tag = "free" /\ d.holds = c.holds
  BY <1>2, <1>3 DEF Detail!Call
<1>5. Detail!Then(c, op) = (calls \ {c}) \cup {d} BY DEF Detail!Then, n, g
<1> HIDE DEF d
<1>6. Sensible(d) /\ Latest(d) BY <1>1, <1>4 DEF Sensible, Latest
<1> QED BY <1>4, <1>5, <1>6, ReplacedCalls

\* The click that starts a handler: one that holds the buttons finds them free.
LEMMA StartStep ==
    ASSUME DetailInv, NEW op \in Detail!BusyOps \cup Detail!FreeOps,
           NEW g \in Groups \cup {Nothing}, Detail!Start(op, g),
           op \in Detail!BusyOps => ~busy,
           op \notin {"groups", "refreshAll", "createGroup"} => g \in Groups,
           loading' \in BOOLEAN
    PROVE  DetailInv' /\ UNCHANGED <<listed, selected, panel>>
<1> DEFINE c == Detail!NewCall(op, g, "free")
<1>1. c \in Detail!Call /\ c.op = op /\ c.of = g /\ c.tag = "free" /\ (c.holds <=> op \in Detail!BusyOps)
  BY CallTypes DEF DetailInv
<1>2. /\ calls' = calls \cup {c} /\ busy' = (busy \/ op \in Detail!BusyOps)
      /\ clicks < MaxClicks /\ clicks' = clicks + 1
      /\ UNCHANGED <<server, link, listed, selected, panel, unloaded, groupLoading>>
  BY DEF Detail!Start, Detail!Click
<1> HIDE DEF c
<1>3. PageTypes /\ (\A d \in calls : Sensible(d) /\ Latest(d)) /\ Held(calls, busy) /\ RoutesKnown
  BY DEF DetailInv
<1>4. PageTypes'
  <2>1. clicks' \in 0..MaxClicks BY <1>2, <1>3 DEF PageTypes, Detail!TypeOK, Detail!DetailAssumption
  <2>2. busy' \in BOOLEAN BY <1>2
  <2> QED BY <1>1, <1>2, <1>3, <2>1, <2>2 DEF PageTypes, Detail!TypeOK
<1>5. "refreshAll" \notin Detail!BusyOps BY DEF Detail!BusyOps
<1>6. Sensible(c) /\ Latest(c) BY <1>1, <1>5 DEF Sensible, Latest
<1>7. Held(calls', busy') BY <1>1, <1>2, <1>3 DEF Held
<1>8. RoutesKnown'
  <2>1. Detail!Current' = Detail!Current BY <1>2 DEF Detail!Current, Detail!Shown
  <2> QED BY <1>2, <1>3, <2>1 DEF RoutesKnown, Owed, Owes
<1> QED BY <1>2, <1>3, <1>4, <1>6, <1>7, <1>8, SameSelection

-----------------------------------------------------------------------------
(* Steps of the page *)

\* A step after which no panel shows another group than before, unless it is the current one.
NothingForeign == \A p \in Detail!Panels : Detail!ForeignPanel(p)' => Detail!ForeignPanel(p)

LEMMA SamePanels == UNCHANGED <<listed, selected, panel>> => NothingForeign
BY DEF NothingForeign, Detail!ForeignPanel, Detail!Current, Detail!Shown

LEMMA ClicksStep == ASSUME DetailInv, Detail!Clicks PROVE DetailInv' /\ NothingForeign
<1>1. ASSUME NEW g \in Groups, Detail!Select(g) PROVE DetailInv' /\ NothingForeign
  <2>1. /\ Detail!Render(g, listed, calls, FALSE) /\ UNCHANGED <<server, link, busy, loading>>
        /\ clicks < MaxClicks /\ clicks' = clicks + 1
    BY <1>1 DEF Detail!Select, Detail!Click
  <2>2. /\ listed \in SUBSET Groups /\ busy \in BOOLEAN /\ loading \in BOOLEAN
        /\ clicks \in 0..MaxClicks /\ MaxClicks \in Nat
    BY DEF DetailInv, PageTypes, Detail!TypeOK, Detail!DetailAssumption
  <2>3. (\A c \in calls : Sensible(c) /\ Latest(c)) /\ Held(calls, busy') BY <2>1 DEF DetailInv
  <2>4. clicks' \in 0..MaxClicks BY <2>1, <2>2
  <2> QED BY <2>1, <2>2, <2>3, <2>4, RenderStep DEF NothingForeign
<1>2. loading \in BOOLEAN /\ (Detail!Current # Nothing => Detail!Current \in Groups) /\ listed \subseteq Groups
  BY DEF DetailInv, PageTypes, Detail!TypeOK, Detail!Current, Detail!Shown
<1>3. ASSUME NEW g \in Groups, Detail!DeleteGroup(g) PROVE DetailInv' /\ NothingForeign
  <2>1. Detail!Start("deleteGroup", g) /\ loading' \in BOOLEAN
    BY <1>2, <1>3 DEF Detail!DeleteGroup
  <2>2. "deleteGroup" \in Detail!FreeOps /\ "deleteGroup" \notin Detail!BusyOps
    BY DEF Detail!FreeOps, Detail!BusyOps
  <2> QED BY <2>1, <2>2, StartStep, SamePanels
<1>4. ASSUME NEW g \in Groups \cup {Nothing}, Detail!SubmitGroupForm(g)
      PROVE  DetailInv' /\ NothingForeign
  <2>1. /\ ~busy /\ loading' \in BOOLEAN
        /\ \/ g \in Groups /\ Detail!Start("editGroup", g)
           \/ Detail!Start("createGroup", g)
    BY <1>2, <1>4 DEF Detail!SubmitGroupForm
  <2>2. {"editGroup", "createGroup"} \subseteq Detail!BusyOps BY DEF Detail!BusyOps
  <2> QED BY <2>1, <2>2, StartStep, SamePanels
<1>5. ASSUME Detail!RefreshAll PROVE DetailInv' /\ NothingForeign
  <2>1. Detail!Start("refreshAll", Nothing) /\ loading' \in BOOLEAN BY <1>5 DEF Detail!RefreshAll
  <2>2. "refreshAll" \in Detail!FreeOps /\ "refreshAll" \notin Detail!BusyOps
    BY DEF Detail!FreeOps, Detail!BusyOps
  <2> QED BY <2>1, <2>2, StartStep, SamePanels
<1>6. ASSUME NEW op \in {"submitKey", "saveConfig", "savePrompt", "saveRoutes", "ensureKeys", "syncModels"},
             ~busy, Detail!OnPanels, Detail!Start(op, Detail!Current), loading' = loading
      PROVE  DetailInv' /\ NothingForeign
  <2>1. op \in Detail!BusyOps BY DEF Detail!BusyOps
  <2> QED BY <1>2, <1>6, <2>1, StartStep, SamePanels DEF Detail!OnPanels
<1>7. ASSUME NEW op \in {"keys", "toggleKey", "clearPause", "applyCatalog"},
             Detail!OnPanels, Detail!Start(op, Detail!Current), loading' = loading
      PROVE  DetailInv' /\ NothingForeign
  <2>1. op \in Detail!FreeOps /\ op \notin Detail!BusyOps BY DEF Detail!FreeOps, Detail!BusyOps
  <2> QED BY <1>2, <1>7, <2>1, StartStep, SamePanels DEF Detail!OnPanels
<1>8. \/ \E g \in Groups : Detail!Select(g) \/ Detail!DeleteGroup(g)
      \/ \E g \in Groups \cup {Nothing} : Detail!SubmitGroupForm(g)
      \/ Detail!RefreshAll
      \/ \E op \in {"submitKey", "saveConfig", "savePrompt", "saveRoutes", "ensureKeys", "syncModels"} :
            ~busy /\ Detail!OnPanels /\ Detail!Start(op, Detail!Current) /\ loading' = loading
      \/ \E op \in {"keys", "toggleKey", "clearPause", "applyCatalog"} :
            Detail!OnPanels /\ Detail!Start(op, Detail!Current) /\ loading' = loading
  BY DEF Detail!Clicks, Detail!RefreshKeys, Detail!SubmitKeyForm, Detail!ToggleOrDeleteKey,
         Detail!SaveGroupConfig, Detail!SavePromptInjection, Detail!SaveRoutes, Detail!EnsureKeys,
         Detail!ClearRoutePause, Detail!SyncModels, Detail!ApplyCatalog
<1> QED BY <1>1, <1>3, <1>4, <1>5, <1>6, <1>7, <1>8

\* The server has answered a request, and may know one group more or less.
LEMMA ServeStep ==
    ASSUME DetailInv, NEW c \in calls, Detail!Serve(c) PROVE DetailInv' /\ NothingForeign
<1>1. c \in Detail!Call /\ Sensible(c) /\ Latest(c) /\ server \in [Groups -> {"unborn", "alive", "deleted"}]
  BY DEF DetailInv, PageTypes, Detail!TypeOK
<1>2. PICK g \in Groups \cup {Nothing}, s \in [Groups -> {"unborn", "alive", "deleted"}] :
         Detail!Reply(c, g, s) /\ (c.op # "createGroup" => g = c.of)
  <2>1. c.of \in Groups \cup {Nothing} BY <1>1 DEF Detail!Call
  <2>2. CASE c.op = "createGroup" BY <1>1, <2>2 DEF Detail!Serve
  <2>3. CASE c.op = "deleteGroup" BY <1>1, <2>1, <2>3 DEF Detail!Serve
  <2>4. CASE c.op \notin {"createGroup", "deleteGroup"} BY <1>1, <2>1, <2>4 DEF Detail!Serve
  <2> QED BY <2>2, <2>3, <2>4
<1> DEFINE seen == IF c.op \in {"groups", "refreshAll"} THEN Detail!Alive ELSE {}
           d == [c EXCEPT !.served = TRUE, !.of = g, !.seen = seen]
<1>3. calls' = (calls \ {c}) \cup {d} /\ server' = s BY <1>2 DEF Detail!Reply
<1>4. UNCHANGED <<listed, selected, link, panel, unloaded, groupLoading, busy, loading, clicks>>
  BY DEF Detail!Serve
<1>5. seen \in SUBSET Groups BY DEF Detail!Alive
<1> HIDE DEF seen
<1>6. /\ d \in Detail!Call /\ d.op = c.op /\ d.of = g /\ d.tag = c.tag /\ d.holds = c.holds
  BY <1>1, <1>2, <1>5 DEF Detail!Call
<1> HIDE DEF d
<1>7. Sensible(d) /\ Latest(d) /\ (Owes(c) => Owes(d))
  <2>1. c.tag = "cur" => c.op # "createGroup" BY <1>1 DEF Sensible
  <2> QED BY <1>1, <1>2, <1>6, <2>1 DEF Sensible, Latest, Owes
<1>8. (\A e \in calls' : Sensible(e) /\ Latest(e)) /\ Held(calls', busy)
  BY <1>3, <1>6, <1>7, ReplacedCalls
<1>9. PageTypes' BY <1>3, <1>4, <1>6 DEF DetailInv, PageTypes, Detail!TypeOK
<1>10. RoutesKnown'
  <2>1. Detail!Current' = Detail!Current BY <1>4 DEF Detail!Current, Detail!Shown
  <2>2. Owed => Owed' BY <1>3, <1>7 DEF Owed
  <2> QED BY <1>4, <2>1, <2>2 DEF DetailInv, RoutesKnown
<1> QED BY <1>4, <1>8, <1>9, <1>10, SameSelection, SamePanels

\* The veil does not lift over routes that are still to come.
LEMMA VeilStep ==
    ASSUME DetailInv, NEW c \in calls, calls' = Detail!Done(c), groupLoading' = Detail!VeilAfter(c),
           UNCHANGED <<listed, selected>>, unloaded => unloaded',
           panel["routes"] # Nothing => panel'["routes"] # Nothing,
           Owes(c) => panel'["routes"] # Nothing \/ unloaded'
    PROVE  RoutesKnown'
<1>1. Detail!Current' = Detail!Current BY DEF Detail!Current, Detail!Shown
<1>2. SUFFICES ASSUME Detail!Current # Nothing, panel'["routes"] = Nothing, ~unloaded'
               PROVE  groupLoading' /\ Owed'
  BY <1>1 DEF RoutesKnown
<1>3. groupLoading /\ Owed /\ ~Owes(c) BY <1>2 DEF DetailInv, RoutesKnown
<1>4. PICK d \in calls \ {c} : Owes(d) BY <1>3 DEF Owed
<1>5. groupLoading' BY <1>3, <1>4 DEF Detail!VeilAfter, Detail!AllLoaded, Owes
<1>6. Owed' BY <1>4 DEF Owed, Detail!Done
<1> QED BY <1>5, <1>6

LEMMA LoadStep ==
    ASSUME DetailInv, NEW c \in calls, Detail!LoadAnswered(c), UNCHANGED <<server, link, clicks>>
    PROVE  DetailInv' /\ Detail!CoverStep
<1>1. c \in Detail!Call /\ Sensible(c) /\ Latest(c) /\ PageTypes BY DEF DetailInv, PageTypes, Detail!TypeOK
<1>2. /\ c.op \in {"keys", "routes"} /\ groupLoading' = Detail!VeilAfter(c)
      /\ panel' = IF c.tag = "stale" THEN panel ELSE [panel EXCEPT ![c.op] = c.of]
      /\ calls' = Detail!Done(c) /\ busy' = (busy /\ ~c.holds)
      /\ UNCHANGED <<server, link, clicks, listed, selected, unloaded, loading>>
  BY DEF Detail!LoadAnswered
<1>3. c.of \in Groups /\ c.of # Nothing BY <1>1, <1>2 DEF Sensible, PageTypes, Detail!DetailAssumption
<1>4. panel \in [Detail!Panels -> Groups \cup {Nothing}] /\ {"keys", "routes"} \subseteq Detail!Panels
  BY <1>1 DEF PageTypes, Detail!TypeOK, Detail!Panels
<1>5. \A p \in Detail!Panels : panel'[p] = IF c.tag # "stale" /\ p = c.op THEN c.of ELSE panel[p]
  BY <1>2, <1>4
<1>6. /\ \A d \in calls' : Sensible(d) /\ Latest(d)
      /\ Held(calls', busy')
  BY <1>2, DoneCalls
<1>7. PageTypes'
  <2>1. groupLoading' \in BOOLEAN /\ busy' \in BOOLEAN
    BY <1>1, <1>2 DEF Detail!VeilAfter, PageTypes, Detail!TypeOK
  <2>2. panel' \in [Detail!Panels -> Groups \cup {Nothing}] BY <1>2, <1>3, <1>4
  <2>3. calls' \subseteq Detail!Call BY <1>6 DEF Sensible
  <2> QED BY <1>1, <1>2, <2>1, <2>2, <2>3 DEF PageTypes, Detail!TypeOK
<1>8. RoutesKnown'
  <2>1. /\ panel["routes"] # Nothing => panel'["routes"] # Nothing
        /\ Owes(c) => panel'["routes"] # Nothing
    BY <1>3, <1>4, <1>5 DEF Owes
  <2> QED BY <1>2, <2>1, VeilStep
<1>9. Detail!CoverStep
  <2> SUFFICES ASSUME NEW p \in Detail!Panels, ~Detail!ForeignPanel(p), Detail!ForeignPanel(p)'
               PROVE  \E d \in calls \ calls' : d.tag = "free" /\ d.of = panel'[p] /\ d.of # Detail!Current
    BY DEF Detail!CoverStep
  <2>1. Detail!Current' = Detail!Current BY <1>2 DEF Detail!Current, Detail!Shown
  <2>2. panel'[p] # panel[p] /\ panel'[p] \notin {Nothing, Detail!Current}
    BY <2>1 DEF Detail!ForeignPanel
  <2>3. c.tag # "stale" /\ panel'[p] = c.of BY <1>5, <2>2
  <2>4. c.tag = "free" BY <1>1, <2>2, <2>3 DEF Latest, Detail!Call
  <2>5. c \in calls \ calls' BY <1>2 DEF Detail!Done
  <2> QED BY <2>2, <2>3, <2>4, <2>5
<1> QED BY <1>2, <1>6, <1>7, <1>8, <1>9, SameSelection

\* An answer with the list of the groups.
LEMMA ListStep ==
    ASSUME DetailInv, NEW c \in calls,
           Detail!GroupsAnswered(c) \/ Detail!RefreshAnswered(c) \/ Detail!GroupSubmitted(c),
           UNCHANGED <<server, link, clicks>>
    PROVE  DetailInv' /\ NothingForeign
<1>1. /\ c \in Detail!Call /\ Sensible(c) /\ busy \in BOOLEAN /\ loading \in BOOLEAN /\ clicks \in 0..MaxClicks
      /\ selected \in Groups \cup {Nothing} /\ listed \in SUBSET Groups
  BY DEF DetailInv, PageTypes, Detail!TypeOK
<1>2. /\ c.seen \in SUBSET Groups /\ c.was \in Groups \cup {Nothing} /\ c.of \in Groups \cup {Nothing}
      /\ c.holds \in BOOLEAN
  BY <1>1 DEF Detail!Call
<1>3. \A prev \in Groups \cup {Nothing}, L \in SUBSET Groups :
         Detail!Selections(prev, L) \subseteq Groups \cup {Nothing}
  BY DEF Detail!Selections
<1>4. CASE Detail!GroupsAnswered(c)
  <2>1. PICK s \in Detail!Selections(selected, c.seen) : Detail!Render(s, c.seen, Detail!Done(c), FALSE)
    BY <1>4 DEF Detail!GroupsAnswered
  <2>2. c.op = "groups" /\ busy' = (busy /\ ~c.holds) /\ loading' = FALSE
    BY <1>4 DEF Detail!GroupsAnswered
  <2>3. \A d \in calls : Owes(d) => d \in Detail!Done(c) BY <2>2 DEF Owes, Detail!Done
  <2>4. /\ \A d \in Detail!Done(c) : Sensible(d) /\ Latest(d)
        /\ Held(Detail!Done(c), busy')
    BY <2>2, DoneCalls
  <2>5. s \in Groups \cup {Nothing} BY <1>1, <1>2, <1>3
  <2> QED BY <1>1, <1>2, <2>1, <2>2, <2>3, <2>4, <2>5, RenderStep DEF NothingForeign
<1>5. CASE Detail!RefreshAnswered(c)
  <2>1. PICK s \in Detail!Selections(c.was, c.seen) : Detail!Render(s, c.seen, Detail!Done(c), TRUE)
    BY <1>5 DEF Detail!RefreshAnswered
  <2>2. c.op = "refreshAll" /\ busy' = busy /\ loading' = FALSE BY <1>5 DEF Detail!RefreshAnswered
  <2>3. \A d \in calls : Owes(d) => d \in Detail!Done(c) BY <2>2 DEF Owes, Detail!Done
  <2>4. busy' = (busy /\ ~c.holds) BY <1>1, <2>2 DEF Sensible
  <2>5. /\ \A d \in Detail!Done(c) : Sensible(d) /\ Latest(d)
        /\ Held(Detail!Done(c), busy')
    BY <2>4, DoneCalls
  <2>6. s \in Groups \cup {Nothing} BY <1>2, <1>3
  <2> QED BY <1>1, <1>2, <2>1, <2>2, <2>3, <2>5, <2>6, RenderStep DEF NothingForeign
<1>6. CASE Detail!GroupSubmitted(c)
  <2> DEFINE s == IF c.op = "createGroup" THEN c.of ELSE selected
  <2>1. /\ c.op \in {"createGroup", "editGroup"} /\ busy' = busy /\ loading' = TRUE
        /\ Detail!Render(s, listed, Detail!Then(c, "groups"), FALSE)
    BY <1>6 DEF Detail!GroupSubmitted
  <2>2. s \in Groups \cup {Nothing} BY <1>1, <1>2
  <2> HIDE DEF s
  <2>3. /\ \A d \in Detail!Then(c, "groups") : Sensible(d) /\ Latest(d)
        /\ Held(Detail!Then(c, "groups"), busy')
        /\ \A d \in calls \ {c} : d \in Detail!Then(c, "groups")
    BY <2>1, ThenCalls
  <2>4. \A d \in calls : Owes(d) => d \in Detail!Then(c, "groups") BY <2>1, <2>3 DEF Owes
  <2> QED BY <1>1, <2>1, <2>2, <2>3, <2>4, RenderStep DEF NothingForeign
<1> QED BY <1>4, <1>5, <1>6

\* A handler goes on with its next request, or puts its answer into a panel.
LEMMA ChainStep ==
    ASSUME DetailInv, NEW c \in calls, Detail!Chained(c), UNCHANGED <<server, link, clicks>>
    PROVE  DetailInv' /\ NothingForeign
<1>1. Sensible(c) /\ PageTypes BY DEF DetailInv
<1>2. /\ \E op \in {"groups", "keys", "routes", "configRoutes"} :
            calls' = Detail!Then(c, op) /\ (op # "groups" => c.op # "deleteGroup")
      /\ c.op \in {"deleteGroup", "saveConfig", "submitKey", "toggleKey", "clearPause"}
      /\ loading' = loading \/ loading' = TRUE
      /\ UNCHANGED <<server, link, clicks, listed, selected, panel, unloaded, groupLoading, busy>>
  BY DEF Detail!Chained
<1>3. PICK op \in {"groups", "keys", "routes", "configRoutes"} : calls' = Detail!Then(c, op) BY <1>2
<1>4. c.of \in Groups BY <1>1, <1>2 DEF Sensible
<1>5. /\ \A d \in calls' : Sensible(d) /\ Latest(d)
      /\ Held(calls', busy')
      /\ \A d \in calls \ {c} : d \in calls'
  BY <1>2, <1>3, <1>4, ThenCalls
<1>6. PageTypes'
  <2>1. calls' \subseteq Detail!Call BY <1>5 DEF Sensible
  <2>2. loading' \in BOOLEAN BY <1>1, <1>2 DEF PageTypes, Detail!TypeOK
  <2> QED BY <1>1, <1>2, <2>1, <2>2 DEF PageTypes, Detail!TypeOK
<1>7. RoutesKnown'
  <2>1. Detail!Current' = Detail!Current BY <1>2 DEF Detail!Current, Detail!Shown
  <2>2. Owed => Owed' BY <1>2, <1>5 DEF Owed, Owes
  <2> QED BY <1>2, <2>1, <2>2 DEF DetailInv, RoutesKnown
<1> QED BY <1>2, <1>5, <1>6, <1>7, SameSelection, SamePanels

LEMMA WrittenStep ==
    ASSUME DetailInv, NEW c \in calls, Detail!Written(c), UNCHANGED <<server, link, clicks>>
    PROVE  DetailInv' /\ Detail!CoverStep
<1>1. Sensible(c) /\ PageTypes BY DEF DetailInv
<1>2. /\ c.op \in {"configRoutes", "saveRoutes", "ensureKeys", "syncModels", "applyCatalog", "savePrompt"}
      /\ panel' = [panel EXCEPT ![Detail!PanelOf(c.op)] = c.of]
      /\ \/ calls' = Detail!Then(c, "groups") /\ loading' = TRUE /\ busy' = busy
         \/ calls' = Detail!Done(c) /\ busy' = (busy /\ ~c.holds) /\ loading' = loading
      /\ UNCHANGED <<server, link, clicks, listed, selected, unloaded, groupLoading>>
  BY DEF Detail!Written
<1>3. c.of \in Groups /\ c.of # Nothing /\ c.tag = "free" /\ ~Owes(c)
  BY <1>1, <1>2 DEF Sensible, PageTypes, Detail!DetailAssumption, Detail!Call, Owes
<1>4. panel \in [Detail!Panels -> Groups \cup {Nothing}] BY <1>1 DEF PageTypes, Detail!TypeOK
<1>5. \A p \in Detail!Panels : panel'[p] = panel[p] \/ panel'[p] = c.of BY <1>2, <1>4
<1>6. /\ \A d \in calls' : Sensible(d) /\ Latest(d)
      /\ Held(calls', busy')
      /\ \A d \in calls \ {c} : d \in calls'
  <2>1. CASE calls' = Detail!Then(c, "groups") /\ busy' = busy BY <2>1, ThenCalls
  <2>2. CASE calls' = Detail!Done(c) /\ busy' = (busy /\ ~c.holds)
    BY <2>2, DoneCalls DEF Detail!Done
  <2> QED BY <1>2, <2>1, <2>2
<1>7. PageTypes'
  <2>1. calls' \subseteq Detail!Call BY <1>6 DEF Sensible
  <2>2. loading' \in BOOLEAN /\ busy' \in BOOLEAN BY <1>1, <1>2 DEF PageTypes, Detail!TypeOK
  <2>3. panel' \in [Detail!Panels -> Groups \cup {Nothing}] BY <1>2, <1>3, <1>4
  <2> QED BY <1>1, <1>2, <2>1, <2>2, <2>3 DEF PageTypes, Detail!TypeOK
<1>8. Detail!Current' = Detail!Current BY <1>2 DEF Detail!Current, Detail!Shown
<1>9. RoutesKnown'
  <2>1. Owed => Owed' BY <1>3, <1>6 DEF Owed
  <2>2. panel["routes"] # Nothing => panel'["routes"] # Nothing BY <1>3, <1>5 DEF Detail!Panels
  <2> QED BY <1>2, <1>8, <2>1, <2>2 DEF DetailInv, RoutesKnown
<1>10. Detail!CoverStep
  <2>1. c \notin calls'
    <3>1. CASE calls' = Detail!Then(c, "groups")
      <4> DEFINE d == [Detail!NewCall("groups", Nothing, "free") EXCEPT !.holds = c.holds]
      <4>1. calls' = (calls \ {c}) \cup {d} BY <3>1 DEF Detail!Then
      <4>2. d.op = "groups" BY DEF Detail!NewCall
      <4> QED BY <1>2, <4>1, <4>2
    <3>2. CASE calls' = Detail!Done(c) BY <3>2 DEF Detail!Done
    <3> QED BY <1>2, <3>1, <3>2
  <2>2. ASSUME NEW p \in Detail!Panels, ~Detail!ForeignPanel(p), Detail!ForeignPanel(p)'
        PROVE  panel'[p] = c.of /\ c.of # Detail!Current
    BY <1>5, <1>8, <2>2 DEF Detail!ForeignPanel
  <2> QED BY <1>3, <2>1, <2>2 DEF Detail!CoverStep
<1> QED BY <1>2, <1>6, <1>7, <1>9, <1>10, SameSelection

LEMMA FailedStep ==
    ASSUME DetailInv, NEW c \in calls, Detail!Failed(c) PROVE DetailInv' /\ NothingForeign
<1>1. PageTypes /\ c \in Detail!Call BY DEF DetailInv, PageTypes, Detail!TypeOK
<1>2. /\ calls' = Detail!Done(c) /\ groupLoading' = Detail!VeilAfter(c) /\ busy' = (busy /\ ~c.holds)
      /\ unloaded' = (unloaded \/ (c.op = "routes" /\ c.tag = "cur"))
      /\ loading' = (loading /\ c.op \notin {"groups", "refreshAll"})
      /\ UNCHANGED <<server, listed, selected, link, panel, clicks>>
  BY DEF Detail!Failed
<1>3. /\ \A d \in calls' : Sensible(d) /\ Latest(d)
      /\ Held(calls', busy')
  BY <1>2, DoneCalls
<1>4. PageTypes'
  <2>1. calls' \subseteq Detail!Call BY <1>3 DEF Sensible
  <2>2. /\ groupLoading' \in BOOLEAN /\ busy' \in BOOLEAN
        /\ unloaded' \in BOOLEAN /\ loading' \in BOOLEAN
    BY <1>1, <1>2 DEF Detail!VeilAfter, PageTypes, Detail!TypeOK
  <2> QED BY <1>1, <1>2, <2>1, <2>2 DEF PageTypes, Detail!TypeOK
<1>5. RoutesKnown' BY <1>2, VeilStep DEF Owes
<1> QED BY <1>2, <1>3, <1>4, <1>5, SameSelection, SamePanels

LEMMA InitDetail == ASSUME Detail!DetailAssumption, Detail!Init PROVE DetailInv
<1> DEFINE c == Detail!NewCall("groups", Nothing, "free")
<1>1. /\ listed = {} /\ selected = Nothing /\ calls = {c} /\ busy = FALSE /\ loading = TRUE
      /\ panel = Detail!Empty /\ unloaded = FALSE /\ groupLoading = FALSE /\ clicks = 0
  BY DEF Detail!Init
<1>2. server \in [Groups -> {"unborn", "alive", "deleted"}] /\ link \in Groups \cup {Nothing}
  BY DEF Detail!Init, Detail!Alive
<1>3. c.op = "groups" /\ c.tag = "free" /\ c.holds = FALSE /\ c \in Detail!Call
  <2>1. "groups" \notin Detail!BusyOps /\ "groups" \in Detail!FreeOps
    BY DEF Detail!BusyOps, Detail!FreeOps
  <2> DEFINE h == "groups" \in Detail!BusyOps
  <2>2. c = [op |-> "groups", of |-> Nothing, tag |-> "free", holds |-> h,
             was |-> Nothing, served |-> FALSE, seen |-> {}]
    BY DEF Detail!NewCall
  <2>3. h = FALSE BY <2>1
  <2> HIDE DEF c, h
  <2> QED BY <2>1, <2>2, <2>3 DEF Detail!Call
<1> HIDE DEF c
<1>4. PageTypes
  <2>1. panel \in [Detail!Panels -> Groups \cup {Nothing}] BY <1>1 DEF Detail!Empty
  <2>2. 0 \in 0..MaxClicks BY DEF Detail!DetailAssumption
  <2> QED BY <1>1, <1>2, <1>3, <2>1, <2>2 DEF PageTypes, Detail!TypeOK
<1>5. Sensible(c) /\ Latest(c) BY <1>3 DEF Sensible, Latest
<1>6. Held(calls, busy) BY <1>1, <1>3 DEF Held
<1>7. RoutesKnown BY <1>1 DEF RoutesKnown, Detail!Current, Detail!Shown
<1> QED BY <1>1, <1>4, <1>5, <1>6, <1>7 DEF DetailInv

LEMMA NextDetail ==
    ASSUME DetailInv, [Detail!Next]_(Detail!vars) PROVE DetailInv' /\ [Detail!CoverStep]_(Detail!vars)
<1>1. CASE UNCHANGED Detail!vars
  <2>1. PageTypes' BY <1>1 DEF DetailInv, PageTypes, Detail!TypeOK, Detail!vars
  <2>2. RoutesKnown' BY <1>1 DEF DetailInv, RoutesKnown, Owed, Detail!vars, Detail!Current, Detail!Shown
  <2> QED BY <1>1, <2>1, <2>2, SameSelection DEF DetailInv, Detail!vars
<1>2. NothingForeign => Detail!CoverStep BY DEF NothingForeign, Detail!CoverStep
<1>3. CASE Detail!Clicks BY <1>2, <1>3, ClicksStep
<1>4. ASSUME NEW c \in calls, Detail!Serve(c) \/ Detail!Answered(c) \/ Detail!Failed(c)
      PROVE  DetailInv' /\ Detail!CoverStep
  BY <1>2, <1>4, ServeStep, LoadStep, ListStep, ChainStep, WrittenStep, FailedStep DEF Detail!Answered
<1> QED BY <1>1, <1>3, <1>4 DEF Detail!Next, Detail!Arrivals

LEMMA DetailInvariant ==
    ASSUME Detail!DetailAssumption PROVE Detail!Init /\ [][Detail!Next]_(Detail!vars) => []DetailInv
BY InitDetail, NextDetail, PTL

\* Every variable of the page keeps its type.
LEMMA DetailTypes ==
    ASSUME Detail!DetailAssumption PROVE Detail!Init /\ [][Detail!Next]_(Detail!vars) => []Detail!TypeOK
<1>1. DetailInv => Detail!TypeOK BY DEF DetailInv, PageTypes
<1> QED BY <1>1, DetailInvariant, PTL

-----------------------------------------------------------------------------
(* The session of the tabs *)

LEMMA SentTypes ==
    ASSUME Auth!TypeOK, NEW t \in Tabs, NEW kind \in Auth!Kinds
    PROVE  Auth!Sent(t, kind) \in Auth!Request
BY DEF Auth!TypeOK, Auth!Sent, Auth!Request, Auth!Answers

LEMMA AuthTypes == Auth!Init /\ [][Auth!Next]_(Auth!vars) => []Auth!TypeOK
<1>1. ASSUME Auth!Init PROVE Auth!TypeOK
  <2>1. \A t \in Tabs : Auth!Sent(t, "me") \in Auth!Request
    BY <1>1 DEF Auth!Init, Auth!Sent, Auth!Request, Auth!Kinds, Auth!Answers
  <2> QED BY <1>1, <2>1 DEF Auth!Init, Auth!TypeOK
<1>2. ASSUME Auth!TypeOK, [Auth!Next]_(Auth!vars) PROVE Auth!TypeOK'
  <2>1. requests \subseteq Auth!Request /\ status \in [Tabs -> {"loading", "anonymous", "authenticated"}]
    BY <1>2 DEF Auth!TypeOK
  <2>2. ASSUME NEW t \in Tabs,
           Auth!Reload(t) \/ Auth!Login(t) \/ Auth!Logout(t) \/ Auth!Call(t) \/ Auth!Show(t) \/ Auth!Hide(t)
        PROVE  Auth!TypeOK'
    <3>1. \A kind \in {"me", "login", "logout", "api"} : Auth!Sent(t, kind) \in Auth!Request
      BY <1>2, SentTypes DEF Auth!Kinds
    <3> QED BY <1>2, <2>1, <2>2, <3>1
            DEF Auth!TypeOK, Auth!Reload, Auth!Login, Auth!Logout, Auth!Call, Auth!Show, Auth!Hide
  <2>3. ASSUME NEW r \in requests, Auth!Answer(r) PROVE Auth!TypeOK'
    <3>1. PICK v \in Auth!Verdict(r) :
             \/ \E new \in unused :
                   /\ requests' = (requests \ {r}) \cup {[r EXCEPT !.ans = "ok", !.grant = new]}
                   /\ accepted' = accepted \cup {new} /\ unused' = unused \ {new}
             \/ /\ requests' = (requests \ {r}) \cup {[r EXCEPT !.ans = v]}
                /\ UNCHANGED <<accepted, unused>>
      BY <2>3 DEF Auth!Answer
    <3>2. v \in Auth!Answers BY DEF Auth!Verdict, Auth!Answers
    <3>3. [r EXCEPT !.ans = v] \in Auth!Request BY <2>1, <2>3, <3>2 DEF Auth!Request
    <3>4. \A new \in unused : [r EXCEPT !.ans = "ok", !.grant = new] \in Auth!Request
      BY <1>2, <2>1, <2>3 DEF Auth!Request, Auth!TypeOK, Auth!Answers
    <3>5. UNCHANGED <<watched, token, status, enabled>> BY <2>3 DEF Auth!Answer
    <3> QED BY <1>2, <3>1, <3>3, <3>4, <3>5 DEF Auth!TypeOK
  <2>4. ASSUME NEW r \in requests, Auth!Fail(r) PROVE Auth!TypeOK'
    <3>1. [r EXCEPT !.ans = "failed"] \in Auth!Request BY <2>1, <2>4 DEF Auth!Request, Auth!Answers
    <3> QED BY <1>2, <2>4, <3>1 DEF Auth!TypeOK, Auth!Fail
  <2>5. ASSUME NEW r \in requests, Auth!Arrive(r) PROVE Auth!TypeOK'
    <3>1. r.tab \in Tabs /\ r.grant \in Tokens \cup {NoToken} BY <2>1, <2>5 DEF Auth!Request
    <3>2. /\ requests' = requests \ {r} /\ UNCHANGED <<watched, enabled, accepted, unused>>
          /\ token' \in {token, NoToken, r.grant}
          /\ status' \in [Tabs -> {"loading", "anonymous", "authenticated"}]
      BY <2>1, <2>5 DEF Auth!Arrive, Auth!ProbeAnswered, Auth!LoginAnswered, Auth!CallAnswered
    <3> QED BY <1>2, <3>1, <3>2 DEF Auth!TypeOK
  <2>6. ASSUME Auth!Reconfigure PROVE Auth!TypeOK' BY <1>2, <2>6 DEF Auth!TypeOK, Auth!Reconfigure
  <2>7. CASE UNCHANGED Auth!vars BY <1>2, <2>7 DEF Auth!TypeOK, Auth!vars
  <2> QED BY <1>2, <2>2, <2>3, <2>4, <2>5, <2>6, <2>7 DEF Auth!Next
<1> QED BY <1>1, <1>2, PTL

-----------------------------------------------------------------------------
(* The machines, as MCAtRest puts them next to each other *)

\* Whichever runs, each behaves as its own specification.
LEMMA Apart ==
    MCSpec => /\ Spec
              /\ Detail!Init /\ [][Detail!Next]_(Detail!vars)
              /\ Auth!Init /\ [][Auth!Next]_(Auth!vars)
<1>1. MCInit => Init /\ Detail!Init /\ Auth!Init
  BY DEF MCInit, AlertIdle, DetailIdle, AuthIdle
<1>2. [MCNext]_allVars => [Next]_vars /\ [Detail!Next]_(Detail!vars) /\ [Auth!Next]_(Auth!vars)
  BY DEF MCNext, allVars, detailVars, authVars, vars, Detail!vars, Auth!vars
<1> QED BY <1>1, <1>2, PTL DEF MCSpec, Spec

\* Every variable of the alert, of the page and of the tabs' session keeps its type; no
\* token the server accepts is one it may still hand out.
THEOREM RestTypes ==
    ASSUME CooldownAssumption, Detail!DetailAssumption PROVE MCSpec => []TypesOK
BY TypeCorrect, DetailTypes, AuthTypes, Apart, PTL DEF TypesOK

\* The buttons are locked exactly as long as a handler that holds them is under way, although
\* others end in between; and the routes can be saved from an empty form only after the
\* message that they could not be loaded (loadSeqRef, busy, groupLoading).
THEOREM PageStaysHonest == ASSUME Detail!DetailAssumption PROVE MCSpec => []PageIsHonest
<1>1. DetailInv => Detail!BusyIsExact BY DEF DetailInv, Held, Detail!BusyIsExact
<1>2. DetailInv => Detail!EmptyFormWasReported
  BY DEF DetailInv, RoutesKnown, Detail!EmptyFormWasReported, Detail!OnPanels
<1> QED BY <1>1, <1>2, DetailInvariant, Apart, PTL DEF PageIsHonest

\* loadSeqRef: a panel comes to show another group than the selected one only through the
\* answer of a handler that has no number, however answers overtake each other.
THEOREM CoversAreUnnumbered == ASSUME Detail!DetailAssumption PROVE MCSpec => CoverNeedsUnnumbered
<1>1. DetailInv /\ [Detail!Next]_(Detail!vars) => [Detail!CoverStep]_(Detail!vars) BY NextDetail
<1> QED BY <1>1, DetailInvariant, Apart, PTL DEF CoverNeedsUnnumbered, Detail!CoverNeedsUnnumbered
=============================================================================
