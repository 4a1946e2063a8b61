------------------------------- MODULE Settings -------------------------------
(***************************************************************************)
(* The settings page, the configuration file and the configuration that    *)
(* runs.  Saving loads the file, replaces the sections of the page and     *)
(* writes it back; os.WriteFile truncates it first, and a truncated file   *)
(* loads as the defaults.  Applying loads the file and hands its sections  *)
(* over one after another, builds a second scheduler, starts it and stops  *)
(* the first.  Neither is under a lock.                                    *)
(*                                                                         *)
(* A section is a symbol: "d" its default, "n" another setting, "bad" one  *)
(* that cannot be applied (no password, a cron expression that does not    *)
(* parse), "zero" a number that WithDefaults replaces.  notify is app and  *)
(* notifications, net is proxy and upstream, rest is what the page does    *)
(* not show: database, security, pricing.                                  *)
(***************************************************************************)
EXTENDS Naturals, FiniteSets

CONSTANTS MaxSchedulers, MaxCalls, MaxClicks   \* bounds

VARIABLES
    file, torn,   \* the configuration file; is it truncated at the moment?
    services,     \* notify, net and gw, as dispatcher, channels and gateway have them
    manager,      \* auth, net, gw and scheduler of the Manager
    schedulers,   \* those that were started and not stopped: cron and net of each
    form,         \* of the page
    saving, applying, pending,
    calls,        \* requests under way
    doubt,        \* another administrator was at work, or an answer was lost
    overlapped,   \* two applications were under way together
    clicks

vars == <<file, torn, services, manager, schedulers, form, saving, applying, pending, calls,
          doubt, overlapped, clicks>>

Auth == {"d", "n", "bad"}
Cron == {"d", "n", "bad"}
Number == {"d", "n", "zero"}
Config == [auth : Auth, cron : Cron, notify : {"d", "n"}, net : Number, gw : Number, rest : {"d", "n"}]
Default == [auth |-> "d", cron |-> "d", notify |-> "d", net |-> "d", gw |-> "d", rest |-> "d"]

\* WithDefaults of the upstream and the gateway section.
WithDefaults(c) == [c EXCEPT !.net = IF @ = "zero" THEN "d" ELSE @, !.gw = IF @ = "zero" THEN "d" ELSE @]

\* What dispatcher, channels and gateway are given of a configuration.
Served(c) == [notify |-> c.notify, net |-> c.net, gw |-> c.gw]
NoScheduler == 0

\* op: "get", "save" or "apply"; mine: of this page; cfg: what is sent, then what
\* was loaded; blind: was it loaded from a file whose rest could not be seen or had
\* been lost before? old, new: the schedulers of an application.
Call(op, mine, cfg) ==
    [op |-> op, mine |-> mine, cfg |-> cfg, blind |-> FALSE, old |-> NoScheduler, new |-> NoScheduler,
     state |-> "sent"]

TypeOK ==
    /\ file \in Config /\ torn \in BOOLEAN
    /\ services \in [notify : {"d", "n"}, net : Number, gw : Number]
    /\ manager \in [auth : Auth, net : Number, gw : Number, scheduler : 1..MaxSchedulers]
    /\ DOMAIN schedulers \subseteq 1..MaxSchedulers
    /\ form \in Config
    /\ {saving, applying, pending, doubt, overlapped} \subseteq BOOLEAN
    /\ \A c \in calls : c.cfg \in Config /\ c.old \in 0..MaxSchedulers
    /\ clicks \in 0..MaxClicks

\* Started with a file that can be applied; the page has loaded it.
Init ==
    /\ file \in {[Default EXCEPT !.rest = "n"], [Default EXCEPT !.rest = "n", !.net = "n", !.auth = "n"]}
    /\ torn = FALSE
    /\ services = Served(file)
    /\ manager = [auth |-> file.auth, net |-> file.net, gw |-> file.gw, scheduler |-> 1]
    /\ schedulers = [i \in {1} |-> [cron |-> file.cron, net |-> file.net]]
    /\ form = file
    /\ saving = FALSE /\ applying = FALSE /\ pending = FALSE
    /\ calls = {} /\ doubt = FALSE /\ overlapped = FALSE /\ clicks = 0

-----------------------------------------------------------------------------
(* The page *)

Click == clicks < MaxClicks /\ clicks' = clicks + 1 /\ UNCHANGED <<file, torn, services, manager, schedulers>>
Room == Cardinality(calls) < MaxCalls

\* The fields are never disabled.
Edit(new) ==
    /\ Click /\ new # form /\ form' = new
    /\ UNCHANGED <<saving, applying, pending, calls, doubt, overlapped>>

EditAuth(v) == Edit([form EXCEPT !.auth = v])
EditScheduler(v) == Edit([form EXCEPT !.cron = v])
EditApp(v) == Edit([form EXCEPT !.notify = v])
EditNotifications(v) == Edit([form EXCEPT !.notify = v])
EditUpstream(v) == Edit([form EXCEPT !.net = v])
EditGateway(v) == Edit([form EXCEPT !.gw = v])
EditProxy(v) == Edit([form EXCEPT !.net = v])

\* The query of the page: a new one takes the place of the one under way.
Superseded == {c \in calls : c.op # "get"}

\* The poll of every 30 s, and the refresh that ends many handlers.
Poll ==
    /\ Click /\ Room
    /\ calls' = Superseded \cup {Call("get", TRUE, Default)}
    /\ UNCHANGED <<form, saving, applying, pending, doubt, overlapped>>

HandleSave ==
    /\ Click /\ Room /\ ~saving /\ ~applying
    /\ saving' = TRUE
    /\ calls' = calls \cup {Call("save", TRUE, form)}
    /\ UNCHANGED <<form, applying, pending, doubt, overlapped>>

Applies == {c \in calls : c.op = "apply"}

HandleApply ==
    /\ Click /\ Room /\ ~saving /\ ~applying
    /\ applying' = TRUE
    /\ calls' = calls \cup {Call("apply", TRUE, Default)}
    /\ overlapped' = (overlapped \/ Applies # {})
    /\ UNCHANGED <<form, saving, pending, doubt>>

\* The page is loaded again, in the middle of what it was doing or not; it
\* starts with nothing pending.
Reopen ==
    /\ Click
    /\ saving' = FALSE /\ applying' = FALSE /\ pending' = FALSE
    /\ form' = WithDefaults(IF torn THEN Default ELSE file)
    /\ calls' = {[c EXCEPT !.mine = FALSE] : c \in Superseded}
    /\ doubt' = TRUE
    /\ UNCHANGED overlapped

\* Another administrator saves or applies.
Other(op) ==
    /\ Click /\ Room
    /\ \E n \in {"d", "n"} : calls' = calls \cup {Call(op, FALSE, [Default EXCEPT !.net = n, !.auth = "n"])}
    /\ doubt' = TRUE
    /\ overlapped' = (overlapped \/ (op = "apply" /\ Applies # {}))
    /\ UNCHANGED <<form, saving, applying, pending>>

-----------------------------------------------------------------------------
(* The server: the file *)

Moves(c, d) == calls' = (calls \ {c}) \cup {d}
ServerOnly == UNCHANGED <<form, saving, applying, pending, doubt, overlapped, clicks>>
Runs == <<services, manager, schedulers>>

LoadFile == WithDefaults(IF torn THEN Default ELSE file)

GetConfig(c) ==
    /\ c.op = "get" /\ c.state = "sent"
    /\ Moves(c, [c EXCEPT !.state = "done", !.cfg = LoadFile])
    /\ UNCHANGED <<file, torn, Runs>> /\ ServerOnly

\* Variant: what is not in the request is not looked up.
LoadForSave_Fresh(c) ==
    /\ c.op = "save" /\ c.state = "sent"
    /\ Moves(c, [c EXCEPT !.state = "merged", !.cfg = WithDefaults([@ EXCEPT !.rest = "d"]),
                       !.blind = torn \/ file.rest = "d"])
    /\ UNCHANGED <<file, torn, Runs>> /\ ServerOnly

\* The sections of the request over the configuration in the file.
LoadForSave(c) ==
    /\ c.op = "save" /\ c.state = "sent"
    /\ Moves(c, [c EXCEPT !.state = "merged", !.cfg = WithDefaults([@ EXCEPT !.rest = LoadFile.rest]),
                       !.blind = torn \/ file.rest = "d"])
    /\ UNCHANGED <<file, torn, Runs>> /\ ServerOnly

Truncate(c) ==
    /\ c.op = "save" /\ c.state = "merged"
    /\ torn' = TRUE
    /\ Moves(c, [c EXCEPT !.state = "writing"])
    /\ UNCHANGED <<file, Runs>> /\ ServerOnly

Write(c) ==
    /\ c.op = "save" /\ c.state = "writing"
    /\ file' = c.cfg /\ torn' = FALSE
    /\ Moves(c, [c EXCEPT !.state = "done"])
    /\ UNCHANGED Runs /\ ServerOnly

-----------------------------------------------------------------------------
(* The server: ApplyFromFile *)

ReadManager(c) ==
    /\ c.op = "apply" /\ c.state = "sent"
    /\ Moves(c, [c EXCEPT !.state = "begun", !.old = manager.scheduler])
    /\ UNCHANGED <<file, torn, Runs>> /\ ServerOnly

\* buildAuth refuses before anything is changed.
LoadToApply(c) ==
    /\ c.op = "apply" /\ c.state = "begun"
    /\ Moves(c, [c EXCEPT !.state = IF LoadFile.auth = "bad" THEN "refused" ELSE "loaded", !.cfg = LoadFile])
    /\ UNCHANGED <<file, torn, Runs>> /\ ServerOnly

UpdateServices(c) ==
    /\ c.op = "apply" /\ c.state = "loaded"
    /\ services' = Served(c.cfg)
    /\ Moves(c, [c EXCEPT !.state = "serving"])
    /\ UNCHANGED <<file, torn, manager, schedulers>> /\ ServerOnly

\* A schedule that does not parse ends the application here.
StartScheduler(c) ==
    /\ c.op = "apply" /\ c.state = "serving"
    /\ IF c.cfg.cron = "bad"
       THEN Moves(c, [c EXCEPT !.state = "refused"]) /\ UNCHANGED schedulers
       ELSE \E i \in (1..MaxSchedulers) \ DOMAIN schedulers :
              /\ \A d \in calls : i # d.old
              /\ \A j \in (1..MaxSchedulers) \ DOMAIN schedulers : i <= j \/ \E d \in calls : j = d.old
              /\ schedulers' = [j \in DOMAIN schedulers \cup {i} |->
                                  IF j = i THEN [cron |-> c.cfg.cron, net |-> c.cfg.net] ELSE schedulers[j]]
              /\ Moves(c, [c EXCEPT !.state = "started", !.new = i])
    /\ UNCHANGED <<file, torn, services, manager>> /\ ServerOnly

Publish(c) ==
    /\ c.op = "apply" /\ c.state = "started"
    /\ manager' = [auth |-> c.cfg.auth, net |-> c.cfg.net, gw |-> c.cfg.gw, scheduler |-> c.new]
    /\ Moves(c, [c EXCEPT !.state = "stopping"])
    /\ UNCHANGED <<file, torn, services, schedulers>> /\ ServerOnly

\* Variant: the scheduler of the Manager is stopped, which is the new one.
StopOld_Current(c) ==
    /\ c.op = "apply" /\ c.state = "stopping"
    /\ schedulers' = [j \in DOMAIN schedulers \ {manager.scheduler} |-> schedulers[j]]
    /\ Moves(c, [c EXCEPT !.state = "done"])
    /\ UNCHANGED <<file, torn, services, manager>> /\ ServerOnly

\* The scheduler that was read in the beginning; another application may have
\* stopped it before, and its own be left running.
StopOld(c) ==
    /\ c.op = "apply" /\ c.state = "stopping"
    /\ schedulers' = [j \in DOMAIN schedulers \ {c.old} |-> schedulers[j]]
    /\ Moves(c, [c EXCEPT !.state = "done"])
    /\ UNCHANGED <<file, torn, services, manager>> /\ ServerOnly

-----------------------------------------------------------------------------
(* Answers *)

Quiet == UNCHANGED <<file, torn, Runs, overlapped, clicks>>

\* Whatever was edited since is replaced.
QueryAnswered(c) ==
    /\ c.op = "get" /\ c.state = "done"
    /\ form' = c.cfg
    /\ calls' = calls \ {c}
    /\ UNCHANGED <<saving, applying, pending, doubt>> /\ Quiet

\* Both ask for the file again.
SaveAnswered(c) ==
    /\ c.op = "save" /\ c.state = "done" /\ c.mine
    /\ saving' = FALSE /\ pending' = TRUE
    /\ calls' = (Superseded \ {c}) \cup {Call("get", TRUE, Default)}
    /\ UNCHANGED <<form, applying, doubt>> /\ Quiet

ApplyAnswered(c) ==
    /\ c.op = "apply" /\ c.state = "done" /\ c.mine
    /\ applying' = FALSE /\ pending' = FALSE
    /\ calls' = (Superseded \ {c}) \cup {Call("get", TRUE, Default)}
    /\ UNCHANGED <<form, saving, doubt>> /\ Quiet

\* Variant: whatever the answer, nothing is pending any more.
Refused_Settles(c) ==
    /\ c.state = "refused" /\ c.mine
    /\ applying' = FALSE /\ pending' = FALSE
    /\ calls' = calls \ {c}
    /\ UNCHANGED <<form, saving, doubt>> /\ Quiet

Refused(c) ==
    /\ c.state = "refused" /\ c.mine
    /\ applying' = FALSE
    /\ calls' = calls \ {c}
    /\ UNCHANGED <<form, saving, pending, doubt>> /\ Quiet

\* A request that never arrived, or an answer that did not: what the server has
\* begun it ends.
Lost(c) ==
    /\ c.mine
    /\ saving' = (saving /\ c.op # "save") /\ applying' = (applying /\ c.op # "apply")
    /\ calls' = (calls \ {c}) \cup
         (IF c.op = "get" \/ c.state \in {"sent", "refused", "done"} THEN {} ELSE {[c EXCEPT !.mine = FALSE]})
    /\ doubt' = (doubt \/ (c.op # "get" /\ c.state # "sent"))
    /\ UNCHANGED <<form, pending>> /\ Quiet

OthersAnswer(c) ==
    /\ ~c.mine /\ c.state \in {"done", "refused"}
    /\ calls' = calls \ {c}
    /\ UNCHANGED <<form, saving, applying, pending, doubt>> /\ Quiet

Next ==
    \/ \E v \in Auth : EditAuth(v)
    \/ \E v \in Cron : EditScheduler(v)
    \/ \E v \in {"d", "n"} : EditApp(v) \/ EditNotifications(v) \/ EditProxy(v)
    \/ \E v \in Number : EditUpstream(v) \/ EditGateway(v)
    \/ Poll \/ HandleSave \/ HandleApply \/ Reopen
    \/ \E op \in {"save", "apply"} : Other(op)
    \/ \E c \in calls :
          \/ GetConfig(c) \/ LoadForSave(c) \/ Truncate(c) \/ Write(c)
          \/ ReadManager(c) \/ LoadToApply(c) \/ UpdateServices(c) \/ StartScheduler(c) \/ Publish(c) \/ StopOld(c)
          \/ QueryAnswered(c) \/ SaveAnswered(c) \/ ApplyAnswered(c) \/ Refused(c) \/ Lost(c) \/ OthersAnswer(c)

Spec == Init /\ [][Next]_vars

-----------------------------------------------------------------------------
(* Properties *)

\* Between applications one scheduler runs, the Manager's: an application stops
\* the one it replaces, also when it fails half-way.  Two that overlap leave a
\* scheduler running that nobody can stop.
OneScheduler ==
    (Applies = {} /\ ~overlapped) => DOMAIN schedulers = {manager.scheduler}

\* The page does not show the database, security and pricing sections, and it
\* does not lose them: only a save that loaded the file while another one was
\* writing it puts the defaults in their place.
RestStep ==
    (file.rest = "n" /\ file'.rest = "d") =>
        \E c \in calls : c.op = "save" /\ c.state = "writing" /\ c.blind
RestSurvivesSaves == [][RestStep]_vars

\* What the page says below its buttons: if nothing is pending, what is in the
\* file runs.  Only another administrator, a lost answer or a reload of the page
\* make it say so wrongly.
PendingIsHonest ==
    (~pending /\ ~doubt /\ calls = {}) =>
        /\ Served(file) = services
        /\ manager.auth = file.auth /\ manager.net = file.net /\ manager.gw = file.gw
        /\ schedulers[manager.scheduler] = [cron |-> file.cron, net |-> file.net]

\* What it says if something is pending: the saved configuration takes effect
\* only after a successful application.  Not so: one that fails at the schedule
\* has changed policy, proxy, upstream and gateway already.
ServesStep ==
    services' # services => \E c \in calls : c.op = "apply" /\ c.cfg.cron # "bad"
OnlySuccessTakesEffect == [][ServesStep]_vars

-----------------------------------------------------------------------------
\* What carries OneScheduler and RestStep from step to step: how far the only
\* application is, and that a save which has lost the rest knows it.
Alone == DOMAIN schedulers = {manager.scheduler}
Stage(c) ==
    /\ c.state \in {"sent", "begun", "loaded", "serving", "started", "stopping", "done", "refused"}
    /\ c.state \notin {"started", "stopping"} => Alone
    /\ c.state \in {"begun", "loaded", "serving", "started"} => c.old = manager.scheduler
    /\ c.state = "started" =>
          DOMAIN schedulers = {manager.scheduler, c.new} /\ c.new # manager.scheduler
    /\ c.state = "stopping" =>
          DOMAIN schedulers = {c.old, c.new} /\ c.old # c.new /\ c.new = manager.scheduler
IsCall(c) == c \in [op : {c.op}, mine : {c.mine}, cfg : Config, blind : {c.blind}, old : {c.old},
                   new : {c.new}, state : {c.state}]
ApplyTypes == file \in Config /\ form \in Config /\ overlapped \in BOOLEAN /\ \A c \in calls : IsCall(c)
KnowsItsLoss(c) == c.op = "save" /\ c.state \in {"merged", "writing"} /\ c.cfg.rest = "d" => c.blind
OneApplication ==
    /\ \A c, d \in Applies : c = d
    /\ \A c \in Applies : Stage(c)
    /\ Applies = {} => Alone
ApplyInv ==
    /\ ApplyTypes
    /\ \A c \in calls : KnowsItsLoss(c)
    /\ ~overlapped => OneApplication

\* What carries PendingIsHonest: as long as the page knows of all that is done, one
\* save or application is under way at a time, and the application runs what is in
\* the file, step by step.
Running(c) == [cron |-> c.cron, net |-> c.net]
Honest ==
    /\ Served(file) = services
    /\ manager.auth = file.auth /\ manager.net = file.net /\ manager.gw = file.gw
    /\ schedulers[manager.scheduler] = Running(file)
NoZero(c) == c.net # "zero" /\ c.gw # "zero"
OnTheWay(c) ==
    /\ c.state = "refused" => c.op = "apply"
    /\ c.op = "save" /\ c.state \in {"merged", "writing"} => NoZero(c.cfg)
    /\ c.op = "apply" =>
        /\ c.state \in {"loaded", "serving", "started", "stopping"} => c.cfg = file
        /\ c.state \in {"serving", "started"} => services = Served(file)
        /\ c.state = "started" => schedulers[c.new] = Running(file)
        /\ c.state \in {"stopping", "done"} => Honest
KnownInv ==
    /\ ~overlapped /\ NoZero(file)
    /\ \A c \in calls : c.op \in {"get", "save", "apply"} /\ c.mine /\ OnTheWay(c)
    /\ \A c \in calls : (c.op = "save" => saving) /\ (c.op = "apply" => applying)
    /\ \A c, d \in calls : c.op # "get" /\ d.op # "get" => c = d
    /\ torn => \E c \in calls : c.op = "save" /\ c.state = "writing"
    /\ pending \/ Honest \/ \E c \in calls : c.op = "save" /\ c.state = "done"
PendingInv == ~doubt => KnownInv
=============================================================================
