-------------------------------- MODULE MCAtRest --------------------------------
(***************************************************************************)
(* Machines that must come to rest or arrive, one run for three: the       *)
(* alert about a low balance, the detail of the selected group, and the    *)
(* session of the browser's tabs.  The initial state chooses which runs,   *)
(* and the others stay where they are.                                     *)
(***************************************************************************)
EXTENDS AlertCooldown

CONSTANTS
    Groups, Nothing, MaxRequests, MaxClicks,   \* GroupDetail
    Tabs, Tokens, NoToken                      \* AuthSession

VARIABLES
    part,                                                  \* who runs
    server, listed, selected, link, panel, unloaded,       \* GroupDetail
    groupLoading, busy, loading, calls, clicks,
    watched, token, status, enabled, accepted, unused, requests   \* AuthSession

Detail == INSTANCE GroupDetail

Auth == INSTANCE AuthSession WITH MaxCalls <- 1

ASSUME CooldownAssumption /\ Detail!DetailAssumption

detailVars == <<server, listed, selected, link, panel, unloaded, groupLoading, busy,
                loading, calls, clicks>>
authVars == <<watched, token, status, enabled, accepted, unused, requests>>
allVars == <<part, vars, detailVars, authVars>>

AlertIdle == Init /\ claim = NoClaim
DetailIdle == Detail!Init /\ server = [g \in Groups |-> "unborn"]
AuthIdle == Auth!Init /\ watched = {} /\ token = NoToken /\ enabled

MCInit ==
    \/ part = "alert" /\ Init /\ DetailIdle /\ AuthIdle
    \/ part = "detail" /\ AlertIdle /\ Detail!Init /\ AuthIdle
    \/ part = "auth" /\ AlertIdle /\ DetailIdle /\ Auth!Init

MCNext ==
    /\ UNCHANGED part
    /\ \/ part = "alert" /\ Next /\ UNCHANGED <<detailVars, authVars>>
       \/ part = "detail" /\ Detail!Next /\ UNCHANGED <<vars, authVars>>
       \/ part = "auth" /\ Auth!Next /\ UNCHANGED <<vars, detailVars>>

\* Calls of the page are answered, tabs act, and balance checks go on.  With every tab
\* waiting for its first answer, nothing of Auth!Fairness is enabled.
MCSpec ==
    /\ MCInit /\ [][MCNext]_allVars
    /\ WF_detailVars(part = "detail" /\ Detail!Arrivals)
    /\ Auth!Fairness
    /\ \A s \in Checks : WF_vars(part = "alert" /\ Step(s))
    /\ WF_vars(part = "alert" /\ Tick)
    /\ WF_vars(part = "alert" /\ \E s \in Checks : Check(s))

\* The properties, as the modules of the parts state and explain them.
TypesOK == TypeOK /\ Detail!TypeOK /\ Auth!TypeOK

\* The buttons and the form of the routes say what is under way and what is known.
PageIsHonest == Detail!BusyIsExact /\ Detail!EmptyFormWasReported

\* A panel shows another group than the selected one only on account of a load
\* that was asked for without a number.
CoverNeedsUnnumbered == Detail!CoverNeedsUnnumbered

\* All of it ends: no veil, no locked button, no dead session stays in view, and an alert
\* arrives at whoever can be reached.
ComesToRest ==
    /\ Detail!VeilLifts /\ Detail!ButtonsReturn
    /\ Auth!DeadSessionNoticed
    /\ part = "alert" => LowIsTold
=============================================================================
