--------------------------- MODULE ForwardContract ---------------------------
(***************************************************************************)
(* What a client of the gateway may rely on, whatever happens upstream:    *)
(* an accepted request gets exactly one reply, the gateway spends no more  *)
(* upstream attempts on it than its group allows, and it makes none after  *)
(* the reply.  GatewayDispatch implements this specification.              *)
(***************************************************************************)
EXTENDS Naturals

CONSTANTS
    Requests,  \* the client requests
    Budgets    \* the attempt limits the groups impose

VARIABLES
    phase,     \* "new", then "open" while no reply was given, then "closed"
    budget,    \* attempts the group's retry policy allows
    attempts   \* upstream attempts made so far

vars == <<phase, budget, attempts>>

Init ==
    /\ phase = [r \in Requests |-> "new"]
    /\ budget = [r \in Requests |-> 0]
    /\ attempts = [r \in Requests |-> 0]

\* The request is accepted or refused; either way its group is settled.
Accept(r) ==
    /\ phase[r] = "new"
    /\ \E n \in Budgets : budget' = [budget EXCEPT ![r] = n]
    /\ \E p \in {"open", "closed"} : phase' = [phase EXCEPT ![r] = p]
    /\ UNCHANGED attempts

\* An attempt, which may also settle the request.
Try(r) ==
    /\ phase[r] = "open" /\ attempts[r] < budget[r]
    /\ attempts' = [attempts EXCEPT ![r] = @ + 1]
    /\ \E p \in {"open", "closed"} : phase' = [phase EXCEPT ![r] = p]
    /\ UNCHANGED budget

\* The request is answered with an error.
GiveUp(r) ==
    /\ phase[r] = "open"
    /\ phase' = [phase EXCEPT ![r] = "closed"]
    /\ UNCHANGED <<budget, attempts>>

Next == \E r \in Requests : Accept(r) \/ Try(r) \/ GiveUp(r)

Spec == Init /\ [][Next]_vars
=============================================================================
