------------------------------- MODULE Recharge -------------------------------
(***************************************************************************)
(* The dialog that pays an upstream: a recharge of a channel's account, or *)
(* one of the upstream's subscription plans.  The answers of its loads are *)
(* dropped once the dialog has moved on; that of an order is not: it opens *)
(* the payment page, or shows the code to pay with in the dialog, whatever *)
(* channel the dialog is at by then.                                       *)
(*                                                                         *)
(* An amount is valid or it is not.  AllowedBy gives the methods a plan is *)
(* limited to, none for no limit.                                          *)
(***************************************************************************)
EXTENDS Naturals, FiniteSets

CONSTANTS
    Channels, NoChannel,
    Plans, Methods, Nothing,   \* Nothing: no plan, no method
    AllowedBy,
    MaxOrders, MaxClicks

VARIABLES
    channel, tab,
    loading, methods, method, amountOk,              \* the recharge form
    subLoading, offer, plan, subMethod,              \* the subscription form
    loads,        \* the answers that are still awaited by an effect
    submitting, orders,
    launch,       \* what is shown to pay with: the channel it pays for
    made, clicks,
    late          \* history: an order was answered after the dialog had moved on

vars == <<channel, tab, loading, methods, method, amountOk, subLoading, offer, plan, subMethod,
          loads, submitting, orders, launch, made, clicks, late>>
rechargeVars == <<loading, methods, method, amountOk>>
planVars == <<subLoading, offer, plan, subMethod>>

NoOffer == [there |-> FALSE, plans |-> {}, methods |-> {}]
Order == [ch : Channels, plan : Plans \cup {Nothing}, method : Methods,
          state : {"sent", "redirect", "code", "failed"}]

TypeOK ==
    /\ channel \in Channels \cup {NoChannel} /\ tab \in {"recharge", "subscription"}
    /\ methods \subseteq Methods /\ method \in Methods \cup {Nothing}
    /\ offer \in [there : BOOLEAN, plans : SUBSET Plans, methods : SUBSET Methods]
    /\ plan \in Plans \cup {Nothing} /\ subMethod \in Methods \cup {Nothing}
    /\ loads \subseteq [what : {"recharge", "subscription"}, ch : Channels]
    /\ orders \subseteq Order /\ launch \in Channels \cup {NoChannel}
    /\ loading \in BOOLEAN /\ subLoading \in BOOLEAN /\ amountOk \in BOOLEAN /\ submitting \in BOOLEAN

Init ==
    /\ channel = NoChannel /\ tab = "recharge"
    /\ loading = FALSE /\ methods = {} /\ method = Nothing /\ amountOk = FALSE
    /\ subLoading = FALSE /\ offer = NoOffer /\ plan = Nothing /\ subMethod = Nothing
    /\ loads = {} /\ submitting = FALSE /\ orders = {} /\ launch = NoChannel
    /\ made = 0 /\ clicks = 0 /\ late = FALSE

Open == channel # NoChannel
Click == clicks < MaxClicks /\ clicks' = clicks + 1
Form(t) == Click /\ Open /\ tab = t /\ launch = NoChannel /\ ~submitting

\* Mutant: what is shown to pay with stays when the dialog opens again.
NoLaunch_Kept == launch
NoLaunch == NoChannel
\* Mutant: the button of an order comes back when the dialog opens again.
Submitting_Reset == FALSE
Submitting == submitting

\* A channel's button: everything but the flag of an order under way is reset.
OpenDialog ==
    /\ Click /\ ~Open
    /\ channel' \in Channels /\ tab' = "recharge"
    /\ loading' = TRUE /\ methods' = {} /\ method' = Nothing /\ amountOk' = FALSE
    /\ subLoading' = FALSE /\ offer' = NoOffer /\ plan' = Nothing /\ subMethod' = Nothing
    /\ loads' = {[what |-> "recharge", ch |-> channel']}
    /\ launch' = NoLaunch /\ submitting' = Submitting
    /\ UNCHANGED <<orders, made, late>>
Closed == channel' = NoChannel /\ loads' = {}
\* Its buttons, or Escape.
CloseDialog ==
    /\ Click /\ Open /\ Closed
    /\ UNCHANGED <<tab, rechargeVars, planVars, submitting, orders, launch, made, late>>

RechargeInfoAnswered ==
    \E l \in loads :
        /\ l.what = "recharge" /\ loads' = loads \ {l} /\ loading' = FALSE
        /\ \/ /\ methods' \in SUBSET Methods
              /\ IF methods' = {} THEN method' = Nothing ELSE method' \in methods'
              /\ amountOk' \in BOOLEAN
           \/ UNCHANGED <<methods, method, amountOk>>
        /\ UNCHANGED <<channel, tab, planVars, submitting, orders, launch, made, clicks, late>>

\* Mutant: a plan's own methods are not looked at.
Available_OfUpstream(p, o) == o.methods
\* The methods a plan may be paid with, and the one that is chosen once another is not.
Available(p, o) ==
    IF p = Nothing \/ AllowedBy[p] = {} THEN o.methods ELSE o.methods \cap AllowedBy[p]
Settles(p, o, m) ==
    IF m \in Available(p, o) THEN subMethod' = m
    ELSE IF Available(p, o) = {} THEN subMethod' = Nothing
    ELSE subMethod' \in Available(p, o)

\* The subscription tab asks for the plans when it is shown, and again for its retry button.
AskForPlans == subLoading' = TRUE /\ loads' = loads \cup {[what |-> "subscription", ch |-> channel]}
ShowTab ==
    /\ Click /\ Open /\ launch = NoChannel
    /\ tab' \in {"recharge", "subscription"} \ {tab}
    /\ IF tab' = "subscription" THEN AskForPlans
       ELSE subLoading' = FALSE /\ loads' = {l \in loads : l.what = "recharge"}
    /\ UNCHANGED <<channel, rechargeVars, offer, plan, subMethod, submitting, orders, launch, made, late>>
RetryPlans ==
    /\ Click /\ Open /\ tab = "subscription" /\ launch = NoChannel /\ ~subLoading /\ ~offer.there
    /\ AskForPlans
    /\ UNCHANGED <<channel, tab, rechargeVars, offer, plan, subMethod, submitting, orders, launch, made, late>>
SubscriptionInfoAnswered ==
    \E l \in loads :
        /\ l.what = "subscription" /\ loads' = loads \ {l} /\ subLoading' = FALSE
        /\ \/ \E ps \in SUBSET Plans, ms \in SUBSET Methods :
                /\ offer' = [there |-> TRUE, plans |-> ps, methods |-> ms]
                /\ IF ps = {} THEN plan' = Nothing ELSE plan' \in ps
                /\ Settles(plan', offer', Nothing)
           \/ UNCHANGED <<offer, plan, subMethod>>
        /\ UNCHANGED <<channel, tab, rechargeVars, submitting, orders, launch, made, clicks, late>>

FillRecharge ==
    /\ Form("recharge") /\ ~loading
    /\ \/ amountOk' = ~amountOk /\ UNCHANGED method
       \/ method' \in methods /\ UNCHANGED amountOk
    /\ UNCHANGED <<channel, tab, loading, methods, planVars, loads, submitting, orders, launch, made, late>>
PickPlan ==
    /\ Form("subscription") /\ ~subLoading /\ offer.there
    /\ \/ plan' \in offer.plans /\ Settles(plan', offer, subMethod)
       \/ subMethod' \in Available(plan, offer) /\ UNCHANGED plan
    /\ UNCHANGED <<channel, tab, rechargeVars, subLoading, offer, loads, submitting, orders, launch, made, late>>

-----------------------------------------------------------------------------
Place(p, m) ==
    /\ made < MaxOrders /\ made' = made + 1
    /\ submitting' = TRUE
    /\ orders' = orders \cup {[ch |-> channel, plan |-> p, method |-> m, state |-> "sent"]}
    /\ UNCHANGED <<channel, tab, rechargeVars, planVars, loads, launch, late>>
CanSubmit == method \in methods /\ amountOk
HandleSubmit == Form("recharge") /\ ~loading /\ CanSubmit /\ Place(Nothing, method)
CanSubmitSubscription == plan \in offer.plans /\ subMethod \in Available(plan, offer)
HandleSubscriptionSubmit ==
    Form("subscription") /\ ~subLoading /\ offer.there /\ CanSubmitSubscription /\ Place(plan, subMethod)

\* The upstream makes the order and answers with a page or a code, or refuses.
OrderHandled ==
    \E o \in orders, s \in {"redirect", "code", "failed"} :
        /\ o.state = "sent"
        /\ orders' = (orders \ {o}) \cup {[o EXCEPT !.state = s]}
        /\ UNCHANGED <<channel, tab, rechargeVars, planVars, loads, submitting, launch, made, clicks, late>>
\* A page opens in a tab of its own and the dialog closes; a code is shown in it.
OrderAnswered ==
    \E o \in orders :
        /\ o.state # "sent" /\ orders' = orders \ {o} /\ submitting' = FALSE
        /\ IF o.state = "redirect" THEN Closed ELSE UNCHANGED <<channel, loads>>
        /\ launch' = IF o.state = "code" THEN o.ch ELSE launch
        /\ late' = (late \/ o.ch # channel)
        /\ UNCHANGED <<tab, rechargeVars, planVars, made, clicks>>
\* The code's buttons: back to the form.
Back ==
    /\ Click /\ Open /\ launch # NoChannel /\ launch' = NoChannel
    /\ UNCHANGED <<channel, tab, rechargeVars, planVars, loads, submitting, orders, made, late>>

Next ==
    \/ OpenDialog \/ CloseDialog \/ RechargeInfoAnswered \/ ShowTab \/ RetryPlans
    \/ SubscriptionInfoAnswered \/ FillRecharge \/ PickPlan
    \/ HandleSubmit \/ HandleSubscriptionSubmit \/ OrderHandled \/ OrderAnswered \/ Back

Spec == Init /\ [][Next]_vars

-----------------------------------------------------------------------------
\* The code shown to pay with pays for the channel of the dialog, unless an order was
\* answered after the dialog had moved on: then it pays another channel's account.
LaunchPaysThisChannel == Open /\ launch # NoChannel /\ ~late => launch = channel

\* No second order is placed while one is under way, by closing and opening the dialog
\* either: the first may have been made.
OneOrderAtATime == \A o, q \in orders : o = q

\* What is ordered is offered: the plan by this channel's upstream, with a method that
\* the upstream has and the plan allows, whatever was chosen for another plan before.
OfferedStep ==
    \A o \in orders' \ orders :
        o.state = "sent" /\ o.plan # Nothing =>
            /\ o.plan \in offer.plans /\ o.method \in offer.methods
            /\ AllowedBy[o.plan] # {} => o.method \in AllowedBy[o.plan]
OrderIsOffered == [][OfferedStep]_vars

-----------------------------------------------------------------------------
\* What carries them from step to step: an order keeps the buttons disabled.
IsOrder(o) == o \in [ch : {o.ch}, plan : {o.plan}, method : {o.method}, state : {o.state}]
OrderInv ==
    /\ LaunchPaysThisChannel /\ late \in BOOLEAN
    /\ \A o \in orders : IsOrder(o)
    /\ orders = {} \/ (submitting /\ \E o \in orders : orders = {o})
=============================================================================
