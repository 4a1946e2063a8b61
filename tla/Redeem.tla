--------------------------------- MODULE Redeem ---------------------------------
(***************************************************************************)
(* Redeeming a code for an upstream channel: the dialog of the channel     *)
(* cards (channel-redeem-dialog.tsx), the handler behind it                *)
(* (RedeemCode of channel/service.go) and the scans of the balance that    *)
(* write the same column (RefreshBalance of monitor/service.go).  The      *)
(* dialog serves every channel; it may be closed while a code is under     *)
(* way, and opened for another channel.                                    *)
(*                                                                         *)
(* A balance is the number of codes it has received; a code is good once.  *)
(***************************************************************************)
EXTENDS Naturals, FiniteSets

CONSTANTS
    Channels, NoChannel,
    Codes, NoCode,
    Scanners,   \* scans of a balance that can run at the same time
    MaxScans    \* bound: scans

VARIABLES
    channel, code, submitting, error,   \* the dialog: the channel it is open for, ...
    typedFor,   \* witness: the channel that was shown when the code was typed
    asked,      \* codes under way: the request and how far the handler is
    used,       \* codes the upstreams have taken
    bal,        \* a channel's balance at its upstream
    row,        \* last_balance of the channel's row
    scan,       \* a scan: its channel, whether it has asked, and what it was told
    begun,      \* scans begun
    stale       \* witness: channels whose row an older balance may have reached

dialog == <<channel, code, submitting, error, typedFor>>
vars == <<dialog, asked, used, bal, row, scan, begun, stale>>

Amounts == 0..Cardinality(Codes)
Request == [channel : Channels, code : Codes,
            pc : {"sent", "taken", "told", "stored"}, value : Amounts]
Idle == [channel |-> NoChannel, told |-> FALSE, value |-> 0]

TypeOK ==
    /\ channel \in Channels \cup {NoChannel} /\ typedFor \in Channels \cup {NoChannel}
    /\ code \in Codes \cup {NoCode} /\ submitting \in BOOLEAN /\ error \in BOOLEAN
    /\ asked \subseteq Request /\ used \subseteq Codes
    /\ bal \in [Channels -> Amounts] /\ row \in [Channels -> Amounts]
    /\ scan \in [Scanners -> [channel : Channels \cup {NoChannel}, told : BOOLEAN, value : Amounts]]
    /\ begun \in 0..MaxScans /\ stale \subseteq Channels

Init ==
    /\ channel = NoChannel /\ code = NoCode /\ submitting = FALSE /\ error = FALSE
    /\ typedFor = NoChannel /\ asked = {} /\ used = {}
    /\ bal = [c \in Channels |-> 0] /\ row = bal
    /\ scan = [s \in Scanners |-> Idle] /\ begun = 0 /\ stale = {}

\* What else holds a balance of the channel that is not yet in its row.
Holders(c) ==
    Cardinality({s \in Scanners : scan[s].channel = c /\ scan[s].told})
    + Cardinality({q \in asked : q.channel = c /\ q.pc \in {"taken", "told"}})

-----------------------------------------------------------------------------
(* The dialog *)

\* The effect on open and channel: the code of another visit is forgotten.
Reset_KeepsCode == UNCHANGED <<code, typedFor>> /\ error' = FALSE
Reset == code' = NoCode /\ typedFor' = NoChannel /\ error' = FALSE

Open(c) ==
    /\ channel = NoChannel /\ channel' = c /\ Reset
    /\ UNCHANGED <<submitting, asked, used, bal, row, scan, begun, stale>>

\* The corner button and Escape; only Cancel is disabled while a code is under way.
Close ==
    /\ channel # NoChannel /\ channel' = NoChannel
    /\ UNCHANGED <<code, submitting, error, typedFor, asked, used, bal, row, scan, begun, stale>>

Type(k) ==
    /\ channel # NoChannel /\ ~submitting /\ code # k
    /\ code' = k /\ typedFor' = channel
    /\ UNCHANGED <<channel, submitting, error, asked, used, bal, row, scan, begun, stale>>

MaySubmit_Always == code # NoCode
MaySubmit == ~submitting /\ code # NoCode

Submit ==
    /\ channel # NoChannel /\ MaySubmit
    /\ submitting' = TRUE /\ error' = FALSE
    /\ asked' = asked \cup {[channel |-> channel, code |-> code, pc |-> "sent", value |-> 0]}
    /\ UNCHANGED <<channel, code, typedFor, used, bal, row, scan, begun, stale>>

\* The answer closes the dialog, whatever channel it shows by now.
Answered(q) ==
    /\ q.pc = "stored" /\ asked' = asked \ {q}
    /\ channel' = NoChannel /\ submitting' = FALSE
    /\ UNCHANGED <<code, error, typedFor, used, bal, row, scan, begun, stale>>

\* A refusal, or a request that is lost; the handler does not go on.
Failed(q) ==
    /\ asked' = asked \ {q} /\ error' = TRUE /\ submitting' = FALSE
    /\ stale' = IF q.pc \in {"taken", "told"} THEN stale \cup {q.channel} ELSE stale
    /\ UNCHANGED <<channel, code, typedFor, used, bal, row, scan, begun>>

-----------------------------------------------------------------------------
(* The handler *)

To(q, pc, v) == asked' = (asked \ {q}) \cup {[q EXCEPT !.pc = pc, !.value = v]}

\* conn.RedeemCode: one upstream names the new balance in its answer, the other
\* has to be asked for it.
Take(q) ==
    /\ q.pc = "sent" /\ q.code \notin used
    /\ used' = used \cup {q.code}
    /\ bal' = [bal EXCEPT ![q.channel] = @ + 1]
    /\ \E pc \in {"taken", "told"} : To(q, pc, bal[q.channel] + 1)
    /\ stale' = IF Holders(q.channel) > 0 THEN stale \cup {q.channel} ELSE stale
    /\ UNCHANGED <<dialog, row, scan, begun>>

\* GetBalance with the same session; its failure is ignored.
AskBalance_Before(q) == bal[q.channel] - 1
AskBalance(q) == bal[q.channel]

Ask(q) ==
    /\ q.pc = "taken"
    /\ \/ To(q, "told", AskBalance(q)) /\ UNCHANGED stale
       \/ To(q, "stored", 0) /\ stale' = stale \cup {q.channel}
    /\ UNCHANGED <<dialog, used, bal, row, scan, begun>>

\* UpdateBalance; the error of the statement is ignored.
Store(q) ==
    /\ q.pc = "told" /\ To(q, "stored", q.value)
    /\ row' = [row EXCEPT ![q.channel] = q.value]
    /\ UNCHANGED <<dialog, used, bal, scan, begun, stale>>

-----------------------------------------------------------------------------
(* RefreshBalance: log in, ask, store *)

Begin(s, c) ==
    /\ scan[s] = Idle /\ begun < MaxScans /\ begun' = begun + 1
    /\ scan' = [scan EXCEPT ![s].channel = c]
    /\ UNCHANGED <<dialog, asked, used, bal, row, stale>>

Told(s) ==
    /\ scan[s].channel # NoChannel /\ ~scan[s].told
    /\ scan' = [scan EXCEPT ![s].told = TRUE, ![s].value = bal[scan[s].channel]]
    /\ UNCHANGED <<dialog, asked, used, bal, row, begun, stale>>

\* What it stores is the balance of now, unless somebody holds another.
Done(s) ==
    LET c == scan[s].channel IN
    /\ scan[s].told
    /\ row' = [row EXCEPT ![c] = scan[s].value]
    /\ scan' = [scan EXCEPT ![s] = Idle]
    /\ stale' = IF Holders(c) = 1 /\ scan[s].value = bal[c] THEN stale \ {c} ELSE stale
    /\ UNCHANGED <<dialog, asked, used, bal, begun>>

\* The upstream does not answer.
GiveUp(s) ==
    /\ scan[s].channel # NoChannel /\ ~scan[s].told
    /\ scan' = [scan EXCEPT ![s] = Idle]
    /\ UNCHANGED <<dialog, asked, used, bal, row, begun, stale>>

-----------------------------------------------------------------------------
Next ==
    \/ \E c \in Channels : Open(c)
    \/ Close \/ Submit
    \/ \E k \in Codes : Type(k)
    \/ \E q \in asked : Answered(q) \/ Failed(q) \/ Take(q) \/ Ask(q) \/ Store(q)
    \/ \E s \in Scanners : Told(s) \/ Done(s) \/ GiveUp(s) \/ \E c \in Channels : Begin(s, c)

Spec == Init /\ [][Next]_vars

-----------------------------------------------------------------------------
(* Properties *)

\* No code is sent to another channel than the one that was shown when it was
\* typed.
SentAsTyped ==
    \A q \in asked' \ asked : q.pc = "sent" => typedFor = q.channel /\ code = q.code

\* The dialog says so while a code is under way, over closing and opening, and
\* there is one at a time.
SubmittingIsExact == Cardinality(asked) = (IF submitting THEN 1 ELSE 0)

\* Once nothing is under way, the row of a channel has its upstream's balance: a
\* redeemed code shows at once, and no scan takes it back, except one that was
\* told the balance before the code was taken; nor does it show if nobody could be
\* asked for the balance.
RowHasTheBalance ==
    \A c \in Channels :
        asked = {} /\ (\A s \in Scanners : scan[s].channel # c) /\ c \notin stale
            => row[c] = bal[c]

\* What carries SentAsTyped from step to step.
TypedInv ==
    /\ channel # NoChannel /\ code # NoCode => typedFor = channel
    /\ \A q \in asked : q = [channel |-> q.channel, code |-> q.code, pc |-> q.pc, value |-> q.value]

\* What carries SubmittingIsExact from step to step.
OneCode ==
    /\ submitting => \E q \in asked : asked = {q}
    /\ ~submitting => asked = {}
=============================================================================
