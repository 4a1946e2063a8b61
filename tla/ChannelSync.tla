----------------------------- MODULE ChannelSync -----------------------------
(***************************************************************************)
(* The progress strips of the channel cards (channel-cards.tsx): one       *)
(* channel's sync or login test, the sync of all channels, the events both *)
(* stream, and the timers that hide the strip of a success, while the      *)
(* handlers of api/channels.go work behind the streams.                    *)
(***************************************************************************)
EXTENDS Naturals, FiniteSets

CONSTANTS
    Channels,    \* the channels the server knows, all of them on the page
    All,         \* the key of the stream of the sync of all channels
    MaxStarts    \* bound: streams started

VARIABLES
    listed,   \* what useChannels has loaded: it may lag behind the page
    strip,    \* syncState of a channel
    timer,    \* hideTimers: "no", "show" (5 s) or "fade" (500 ms)
    bulk,     \* bulkSync
    open,     \* the stream of a channel, or of all
    starts

vars == <<listed, strip, timer, bulk, open, starts>>

(***************************************************************************)
(* A strip keeps its events by stage, so a stage that worked and the       *)
(* closing stage are all there is to see of them.                          *)
(***************************************************************************)
Fresh == [on |-> TRUE, running |-> TRUE, work |-> "none", closing |-> "none",
          latest |-> FALSE, finalOk |-> "open", fading |-> FALSE]
NoStrip == [Fresh EXCEPT !.on = FALSE, !.running = FALSE]

Closed == [live |-> FALSE, left |-> {}, at |-> {}, sawError |-> FALSE, over |-> FALSE]
OpenOn(S) == [Closed EXCEPT !.live = TRUE, !.left = S]

Init == /\ listed \in SUBSET Channels
        /\ strip = [c \in Channels |-> NoStrip]
        /\ timer = [c \in Channels |-> "no"]
        /\ bulk = [running |-> FALSE, completed |-> 0, total |-> 0]
        /\ open = [k \in Channels \cup {All} |-> Closed]
        /\ starts = 0

AnySyncRunning == bulk.running \/ \E c \in Channels : strip[c].running

\* patchSync over the channels S, and the timers of S cleared (clearHideTimer).
Patched(S, row) == [c \in Channels |-> IF c \in S THEN row ELSE strip[c]]
Cleared_KeepsFade(S) == [c \in Channels |-> IF c \in S /\ timer[c] = "show" THEN "no" ELSE timer[c]]
Cleared(S) == [c \in Channels |-> IF c \in S THEN "no" ELSE timer[c]]

StartStream(c) ==
    /\ ~AnySyncRunning /\ starts < MaxStarts
    /\ timer' = Cleared({c})
    /\ strip' = Patched({c}, Fresh)
    /\ open' = [open EXCEPT ![c] = OpenOn({c})]
    /\ starts' = starts + 1 /\ UNCHANGED <<listed, bulk>>

\* An empty list starts nothing.
StartBulkSync ==
    /\ ~AnySyncRunning /\ starts < MaxStarts /\ listed # {}
    /\ timer' = Cleared(listed)
    /\ strip' = Patched(listed, Fresh)
    /\ bulk' = [running |-> TRUE, completed |-> 0, total |-> Cardinality(listed)]
    /\ open' = [open EXCEPT ![All] = OpenOn(Channels)]
    /\ starts' = starts + 1 /\ UNCHANGED listed

(***************************************************************************)
(* The server works on one channel at a time; each stage reports that it   *)
(* goes on and how it ended, and an error may leave a stage without an end.*)
(***************************************************************************)
Bad(ev) == ev \in {"bad", "error"}
Closing(ev) == ev \in {"done", "error"}

\* onEvent of one channel's stream, and of the stream of all.
Took(c, ev) ==
    [strip[c] EXCEPT !.work = IF Closing(ev) THEN @ ELSE ev, !.closing = IF Closing(ev) THEN ev ELSE @,
                     !.on = TRUE, !.latest = TRUE]
TookInBulk(c, ev) ==
    [Took(c, ev) EXCEPT !.running = ~Closing(ev), !.fading = FALSE,
                        !.finalOk = IF ev = "done" THEN "ok" ELSE IF ev = "error" THEN "failed" ELSE @]

StreamEvent(c, ev) ==
    /\ open[c].live /\ ~open[c].over
    /\ ev = "done" => ~open[c].sawError
    /\ strip' = [strip EXCEPT ![c] = Took(c, ev)]
    /\ open' = [open EXCEPT ![c] = [open[c] EXCEPT !.sawError = @ \/ Bad(ev), !.over = Closing(ev)]]
    /\ UNCHANGED <<listed, timer, bulk, starts>>

\* The server counts its own channels, not the page's.
Total_FromList == Cardinality(listed)
Total == Cardinality(Channels)
BulkEvent(c, ev) ==
    LET s == open[All] IN
    /\ s.live /\ c \in s.left /\ s.at \subseteq {c}
    /\ ev = "done" => ~s.sawError
    /\ strip' = [strip EXCEPT ![c] = TookInBulk(c, ev)]
    /\ timer' = IF ev = "done" THEN [timer EXCEPT ![c] = "show"] ELSE timer
    /\ open' = [open EXCEPT ![All] =
                    [s EXCEPT !.left = IF Closing(ev) THEN @ \ {c} ELSE @,
                              !.at = IF Closing(ev) THEN {} ELSE {c},
                              !.sawError = ~Closing(ev) /\ (@ \/ Bad(ev))]]
    /\ bulk' = [bulk EXCEPT !.total = Total,
                            !.completed = Cardinality(Channels \ s.left) + 1]
    /\ UNCHANGED <<listed, starts>>

(***************************************************************************)
(* A stream is over when the server closed it; before that it may break,   *)
(* or the server may have refused it.                                      *)
(***************************************************************************)
AfterEnd_Always(c) == "show"
AfterEnd(c) == IF open[c].sawError THEN timer[c] ELSE "show"
StreamEnded(c) ==
    /\ open[c].live /\ open[c].over
    /\ strip' = [strip EXCEPT ![c] = [@ EXCEPT !.running = FALSE,
                                               !.finalOk = IF open[c].sawError THEN "failed" ELSE "ok"]]
    /\ timer' = [timer EXCEPT ![c] = AfterEnd(c)]
    /\ open' = [open EXCEPT ![c] = Closed] /\ UNCHANGED <<listed, bulk, starts>>

\* The error is put into latest, not among the events.
StreamBroke(c) ==
    /\ open[c].live
    /\ strip' = [strip EXCEPT ![c] = [@ EXCEPT !.running = FALSE, !.finalOk = "failed", !.latest = TRUE]]
    /\ open' = [open EXCEPT ![c] = Closed] /\ UNCHANGED <<listed, timer, bulk, starts>>

Stopped_OnlyListed == [c \in Channels |-> IF c \in listed THEN [strip[c] EXCEPT !.running = FALSE] ELSE strip[c]]
Stopped == [c \in Channels |-> [strip[c] EXCEPT !.running = FALSE]]

\* All channels done, or the stream broke; the finally block is the same.
BulkEnded ==
    /\ open[All].live
    /\ strip' = Stopped /\ bulk' = [bulk EXCEPT !.running = FALSE]
    /\ open' = [open EXCEPT ![All] = Closed] /\ UNCHANGED <<listed, timer, starts>>

\* The two timers of scheduleHide.
StartFading(c) ==
    /\ timer[c] = "show" /\ timer' = [timer EXCEPT ![c] = "fade"]
    /\ strip' = [strip EXCEPT ![c] = [@ EXCEPT !.fading = TRUE, !.on = TRUE]] /\ UNCHANGED <<listed, bulk, open, starts>>
Hide(c) ==
    /\ timer[c] = "fade" /\ timer' = [timer EXCEPT ![c] = "no"]
    /\ strip' = [strip EXCEPT ![c] = NoStrip] /\ UNCHANGED <<listed, bulk, open, starts>>

\* Another page of the console: the timers are cleared, the streams go on
\* without anyone to show them to.
Leave == /\ strip' = [c \in Channels |-> NoStrip] /\ timer' = Cleared(Channels)
         /\ bulk' = [bulk EXCEPT !.running = FALSE, !.completed = 0, !.total = 0]
         /\ open' = [k \in Channels \cup {All} |-> Closed] /\ UNCHANGED <<listed, starts>>

Events == {"going", "good", "bad", "done", "error"}
Next == \/ \E c \in Channels : StartStream(c) \/ StreamEnded(c) \/ StreamBroke(c) \/ StartFading(c) \/ Hide(c)
        \/ \E c \in Channels, ev \in Events : StreamEvent(c, ev) \/ BulkEvent(c, ev)
        \/ StartBulkSync \/ BulkEnded \/ Leave

Spec == Init /\ [][Next]_vars
-----------------------------------------------------------------------------
Strips == [on: BOOLEAN, running: BOOLEAN, work: {"none", "going", "good", "bad"},
           closing: {"none", "done", "error"}, latest: BOOLEAN,
           finalOk: {"open", "ok", "failed"}, fading: BOOLEAN]
Streams == [live: BOOLEAN, left: SUBSET Channels, at: SUBSET Channels, sawError: BOOLEAN, over: BOOLEAN]
TypeOK ==
    /\ listed \subseteq Channels /\ starts \in 0..MaxStarts
    /\ strip \in [Channels -> Strips]
    /\ timer \in [Channels -> {"no", "show", "fade"}]
    /\ bulk.running \in BOOLEAN /\ bulk.total \in 0..Cardinality(Channels) /\ bulk.completed \in 0..bulk.total
    /\ open \in [Channels \cup {All} -> Streams]

\* A channel whose own stream is open shows a strip that runs and stays: no
\* timer of an earlier success hides it, and so, with the buttons' guard, the
\* page never has two streams open (clearHideTimer, scheduleHide).
OpenStreamIsShown ==
    /\ \A c \in Channels : open[c].live => strip[c].on /\ strip[c].running /\ ~strip[c].fading
    /\ Cardinality({k \in Channels \cup {All} : open[k].live}) <= 1

\* When no stream is open, nothing runs: however a stream ended, for whichever
\* of its channels, the buttons come back (the finally blocks of startStream
\* and startBulkSync, even for channels the list did not hold).
ButtonsComeBack == (\A k \in Channels \cup {All} : ~open[k].live) => ~AnySyncRunning

Failed(c) == strip[c].on /\ strip[c].finalOk = "failed" /\ ~strip[c].running
FailureKept == \A c \in listed : Failed(c) => strip'[c] \in {strip[c], Fresh} \/ Leave
\* "失败保留，不调度自动隐藏": the strip of a failure stays until the channel's next
\* sync or until the page is left, for every channel the list held.
FailureStays == [][FailureKept]_vars

\* What the strip draws: a spinner for a stage that has not ended, or while
\* there are no events at all.
Visible(c) == strip[c].on /\ (strip[c].running \/ strip[c].latest)
Spins(c) == strip[c].work = "going" \/ (strip[c].work = "none" /\ strip[c].closing = "none")

\* A failure that is kept is shown as one: no spinner turns in a strip whose
\* sync is over.
SettledStripsRest == \A c \in Channels : Visible(c) /\ ~strip[c].running => ~Spins(c)

-----------------------------------------------------------------------------
\* What carries FailureKept from step to step: of the channels the list holds, one that
\* a stream is still to report on runs and has no timer, and neither has a failure.
StripTypes ==
    /\ listed \subseteq Channels /\ strip \in [Channels -> Strips]
    /\ timer \in [Channels -> {"no", "show", "fade"}]
    /\ open \in [Channels \cup {All} -> Streams]
    /\ bulk \in [running : BOOLEAN, completed : {bulk.completed}, total : {bulk.total}]
StripInv ==
    /\ StripTypes
    /\ open[All].live => bulk.running /\ \A c \in Channels : ~open[c].live
    /\ \A c \in Channels : open[c].live => strip[c].running /\ timer[c] = "no"
    /\ \A c \in listed : open[All].live /\ c \in open[All].left => strip[c].running /\ timer[c] = "no"
    /\ \A c \in listed : strip[c].finalOk = "failed" => timer[c] = "no"

\* What carries OpenStreamIsShown and ButtonsComeBack: what runs has its stream.
ShownInv ==
    /\ \A c \in Channels : open[c].live => strip[c].on /\ ~strip[c].fading
    /\ \A c, d \in Channels : open[c].live /\ open[d].live => c = d
    /\ \A c \in Channels : strip[c].running => open[c].live \/ open[All].live
    /\ bulk.running => open[All].live
=============================================================================
