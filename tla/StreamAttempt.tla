---------------------------- MODULE StreamAttempt ----------------------------
(***************************************************************************)
(* One streaming attempt: forwardStreamWithToolBridge and the select loop  *)
(* of its incremental path (backend/gateway/runtime_stream.go).            *)
(*                                                                         *)
(* A scanner goroutine reads the upstream's body into a buffered channel;  *)
(* the loop selects, in any order, among that channel, the first-token     *)
(* timer, the idle ticker, the keepalive ticker, the client's context and  *)
(* the forward timeout.  Until the first frame is written the attempt may  *)
(* fail over; afterwards it may only end the stream.                       *)
(*                                                                         *)
(* Abstractions: a line is the event it completes; an event is what the    *)
(* loop tells apart,                                                       *)
(*   ping   a comment                  done   the protocol's success end   *)
(*   data   any other payload          fail   the protocol's failure event *)
(*   alike  a payload whose text reads like an end (sseFrameIsTerminal     *)
(*          looks for substrings anywhere in the frame),                   *)
(* and clocks are left out: a timer may ring whenever it runs.             *)
(***************************************************************************)
EXTENDS Integers, Sequences

CONSTANTS
    MaxEvents,   \* bound of the events an upstream sends
    ChanSize     \* capacity of the channel between scanner and loop

StreamAssumption == MaxEvents \in Nat /\ ChanSize \in Nat \ {0}

VARIABLES
    mode,    \* converted: between protocols; armed: under the first-token timeout
    pc,      \* "headers", "select", "end"
    res,     \* streamAttemptResult, and what the client has received
    saw,     \* sawUpstreamData
    timer,   \* the first-token timer
    heard,   \* clientDone has been received from
    here,    \* the client's context is not canceled
    late,    \* the forward timeout is over
    quiet,   \* nothing has been read for idleTimeout
    scan,    \* the scanner goroutine
    chan,    \* events
    tail     \* "open", or the unfinished event the body ended with, or "none"

env  == <<here, late, quiet>>
pipe == <<scan, chan, tail>>
vars == <<mode, pc, res, saw, timer, heard, env, pipe>>

Event == {"ping", "data", "alike", "done", "fail"}

Result == [committed : BOOLEAN, gone : BOOLEAN, complete : BOOLEAN,
           err : {"none", "timeout", "canceled", "transport"},
           serr : {"none", "client", "upstream"}, bad : BOOLEAN, conv : BOOLEAN,
           seen : {"nothing", "done", "fail", "closed", "broken"},
           ends : 0..2, alike : BOOLEAN]

\* committed, gone (ClientDisconnected), complete (DownstreamComplete), err and
\* serr (StreamErr) are the code's; bad: the status is not 2xx; conv: the
\* converter has written its end.  Witnesses: how the upstream ended as the loop
\* saw it, and the endings and look-alikes the client got.
NewResult == [committed |-> FALSE, gone |-> FALSE, complete |-> FALSE, err |-> "none",
              serr |-> "none", bad |-> FALSE, conv |-> FALSE, seen |-> "nothing",
              ends |-> 0, alike |-> FALSE]

Init ==
    /\ mode \in [converted : BOOLEAN, armed : BOOLEAN]
    /\ pc = "headers"
    /\ res = NewResult
    /\ saw = FALSE /\ timer = "off" /\ heard = FALSE
    /\ here \in BOOLEAN /\ late = FALSE /\ quiet = FALSE
    /\ scan = [pc |-> "off", item |-> "none", sent |-> 0]
    /\ chan = << >> /\ tail = "open"

-----------------------------------------------------------------------------
(* Writing to the client *)

\* A frame reaches the client; any but a plain one counts as the end.
Received(r, f) ==
    [r EXCEPT !.complete = @ \/ f # "plain", !.alike = @ \/ f = "alike",
              !.ends = IF f \in {"end", "error"} THEN @ + 1 ELSE @]

\* Variant: the frame is noted as the end before its write is known to have failed.
Written_NotesFirst(r, f) ==
    LET c == [r EXCEPT !.committed = TRUE] IN
    IF f = "none" THEN {r}
    ELSE IF c.gone THEN {c}
    ELSE {Received(c, f)}
         \cup (IF here THEN {} ELSE {[c EXCEPT !.gone = TRUE, !.complete = @ \/ f # "plain"]})

\* writeFrames: the first frame commits.  A write to a client that has left may
\* fail or go into a buffer.
Written(r, f) ==
    LET c == [r EXCEPT !.committed = TRUE] IN
    IF f = "none" THEN {r}
    ELSE IF c.gone THEN {c}
    ELSE {Received(c, f)} \cup (IF here THEN {} ELSE {[c EXCEPT !.gone = TRUE]})

\* sendTerminalError.
ErrorSent(r) ==
    IF ~r.committed \/ r.gone THEN {r}
    ELSE {Received(r, "error")} \cup (IF here THEN {} ELSE {r})

\* Frames an event becomes.  Passed through, it is its own frame, and a failure is
\* taken for an end unless its name is only in the payload.  A converter may keep
\* an event back, and shows a failed response as an ended one.
Passed    == [ping |-> {"plain"}, data |-> {"plain"}, alike |-> {"alike"},
              done |-> {"end"}, fail |-> {"plain", "error"}]
Converted == [ping |-> {"none", "plain"}, data |-> {"none", "plain"},
              alike |-> {"none", "alike"}, done |-> {"none", "plain", "end"},
              fail |-> {"none", "plain", "end"}]

Frames(r, e) ==
    IF mode.converted THEN IF r.conv THEN {"none"} ELSE Converted[e]
    ELSE IF e = "ping" /\ ~r.committed THEN {"none"} ELSE Passed[e]

\* processEvent.
Fed(r, e) ==
    UNION {Written([r EXCEPT !.conv = @ \/ f = "end"], f) : f \in Frames(r, e)}

\* closeConverters: the end, unless the converter has written it.
Closed(r) ==
    IF mode.converted /\ ~r.conv THEN Written([r EXCEPT !.conv = TRUE], "end") ELSE {r}

\* finalizeStreamClientDisconnect.
Finalized(r) ==
    IF ~r.gone THEN r
    ELSE IF r.complete THEN [r EXCEPT !.gone = FALSE]
    ELSE IF r.serr = "none" THEN [r EXCEPT !.serr = "client"] ELSE r

Ends(results) == pc' = "end" /\ res' \in results

\* Before the first frame the caller gets an error and may try another route.
Retryable(err) == [res EXCEPT !.err = err]
Broken(r) == [r EXCEPT !.serr = "upstream"]

-----------------------------------------------------------------------------
(* Up to the response headers *)

\* Variant: the timer of the loop is started whether or not the timeout is armed.
FirstTimer_Always == "armed"

FirstTimer == IF mode.armed THEN "armed" ELSE "off"

\* doHTTPWithFirstTokenDeadline and what follows it: an error, a bad status, the
\* first-token timeout (before the headers, after them, or with the scanner just
\* started), or the stream.
Headers ==
    /\ pc = "headers"
    /\ \/ Ends({Retryable("transport"), [res EXCEPT !.bad = TRUE]}) /\ UNCHANGED <<timer, scan>>
       \/ /\ mode.armed
          /\ Ends({Retryable("timeout")})
          /\ UNCHANGED timer /\ scan' \in {scan, [scan EXCEPT !.pc = "read"]}
       \/ /\ ~late
          /\ pc' = "select" /\ timer' = FirstTimer
          /\ scan' = [scan EXCEPT !.pc = "read"]
          /\ UNCHANGED res
    /\ UNCHANGED <<mode, saw, heard, env, chan, tail>>

-----------------------------------------------------------------------------
(* The select loop *)

\* A comment before the first frame, passed through, is dropped.
Ping ==
    /\ pc = "select" /\ chan # << >> /\ Head(chan) = "ping"
    /\ ~mode.converted /\ ~res.committed
    /\ chan' = Tail(chan)
    /\ UNCHANGED <<mode, pc, res, saw, timer, heard, env, scan, tail>>

\* Variant: the error is sent although the upstream's own has gone out.
Failed_TellsTwice(r) == {Finalized(Broken(b)) : b \in ErrorSent(r)}

\* The end after a failure event: told to the client unless a frame has done it.
Failed(r) ==
    {Finalized(Broken(b)) : b \in IF r.complete THEN {r} ELSE ErrorSent(r)}

\* The end after a success event.
Succeeded(r) == {Finalized(b) : b \in Closed(r)}

\* A whole event.  It counts as data, whatever the converter makes of it.
Payload ==
    /\ pc = "select" /\ chan # << >>
    /\ LET e == Head(chan) IN
       /\ e \in Event
       /\ ~(e = "ping" /\ ~mode.converted /\ ~res.committed)
       /\ \E r \in Fed(res, e) :
             IF e = "done" THEN Ends(Succeeded([r EXCEPT !.seen = "done"]))
             ELSE IF e = "fail" THEN Ends(Failed([r EXCEPT !.seen = "fail"]))
             ELSE res' = r /\ UNCHANGED pc
    /\ chan' = Tail(chan)
    /\ saw' = TRUE /\ timer' = "off"
    /\ UNCHANGED <<mode, heard, env, scan, tail>>

\* The scanner reports an error of the body.
ReadError ==
    LET r == [res EXCEPT !.seen = "broken"] IN
    /\ pc = "select" /\ chan # << >> /\ Head(chan) = "broken"
    /\ Ends(IF ~res.committed THEN {[r EXCEPT !.err = "transport"]}
            ELSE IF res.gone THEN {Finalized(r)}
            ELSE {Broken(b) : b \in ErrorSent(r)})
    /\ chan' = Tail(chan)
    /\ UNCHANGED <<mode, saw, timer, heard, env, scan, tail>>

\* Variant: the converter completes a stream that broke off.
AtEOF_Completes(r) ==
    IF r.committed THEN Succeeded(r) ELSE {[r EXCEPT !.err = "transport"]}

\* The body is over.  Without an end for the client the stream has failed.
AtEOF(r) ==
    IF r.complete THEN Succeeded(r)
    ELSE IF ~r.committed THEN {[r EXCEPT !.err = "transport"]}
    ELSE {Finalized(Broken(b)) : b \in ErrorSent(r)}

\* An event the body ended in the middle of is processed first, but not examined.
EOF ==
    /\ pc = "select" /\ chan = << >> /\ tail # "open"
    /\ \E r \in IF tail = "none" THEN {res} ELSE Fed(res, tail) :
          Ends(AtEOF([r EXCEPT !.seen = IF tail = "done" THEN "done" ELSE "closed"]))
    /\ UNCHANGED <<mode, saw, timer, heard, env, pipe>>

\* upCtx.Done.
Deadline ==
    /\ pc = "select" /\ late
    /\ Ends(IF ~res.committed THEN {Retryable("transport")}
            ELSE IF res.gone THEN {Finalized(res)}
            ELSE {Broken(b) : b \in ErrorSent(res)})
    /\ UNCHANGED <<mode, saw, timer, heard, env, pipe>>

\* Variant: a client that leaves ends the attempt in any case.
ClientDone_Aborts ==
    /\ pc = "select" /\ ~here /\ ~heard
    /\ Ends({IF res.committed THEN [res EXCEPT !.gone = TRUE, !.serr = "client"]
             ELSE [res EXCEPT !.gone = TRUE, !.err = "canceled"]})
    /\ heard' = TRUE
    /\ UNCHANGED <<mode, saw, timer, env, pipe>>

\* clientCtx.Done: before the first frame the upstream is aborted, afterwards it is
\* read to the end for its usage.
ClientDone ==
    /\ pc = "select" /\ ~here /\ ~heard
    /\ IF res.committed THEN res' = [res EXCEPT !.gone = TRUE] /\ UNCHANGED pc
       ELSE Ends({[res EXCEPT !.gone = TRUE, !.err = "canceled"]})
    /\ heard' = TRUE
    /\ UNCHANGED <<mode, saw, timer, env, pipe>>

\* The first-token timer is received from.
FirstToken ==
    /\ pc = "select" /\ timer = "rung"
    /\ IF saw \/ res.committed THEN UNCHANGED <<pc, res>> ELSE Ends({Retryable("timeout")})
    /\ timer' = "off"
    /\ UNCHANGED <<mode, saw, heard, env, pipe>>

\* The keepalive frame cannot be written (written, it changes nothing).
Keepalive ==
    /\ pc = "select" /\ res.committed /\ ~res.gone /\ ~here
    /\ res' = [res EXCEPT !.gone = TRUE]
    /\ UNCHANGED <<mode, pc, saw, timer, heard, env, pipe>>

\* Variant: the attempt is given back for a retry although frames were written.
Idle_Retries ==
    /\ pc = "select" /\ saw /\ quiet
    /\ Ends({Retryable("transport")})
    /\ UNCHANGED <<mode, saw, timer, heard, env, pipe>>

\* The idle ticker finds that nothing was read for idleTimeout.
Idle ==
    /\ pc = "select" /\ saw /\ quiet
    /\ Ends(IF ~res.committed THEN {Retryable("transport")}
            ELSE {Broken(b) : b \in ErrorSent(res)})
    /\ UNCHANGED <<mode, saw, timer, heard, env, pipe>>

Select ==
    \/ Ping \/ Payload \/ ReadError \/ EOF \/ Deadline \/ ClientDone
    \/ FirstToken \/ Keepalive \/ Idle

-----------------------------------------------------------------------------
(* The scanner and the upstream *)

\* One more event of the body; the time of the read is noted.
Scan ==
    /\ scan.pc = "read" /\ scan.sent < MaxEvents /\ pc # "end"
    /\ \E e \in Event : scan' = [pc |-> "put", item |-> e, sent |-> scan.sent + 1]
    /\ quiet' = FALSE
    /\ UNCHANGED <<mode, pc, res, saw, timer, heard, here, late, chan, tail>>

\* The body ends, perhaps in the middle of an event, and the channel is closed.
ScanEnd ==
    /\ scan.pc = "read" /\ pc # "end"
    /\ tail' \in Event \cup {"none"}
    /\ scan' = [scan EXCEPT !.pc = "end"]
    /\ UNCHANGED <<mode, pc, res, saw, timer, heard, env, chan>>

\* The body breaks.
ScanBreaks ==
    /\ scan.pc = "read" /\ pc # "end"
    /\ scan' = [scan EXCEPT !.pc = "put", !.item = "broken"]
    /\ UNCHANGED <<mode, pc, res, saw, timer, heard, env, chan, tail>>

\* The read fails for certain when the context is over or the body is closed.
ScanCanceled ==
    /\ scan.pc = "read" /\ (late \/ pc = "end")
    /\ scan' = [scan EXCEPT !.pc = "put", !.item = "broken"]
    /\ UNCHANGED <<mode, pc, res, saw, timer, heard, env, chan, tail>>

\* Variant: the scanner does not listen to "done".
Put_Blocks ==
    /\ scan.pc = "put" /\ Len(chan) < ChanSize
    /\ chan' = Append(chan, scan.item)
    /\ scan' = [scan EXCEPT !.pc = IF scan.item = "broken" THEN "end" ELSE "read",
                            !.item = "none"]
    /\ tail' = IF scan.item = "broken" THEN "none" ELSE tail
    /\ UNCHANGED <<mode, pc, res, saw, timer, heard, env>>

\* Variant: the channel has no bound.
Put_Unbounded ==
    /\ scan.pc = "put"
    /\ chan' = Append(chan, scan.item)
    /\ scan' = [scan EXCEPT !.pc = IF scan.item = "broken" THEN "end" ELSE "read",
                            !.item = "none"]
    /\ tail' = IF scan.item = "broken" THEN "none" ELSE tail
    /\ UNCHANGED <<mode, pc, res, saw, timer, heard, env>>

\* The scanner hands its event over, or returns if the loop has; after an error
\* it closes the channel.
Put ==
    /\ scan.pc = "put"
    /\ \/ /\ Len(chan) < ChanSize
          /\ chan' = Append(chan, scan.item)
          /\ IF scan.item = "broken"
             THEN scan' = [scan EXCEPT !.pc = "end", !.item = "none"] /\ tail' = "none"
             ELSE scan' = [scan EXCEPT !.pc = "read", !.item = "none"] /\ UNCHANGED tail
       \/ /\ pc = "end"
          /\ scan' = [scan EXCEPT !.pc = "end", !.item = "none"]
          /\ UNCHANGED <<chan, tail>>
    /\ UNCHANGED <<mode, pc, res, saw, timer, heard, env>>

-----------------------------------------------------------------------------
(* Clocks and the client *)

\* Variant: the forward timeout only covers the headers.
Expire_HeadersOnly ==
    /\ ~late /\ pc = "headers"
    /\ late' = TRUE
    /\ UNCHANGED <<mode, pc, res, saw, timer, heard, here, quiet, pipe>>

\* ForwardTimeout is over.
Expire ==
    /\ ~late /\ pc # "end"
    /\ late' = TRUE
    /\ UNCHANGED <<mode, pc, res, saw, timer, heard, here, quiet, pipe>>

Ring ==
    /\ timer = "armed" /\ pc = "select"
    /\ timer' = "rung"
    /\ UNCHANGED <<mode, pc, res, saw, heard, env, pipe>>

\* Nothing was read for idleTimeout: the upstream is silent or at its end, or the
\* scanner waits for a loop that writes to a slow client.
Silence ==
    /\ ~quiet /\ pc = "select"
    /\ quiet' = TRUE
    /\ UNCHANGED <<mode, pc, res, saw, timer, heard, here, late, pipe>>

ClientLeaves ==
    /\ here /\ pc # "end"
    /\ here' = FALSE
    /\ UNCHANGED <<mode, pc, res, saw, timer, heard, late, quiet, pipe>>

Over == pc = "end" /\ UNCHANGED vars

Next ==
    \/ Headers \/ Select
    \/ Scan \/ ScanEnd \/ ScanBreaks \/ ScanCanceled \/ Put
    \/ Expire \/ Ring \/ Silence \/ ClientLeaves
    \/ Over

Spec == Init /\ [][Next]_vars

\* The forward timeout comes, and ends every wait for the upstream; a goroutine
\* that can run does run.  Nothing is assumed of the upstream or the client.
FairSpec ==
    /\ Spec
    /\ WF_vars(Expire) /\ WF_vars(Headers /\ late) /\ WF_vars(Select)
    /\ WF_vars(Put) /\ WF_vars(ScanCanceled)

-----------------------------------------------------------------------------
(* Properties *)

\* The variables have their types, and the channel its capacity.
TypeOK ==
    /\ mode \in [converted : BOOLEAN, armed : BOOLEAN]
    /\ pc \in {"headers", "select", "end"}
    /\ res \in Result
    /\ {saw, heard, here, late, quiet} \subseteq BOOLEAN
    /\ timer \in {"off", "armed", "rung"}
    /\ scan \in [pc : {"off", "read", "put", "end"}, sent : 0..MaxEvents,
                 item : Event \cup {"none", "broken"}]
    /\ chan \in Seq(Event \cup {"broken"}) /\ Len(chan) <= ChanSize
    /\ tail \in Event \cup {"open", "none"}

\* What HandleForward makes of the result.
Outcome ==
    IF res.committed
    THEN IF res.serr = "none" /\ ~res.gone THEN "commit_ok"
         ELSE IF res.gone /\ res.serr # "upstream" THEN "commit_gone" ELSE "commit_err"
    ELSE IF res.bad THEN "status"
    ELSE IF res.err = "timeout" THEN "timeout"
    ELSE IF res.gone THEN "canceled"
    ELSE IF res.err # "none" THEN "transport" ELSE "ok"

\* "After the commit no retry and no failover": an attempt is given back with an
\* error exactly when the client has not been sent anything (but for a failure
\* event that a converter swallowed).
CommitDecides ==
    pc = "end" =>
        /\ res.committed => res.err = "none"
        /\ ~res.committed => /\ res.err # "none" \/ res.bad \/ res.seen = "fail"
                             /\ ~res.complete /\ res.ends = 0

\* "An upstream's unexpected EOF must not pass for a success": a stream counts as
\* delivered only if the upstream said so, look-alikes and a failure in the
\* unfinished last event aside.
SuccessIsEarned ==
    pc = "end" /\ Outcome = "commit_ok" =>
        res.seen = "done" \/ res.alike \/ tail = "fail"

\* A client that stays sees exactly one ending of a committed stream, whichever of
\* the timers, the upstream and the converters came first.
OneEnding ==
    /\ res.ends <= 1
    /\ pc = "end" /\ res.committed /\ here /\ ~res.alike => res.ends = 1

\* "Closing after the terminal frame is no disconnect": who is recorded as
\* disconnected has left and never got the ending; who is recorded as served did.
DisconnectMissesTheEnd ==
    pc = "end" =>
        /\ Outcome = "commit_gone" => ~here /\ res.ends = 0
        /\ Outcome = "commit_ok" => res.ends = 1 \/ res.alike

\* "Keep draining for the bill": a client that leaves after the commit does not cut
\* the upstream off; the attempt goes on to its end or to a timeout.
DrainedForBilling ==
    pc = "end" /\ res.committed /\ res.serr # "upstream" =>
        res.seen # "nothing" \/ late

\* What GatewayDispatch takes an attempt to be capable of: a timeout only under
\* the first-token timeout, a cancellation only by a client that has left.
OutcomeIsPossible ==
    pc = "end" =>
        /\ Outcome = "timeout" => mode.armed
        /\ Outcome \in {"canceled", "commit_gone"} => ~here

\* What HandleForward is given back: a retry or an end, never both; nothing that
\* it takes for impossible; and a stream whose usage can be billed.
OutcomeIsSound == CommitDecides /\ OutcomeIsPossible /\ DrainedForBilling

\* What the client is given: one ending, and a record that agrees with it.
EndingIsSound == OneEnding /\ DisconnectMissesTheEnd

\* "Failed and may fail over: try the next route": what the upstream reports as
\* failed is not a success for the gateway.
FailureIsReported ==
    pc = "end" /\ res.seen = "fail" => Outcome \notin {"ok", "commit_ok", "commit_gone"}

\* Every attempt ends, and its scanner with it.
AttemptEnds == <>(pc = "end")
ScannerEnds == pc = "end" ~> scan.pc \in {"off", "end"}

\* No goroutine of an attempt is left behind, neither the loop nor the scanner.
GoroutinesEnd == AttemptEnds /\ ScannerEnds
=============================================================================
