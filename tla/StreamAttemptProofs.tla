------------------------- MODULE StreamAttemptProofs -------------------------
(***************************************************************************)
(* One streaming attempt over HTTP, for any number of events and any       *)
(* channel between the scanner and the loop.  What the loop reports is     *)
(* made in three steps: an event is fed to the client (Fed), the stream is *)
(* completed or broken off (Succeeded, Failed, AtEOF), and a disconnect is *)
(* settled (Finalized).  The lemmas follow a result through them: Running  *)
(* is one of a loop that goes on, Sound one that has been fed an event,    *)
(* Ending one that is handed back.                                         *)
(***************************************************************************)
EXTENDS MCStreamAttempt, FiniteSetTheorems, TLAPS

Frame == {"none", "plain", "alike", "end", "error"}

\* Nothing is decided yet, what the client got is what the result says it got, and only
\* one that has left is taken for gone.
Sound(r) ==
    /\ r \in Result
    /\ r.err = "none" /\ r.serr = "none" /\ ~r.bad
    /\ r.ends <= 1
    /\ r.complete <=> r.alike \/ r.ends = 1
    /\ r.complete => r.committed
    /\ r.gone => r.committed /\ ~here

\* Nor has the client been given an ending.
Running(r) == Sound(r) /\ r.seen = "nothing" /\ r.ends = 0 /\ ~r.conv

\* What the properties say of a result that is handed back, and no more; an ending the
\* upstream never reported may come from a failure in the middle of the last event.
Ending(r) ==
    /\ r \in Result /\ r.ends <= 1
    /\ r.committed => r.err = "none"
    /\ ~r.committed => /\ r.err # "none" \/ r.bad \/ r.seen = "fail"
                       /\ ~r.complete /\ r.ends = 0
                       /\ r.err = "timeout" => mode.armed
    /\ r.gone => ~here
    /\ r.committed /\ here /\ ~r.alike => r.ends = 1
    /\ r.committed /\ r.serr # "upstream" => r.seen # "nothing" \/ late
    /\ r.committed /\ r.serr # "upstream" /\ r.gone => r.ends = 0
    /\ r.committed /\ r.serr = "none" /\ ~r.gone =>
          /\ r.seen = "done" \/ r.alike \/ tail = "fail"
          /\ r.ends = 1 \/ r.alike

-----------------------------------------------------------------------------
(* Writing to the client *)

LEMMA ReceivedSound ==
    ASSUME NEW r, Sound(r), r.ends = 0, r.committed, ~r.gone, NEW f \in Frame \ {"none"}
    PROVE  LET w == Received(r, f) IN
           /\ Sound(w) /\ w.seen = r.seen /\ w.conv = r.conv /\ w.committed /\ ~w.gone
           /\ w.ends = IF f \in {"end", "error"} THEN 1 ELSE 0
           /\ r.alike => w.alike
<1> DEFINE complete == r.complete \/ f # "plain"
           alike == r.alike \/ f = "alike"
           n == IF f \in {"end", "error"} THEN r.ends + 1 ELSE r.ends
           w == [r EXCEPT !.complete = complete, !.alike = alike, !.ends = n]
<1>1. Received(r, f) = w BY DEF Received
<1>2. complete \in BOOLEAN /\ alike \in BOOLEAN /\ n = IF f \in {"end", "error"} THEN 1 ELSE 0
  BY DEF Sound, Result
<1>3. (complete <=> alike \/ n = 1) /\ (r.alike => alike) /\ n \in 0..2 /\ r \in Result
  BY <1>2 DEF Sound, Frame
<1> HIDE DEF complete, alike, n
<1>4. /\ w \in Result
      /\ w.committed = r.committed /\ w.gone = r.gone /\ w.err = r.err /\ w.serr = r.serr
      /\ w.bad = r.bad /\ w.conv = r.conv /\ w.seen = r.seen
      /\ w.complete = complete /\ w.alike = alike /\ w.ends = n
  <2>1. /\ r \in Result /\ complete \in BOOLEAN /\ alike \in BOOLEAN /\ n \in 0..2
    BY <1>2, <1>3
  <2>2. w \in Result BY <2>1 DEF Result
  <2> QED BY <2>1, <2>2 DEF Result
<1> HIDE DEF w
<1>5. Sound(w)
  <2>1. w.err = "none" /\ w.serr = "none" /\ ~w.bad /\ w.committed /\ ~w.gone
    BY <1>4 DEF Sound
  <2>2. w.ends <= 1 /\ (w.complete <=> w.alike \/ w.ends = 1) BY <1>2, <1>3, <1>4
  <2> QED BY <1>4, <2>1, <2>2 DEF Sound
<1> QED BY <1>1, <1>2, <1>3, <1>4, <1>5

LEMMA WrittenSound ==
    ASSUME NEW r, Sound(r), r.ends = 0, NEW f \in Frame, NEW w \in Written(r, f)
    PROVE  /\ Sound(w) /\ w.seen = r.seen /\ w.conv = r.conv
           /\ (w.committed <=> r.committed \/ f # "none")
           /\ w.ends = 1 => f \in {"end", "error"}
           /\ f \in {"end", "error"} => w.ends = 1 \/ w.gone
           /\ r.alike => w.alike
<1>1. CASE f = "none" BY <1>1 DEF Written, Sound, Result
<1>2. CASE f # "none"
  <2> DEFINE c == [r EXCEPT !.committed = TRUE]
             g == [c EXCEPT !.gone = TRUE]
  <2>1. /\ Sound(c) /\ c.seen = r.seen /\ c.conv = r.conv /\ c.committed /\ c.ends = 0
        /\ c.gone = r.gone /\ c.alike = r.alike
    BY DEF Sound, Result
  <2>2. ~here => Sound(g) /\ g.seen = r.seen /\ g.conv = r.conv /\ g.committed /\ g.ends = 0 /\ g.gone
                  /\ g.alike = r.alike
    BY DEF Sound, Result
  <2>3. \/ c.gone /\ w = c
        \/ ~c.gone /\ w = Received(c, f)
        \/ ~here /\ w = g
    BY <1>2 DEF Written
  <2> HIDE DEF c, g
  <2>4. CASE ~c.gone /\ w = Received(c, f)
    <3> DEFINE x == Received(c, f)
    <3>1. /\ Sound(x) /\ x.seen = c.seen /\ x.conv = c.conv /\ x.committed /\ ~x.gone
          /\ x.ends = IF f \in {"end", "error"} THEN 1 ELSE 0
          /\ c.alike => x.alike
      BY <1>2, <2>1, <2>4, ReceivedSound
    <3> HIDE DEF x
    <3>2. w = x BY <2>4 DEF x
    <3> QED BY <1>2, <2>1, <3>1, <3>2
  <2> QED BY <1>2, <2>1, <2>2, <2>3, <2>4
<1> QED BY <1>1, <1>2

\* The gateway's own error, sent to a stream that has no ending yet.
LEMMA ErrorSentSound ==
    ASSUME NEW r, Sound(r), r.ends = 0, NEW b \in ErrorSent(r)
    PROVE  /\ Sound(b) /\ b.seen = r.seen /\ b.committed = r.committed
           /\ b.committed /\ here => b.ends = 1
<1>1. \/ b = r /\ (~r.committed \/ r.gone \/ ~here)
      \/ r.committed /\ ~r.gone /\ b = Received(r, "error")
  BY DEF ErrorSent
<1>2. CASE r.committed /\ ~r.gone /\ b = Received(r, "error")
  <2> DEFINE x == Received(r, "error")
  <2>1. Sound(x) /\ x.committed /\ x.ends = 1 /\ x.seen = r.seen
    BY <1>2, ReceivedSound DEF Frame
  <2> HIDE DEF x
  <2>2. b = x BY <1>2 DEF x
  <2> QED BY <1>2, <2>1, <2>2 DEF Sound, Result
<1> QED BY <1>1, <1>2 DEF Sound

\* What an event makes of a running attempt.
LEMMA FedSound ==
    ASSUME mode \in [converted : BOOLEAN, armed : BOOLEAN],
           NEW r, Running(r), NEW e \in Event, NEW w \in Fed(r, e)
    PROVE  /\ Sound(w) /\ w.seen = "nothing"
           /\ e \notin {"done", "fail"} => Running(w)
           /\ w.conv => w.committed /\ (w.ends = 1 \/ w.gone)
           /\ mode.converted /\ ~w.conv => w.ends = 0
           /\ ~mode.converted /\ e = "done" => w.committed /\ (w.ends = 1 \/ w.gone)
<1>1. PICK f \in Frames(r, e) : w \in Written([r EXCEPT !.conv = @ \/ f = "end"], f)
  BY DEF Fed
<1>2. /\ f \in Frame
      /\ f = "end" => e \in {"done", "fail"}
      /\ f = "error" => ~mode.converted /\ e \in {"done", "fail"}
      /\ ~mode.converted /\ e = "done" => f = "end"
  BY DEF Frames, Passed, Converted, Frame, Event, Running
<1> DEFINE c == [r EXCEPT !.conv = @ \/ f = "end"]
<1>3. Sound(c) /\ c.ends = 0 /\ c.seen = "nothing" /\ (c.conv <=> f = "end")
  BY DEF Running, Sound, Result
<1>4. w \in Written(c, f) BY <1>1
<1> HIDE DEF c
<1>5. /\ Sound(w) /\ w.seen = c.seen /\ w.conv = c.conv
      /\ (w.committed <=> c.committed \/ f # "none")
      /\ w.ends = 1 => f \in {"end", "error"}
      /\ f \in {"end", "error"} => w.ends = 1 \/ w.gone
  BY <1>2, <1>3, <1>4, WrittenSound
<1>6. w.ends = 0 \/ w.ends = 1 BY <1>5 DEF Sound, Result
<1> QED BY <1>2, <1>3, <1>5, <1>6 DEF Running

-----------------------------------------------------------------------------
(* Ending the stream *)

\* A disconnect is settled.
LEMMA FinalizedEnding ==
    ASSUME NEW r, Sound(r), r.committed, r.seen # "nothing" \/ late,
           r.gone \/ r.ends = 1 \/ r.alike,
           r.alike \/ r.ends = 1 => r.seen = "done" \/ r.alike \/ tail = "fail"
    PROVE  Ending(Finalized(r))
<1>1. CASE ~r.gone BY <1>1 DEF Finalized, Ending, Sound
<1>2. CASE r.gone /\ r.complete
  <2> DEFINE x == [r EXCEPT !.gone = FALSE]
  <2>1. /\ x \in Result /\ x.committed /\ ~x.gone /\ x.ends = r.ends /\ x.alike = r.alike
        /\ x.err = r.err /\ x.serr = r.serr /\ x.seen = r.seen
    BY DEF Sound, Result
  <2>2. Finalized(r) = x BY <1>2 DEF Finalized
  <2> HIDE DEF x
  <2>3. Ending(x) BY <1>2, <2>1 DEF Ending, Sound
  <2> QED BY <2>2, <2>3
<1>3. CASE r.gone /\ ~r.complete
  <2> DEFINE x == [r EXCEPT !.serr = "client"]
  <2>1. /\ x \in Result /\ x.committed /\ x.gone /\ x.ends = r.ends /\ x.alike = r.alike
        /\ x.err = r.err /\ x.serr = "client" /\ x.seen = r.seen
    BY <1>3 DEF Sound, Result
  <2>2. Finalized(r) = x BY <1>3 DEF Finalized, Sound
  <2>3. r.ends = 0 BY <1>3 DEF Sound, Result
  <2> HIDE DEF x
  <2>4. Ending(x) BY <1>3, <2>1, <2>3 DEF Ending, Sound
  <2> QED BY <2>2, <2>4
<1> QED BY <1>1, <1>2, <1>3

\* An upstream's failure is one whatever becomes of the client.
LEMMA BrokenEnding ==
    ASSUME NEW r, Sound(r), r.committed /\ here => r.ends = 1 \/ r.alike,
           r.committed \/ r.seen = "fail"
    PROVE  Ending(Broken(r)) /\ Ending(Finalized(Broken(r)))
<1> DEFINE b == Broken(r)
<1>1. /\ b \in Result /\ b.serr = "upstream" /\ b.committed = r.committed /\ b.gone = r.gone
      /\ b.ends = r.ends /\ b.alike = r.alike /\ b.err = r.err /\ b.seen = r.seen
      /\ b.bad = r.bad /\ b.complete = r.complete
  BY DEF Sound, Broken, Result
<1> HIDE DEF b
<1>2. r.ends \in {0, 1} BY DEF Sound, Result
<1>3. Ending(b) BY <1>1, <1>2 DEF Ending, Sound
<1>4. CASE b.gone /\ b.complete
  <2> DEFINE x == [b EXCEPT !.gone = FALSE]
  <2>1. /\ x \in Result /\ ~x.gone /\ x.serr = "upstream" /\ x.committed = b.committed
        /\ x.ends = b.ends /\ x.alike = b.alike /\ x.err = b.err /\ x.seen = b.seen
        /\ x.bad = b.bad /\ x.complete = b.complete
    BY <1>1 DEF Result
  <2>2. Finalized(b) = x BY <1>4 DEF Finalized
  <2> HIDE DEF x
  <2>3. Ending(x) BY <1>3, <2>1 DEF Ending
  <2> QED BY <1>3, <2>2, <2>3 DEF b
<1>5. CASE ~(b.gone /\ b.complete)
  <2>1. Finalized(b) = b BY <1>1, <1>5 DEF Finalized
  <2> QED BY <1>3, <2>1 DEF b
<1> QED BY <1>4, <1>5

\* Before the first frame the attempt is handed back for a retry.
LEMMA RetryEnding ==
    ASSUME NEW r, Sound(r), ~r.committed, NEW err \in {"timeout", "transport"},
           err = "timeout" => mode.armed
    PROVE  Ending([r EXCEPT !.err = err])
<1> DEFINE x == [r EXCEPT !.err = err]
<1>1. /\ x \in Result /\ x.committed = r.committed /\ x.gone = r.gone /\ x.err = err
      /\ x.ends = r.ends /\ x.complete = r.complete
  BY DEF Sound, Result
<1>2. r.ends \in {0, 1} BY DEF Sound, Result
<1> HIDE DEF x
<1>3. Ending(x) BY <1>1, <1>2 DEF Ending, Sound
<1> QED BY <1>3 DEF x

\* What a stream may be completed from: it has its ending, or its converter still owes one.
Completes(r) ==
    /\ r.seen # "nothing"
    /\ r.seen = "done" \/ r.alike \/ tail = "fail"
    /\ r.conv => r.committed /\ (r.ends = 1 \/ r.gone)
    /\ mode.converted /\ ~r.conv => r.ends = 0
    /\ ~mode.converted => r.committed /\ (r.ends = 1 \/ r.alike \/ r.gone)

LEMMA SuccessEnding ==
    ASSUME NEW r, Sound(r), Completes(r), NEW x \in Succeeded(r) PROVE Ending(x)
<1>1. PICK b \in Closed(r) : x = Finalized(b) BY DEF Succeeded
<1>2. Sound(b) /\ b.committed /\ b.seen = r.seen /\ (r.alike => b.alike)
      /\ (b.ends = 1 \/ b.alike \/ b.gone)
  <2>1. CASE mode.converted /\ ~r.conv
    <3> DEFINE c == [r EXCEPT !.conv = TRUE]
    <3>1. Sound(c) /\ c.ends = 0 /\ c.seen = r.seen /\ c.alike = r.alike
      BY <2>1 DEF Sound, Result, Completes
    <3>2. b \in Written(c, "end") BY <2>1 DEF Closed
    <3> HIDE DEF c
    <3>3. /\ Sound(b) /\ b.seen = c.seen /\ (b.committed <=> TRUE)
          /\ b.ends = 1 \/ b.gone
          /\ c.alike => b.alike
      BY <3>1, <3>2, WrittenSound DEF Frame
    <3> QED BY <3>1, <3>3
  <2>2. CASE ~(mode.converted /\ ~r.conv)
    <3>1. b = r BY <2>2 DEF Closed
    <3> QED BY <2>2, <3>1 DEF Completes
  <2> QED BY <2>1, <2>2
<1>3. b.seen = "done" \/ b.alike \/ tail = "fail" BY <1>2 DEF Completes
<1>4. b.seen # "nothing" BY <1>2 DEF Completes
<1>5. Ending(Finalized(b)) BY <1>2, <1>3, <1>4, FinalizedEnding
<1> QED BY <1>1, <1>5

-----------------------------------------------------------------------------
(* The loop *)

StreamInv ==
    /\ TypeOK
    /\ pc # "end" => Running(res)
    /\ pc = "end" => Ending(res)
    /\ pc = "headers" => res = NewResult /\ tail = "open" /\ scan.pc = "off"
    /\ timer # "off" => mode.armed
    /\ tail # "open" => scan.pc = "end"
    /\ scan.pc = "put" => scan.item # "none"

\* The loop goes on with a result, or returns it.
LEMMA LoopStep ==
    ASSUME StreamAssumption, StreamInv, pc = "select",
           UNCHANGED <<mode, here, late, quiet, scan, tail>>,
           chan' = chan \/ (chan # << >> /\ chan' = Tail(chan)),
           saw' \in BOOLEAN, heard' \in BOOLEAN, timer' \in {timer, "off"},
           (pc' = "end" /\ Ending(res')) \/ (pc' = "select" /\ Running(res'))
    PROVE  StreamInv'
<1>1. res' \in Result BY DEF Ending, Running, Sound
<1> DEFINE A == Event \cup {"broken"}
<1>2. chan' \in Seq(A) /\ Len(chan') <= ChanSize
  <2>1. chan \in Seq(A) /\ Len(chan) <= ChanSize /\ ChanSize \in Nat
    BY DEF StreamInv, TypeOK, StreamAssumption
  <2> HIDE DEF A
  <2>2. CASE chan # << >> /\ chan' = Tail(chan)
    <3>1. Tail(chan) \in Seq(A) /\ Len(Tail(chan)) = Len(chan) - 1 BY <2>1, <2>2
    <3>2. Len(chan) \in Nat BY <2>1
    <3>3. Len(Tail(chan)) <= ChanSize BY <2>1, <3>1, <3>2
    <3> QED BY <2>2, <3>1, <3>3
  <2> QED BY <2>1, <2>2
<1>3. TypeOK' BY <1>1, <1>2 DEF StreamInv, TypeOK
<1>4. pc' # "end" => Running(res)' BY DEF Running, Sound
<1>5. pc' = "end" => Ending(res)' BY DEF Ending
<1> QED BY <1>3, <1>4, <1>5 DEF StreamInv

LEMMA HeadersStep ==
    ASSUME StreamAssumption, StreamInv, Headers PROVE StreamInv'
<1>1. /\ res = NewResult /\ tail = "open" /\ scan.pc = "off" /\ Running(res) /\ ~res.committed
      /\ UNCHANGED <<mode, saw, heard, here, late, quiet, chan, tail>>
  BY DEF Headers, StreamInv, NewResult, env
<1>2. [scan EXCEPT !.pc = "read"] \in [pc : {"off", "read", "put", "end"}, sent : 0..MaxEvents,
                                       item : Event \cup {"none", "broken"}]
  BY DEF StreamInv, TypeOK
<1>3. ASSUME pc' = "end", Ending(res'), timer' = timer, scan' \in {scan, [scan EXCEPT !.pc = "read"]}
      PROVE  StreamInv'
  <2>1. res' \in Result BY <1>3 DEF Ending
  <2>2. TypeOK' BY <1>1, <1>2, <1>3, <2>1 DEF StreamInv, TypeOK
  <2>3. Ending(res)' BY <1>1, <1>3 DEF Ending
  <2>4. scan'.pc # "put"
    <3>1. scan'.pc \in {"off", "read"} BY <1>1, <1>3 DEF StreamInv, TypeOK
    <3> QED BY <3>1
  <2> QED BY <1>1, <1>3, <2>2, <2>3, <2>4 DEF StreamInv
<1>4. ASSUME Ends({Retryable("transport"), [res EXCEPT !.bad = TRUE]}), UNCHANGED <<timer, scan>>
      PROVE  StreamInv'
  <2>1. Ending(Retryable("transport")) BY <1>1, RetryEnding DEF Running, Retryable
  <2>2. Ending([res EXCEPT !.bad = TRUE])
    <3> DEFINE x == [res EXCEPT !.bad = TRUE]
    <3>1. /\ x \in Result /\ x.bad = TRUE /\ x.committed = res.committed /\ x.ends = res.ends
          /\ x.complete = res.complete /\ x.err = res.err /\ x.gone = res.gone
      BY <1>1 DEF Running, Sound, Result
    <3>2. ~res.committed /\ ~res.complete /\ res.ends = 0 /\ res.err = "none" /\ ~res.gone
      BY <1>1 DEF NewResult
    <3> HIDE DEF x
    <3>3. Ending(x) BY <3>1, <3>2 DEF Ending
    <3> QED BY <3>3 DEF x
  <2> QED BY <1>3, <1>4, <2>1, <2>2 DEF Ends
<1>5. ASSUME mode.armed, Ends({Retryable("timeout")}), UNCHANGED timer,
             scan' \in {scan, [scan EXCEPT !.pc = "read"]}
      PROVE  StreamInv'
  <2>1. Ending(Retryable("timeout")) BY <1>1, <1>5, RetryEnding DEF Running, Retryable
  <2> QED BY <1>3, <1>5, <2>1 DEF Ends
<1>6. ASSUME pc' = "select", timer' = FirstTimer, scan' = [scan EXCEPT !.pc = "read"],
             UNCHANGED res
      PROVE  StreamInv'
  <2>1. timer' \in {"off", "armed", "rung"} /\ (timer' # "off" => mode.armed)
    BY <1>6 DEF FirstTimer
  <2>2. TypeOK' BY <1>1, <1>2, <1>6, <2>1 DEF StreamInv, TypeOK
  <2>3. Running(res)' BY <1>1, <1>6 DEF Running, Sound
  <2>4. scan'.pc = "read" BY <1>6 DEF StreamInv, TypeOK
  <2> QED BY <1>1, <1>6, <2>1, <2>2, <2>3, <2>4 DEF StreamInv
<1> QED BY <1>4, <1>5, <1>6 DEF Headers

\* A whole event: the three ends of it.
LEMMA PayloadResult ==
    ASSUME StreamInv, pc = "select", NEW e \in Event, NEW r \in Fed(res, e)
    PROVE  /\ e \notin {"done", "fail"} => Running(r)
           /\ e = "done" => \A x \in Succeeded([r EXCEPT !.seen = "done"]) : Ending(x)
           /\ e = "fail" => \A x \in Failed([r EXCEPT !.seen = "fail"]) : Ending(x)
<1>1. /\ Sound(r) /\ r.seen = "nothing"
      /\ e \notin {"done", "fail"} => Running(r)
      /\ r.conv => r.committed /\ (r.ends = 1 \/ r.gone)
      /\ mode.converted /\ ~r.conv => r.ends = 0
      /\ ~mode.converted /\ e = "done" => r.committed /\ (r.ends = 1 \/ r.gone)
  BY FedSound DEF StreamInv, TypeOK
<1>2. ASSUME e = "done", NEW x \in Succeeded([r EXCEPT !.seen = "done"]) PROVE Ending(x)
  <2> DEFINE c == [r EXCEPT !.seen = "done"]
  <2>1. /\ Sound(c) /\ c.seen = "done" /\ c.conv = r.conv /\ c.committed = r.committed
        /\ c.ends = r.ends /\ c.gone = r.gone
    BY <1>1 DEF Sound, Result
  <2> HIDE DEF c
  <2>2. Completes(c) BY <1>1, <1>2, <2>1 DEF Completes
  <2>3. x \in Succeeded(c) BY <1>2 DEF c
  <2> QED BY <2>1, <2>2, <2>3, SuccessEnding
<1>3. ASSUME e = "fail", NEW x \in Failed([r EXCEPT !.seen = "fail"]) PROVE Ending(x)
  <2> DEFINE c == [r EXCEPT !.seen = "fail"]
  <2>1. Sound(c) /\ c.seen = "fail"
    BY <1>1 DEF Sound, Result
  <2>2. x \in Failed(c) BY <1>3
  <2> HIDE DEF c
  <2>3. CASE c.complete
    <3>1. x = Finalized(Broken(c)) BY <2>2, <2>3 DEF Failed
    <3>2. c.ends = 1 \/ c.alike BY <2>1, <2>3 DEF Sound
    <3> QED BY <2>1, <3>1, <3>2, BrokenEnding
  <2>4. CASE ~c.complete
    <3>1. PICK b \in ErrorSent(c) : x = Finalized(Broken(b)) BY <2>2, <2>4 DEF Failed
    <3>2. c.ends = 0 BY <2>1, <2>4 DEF Sound, Result
    <3>3. Sound(b) /\ b.seen = c.seen /\ (b.committed /\ here => b.ends = 1)
      BY <2>1, <3>2, ErrorSentSound
    <3> QED BY <2>1, <3>1, <3>3, BrokenEnding
  <2> QED BY <2>3, <2>4
<1> QED BY <1>1, <1>2, <1>3

\* A stream that breaks off after the commit.
LEMMA BreakEnding ==
    ASSUME NEW r, Sound(r), r.ends = 0, r.committed, NEW b \in ErrorSent(r)
    PROVE  Ending(Broken(b)) /\ Ending(Finalized(Broken(b)))
<1>1. Sound(b) /\ b.seen = r.seen /\ b.committed = r.committed /\ (b.committed /\ here => b.ends = 1)
  BY ErrorSentSound
<1> QED BY <1>1, BrokenEnding

\* The end of the body, after the event it ended in the middle of.
LEMMA EOFResult ==
    ASSUME StreamInv, pc = "select", tail # "open",
           NEW r \in (IF tail = "none" THEN {res} ELSE Fed(res, tail)),
           NEW x \in AtEOF([r EXCEPT !.seen = IF tail = "done" THEN "done" ELSE "closed"])
    PROVE  Ending(x)
<1> DEFINE s == IF tail = "done" THEN "done" ELSE "closed"
           c == [r EXCEPT !.seen = s]
<1>1. Running(res) /\ mode \in [converted : BOOLEAN, armed : BOOLEAN]
      /\ (tail = "none" \/ tail \in Event)
  BY DEF StreamInv, TypeOK
<1>2. /\ Sound(r)
      /\ tail \notin {"done", "fail"} => r.ends = 0
      /\ r.conv => r.committed /\ (r.ends = 1 \/ r.gone)
      /\ mode.converted /\ ~r.conv => r.ends = 0
  <2>1. CASE tail = "none" BY <1>1, <2>1 DEF Running
  <2>2. CASE tail # "none"
    <3>1. tail \in Event /\ r \in Fed(res, tail) BY <1>1, <2>2
    <3> QED BY <1>1, <3>1, FedSound DEF Running
  <2> QED BY <2>1, <2>2
<1>3. s \in {"done", "closed"} /\ (tail = "done" <=> s = "done") OBVIOUS
<1> HIDE DEF s
<1>4. /\ Sound(c) /\ c.seen = s /\ c.conv = r.conv /\ c.committed = r.committed
      /\ c.ends = r.ends /\ c.gone = r.gone /\ c.alike = r.alike /\ c.complete = r.complete
  BY <1>2, <1>3 DEF Sound, Result
<1>5. x \in AtEOF(c) BY DEF s
<1> HIDE DEF c
<1>6. CASE c.complete
  <2>1. x \in Succeeded(c) BY <1>5, <1>6 DEF AtEOF
  <2>2. c.committed /\ (c.alike \/ c.ends = 1) BY <1>4, <1>6 DEF Sound
  <2>3. Completes(c) BY <1>2, <1>3, <1>4, <2>2 DEF Completes
  <2> QED BY <1>4, <2>1, <2>3, SuccessEnding
<1>7. CASE ~c.complete /\ ~c.committed
  BY <1>4, <1>5, <1>7, RetryEnding DEF AtEOF
<1>8. CASE ~c.complete /\ c.committed
  <2>1. PICK b \in ErrorSent(c) : x = Finalized(Broken(b)) BY <1>5, <1>8 DEF AtEOF
  <2>2. c.ends = 0 BY <1>4, <1>8 DEF Sound, Result
  <2> QED BY <1>4, <1>8, <2>1, <2>2, BreakEnding
<1> QED BY <1>6, <1>7, <1>8

LEMMA SelectStep ==
    ASSUME StreamAssumption, StreamInv, Select PROVE StreamInv'
<1>1. pc = "select" /\ UNCHANGED <<mode, here, late, quiet, scan, tail>>
 
    BY
      DEF Select, Ping, Payload, ReadError, EOF, Deadline, ClientDone, FirstToken, Keepalive, Idle,
         env, pipe
<1>2. /\ Running(res) /\ Sound(res) /\ res.ends = 0 /\ saw \in BOOLEAN /\ heard \in BOOLEAN
      /\ res.complete => res.alike
  BY <1>1 DEF StreamInv, TypeOK, Running, Sound
<1>3. CASE Ping
  BY <1>1, <1>2, <1>3, LoopStep DEF Ping
<1>4. CASE Payload
  <2> DEFINE e == Head(chan)
  <2>1. /\ chan # << >> /\ chan' = Tail(chan) /\ saw' = TRUE /\ timer' = "off" /\ heard' = heard
        /\ e \in Event
    BY <1>4 DEF Payload
  <2>2. PICK r \in Fed(res, e) :
          IF e = "done" THEN Ends(Succeeded([r EXCEPT !.seen = "done"]))
          ELSE IF e = "fail" THEN Ends(Failed([r EXCEPT !.seen = "fail"]))
          ELSE res' = r /\ UNCHANGED pc
    BY <1>4 DEF Payload
  <2> HIDE DEF e
  <2>3. /\ e \notin {"done", "fail"} => Running(r)
        /\ e = "done" => \A x \in Succeeded([r EXCEPT !.seen = "done"]) : Ending(x)
        /\ e = "fail" => \A x \in Failed([r EXCEPT !.seen = "fail"]) : Ending(x)
    BY <1>1, <2>1, PayloadResult
  <2>4. (pc' = "end" /\ Ending(res')) \/ (pc' = "select" /\ Running(res'))
    BY <1>1, <2>2, <2>3 DEF Ends
  <2> QED BY <1>1, <1>2, <2>1, <2>4, LoopStep
<1>5. CASE ReadError
  <2> DEFINE r == [res EXCEPT !.seen = "broken"]
  <2>1. /\ Ends(IF ~res.committed THEN {[r EXCEPT !.err = "transport"]}
                ELSE IF res.gone THEN {Finalized(r)}
                ELSE {Broken(b) : b \in ErrorSent(r)})
        /\ chan # << >> /\ chan' = Tail(chan) /\ saw' = saw /\ heard' = heard /\ timer' = timer
    BY <1>5 DEF ReadError
  <2>2. /\ Sound(r) /\ r.ends = 0 /\ r.seen = "broken" /\ r.committed = res.committed
        /\ r.gone = res.gone
    BY <1>2 DEF Sound, Result
  <2> HIDE DEF r
  <2>3. pc' = "end" /\ Ending(res')
    <3>1. CASE ~res.committed BY <2>1, <2>2, <3>1, RetryEnding DEF Ends
    <3>2. CASE res.committed /\ res.gone
      <4>1. /\ r.committed /\ r.gone /\ r.seen # "nothing"
            /\ r.alike \/ r.ends = 1 => r.seen = "done" \/ r.alike \/ tail = "fail"
        BY <2>2, <3>2
      <4>2. Ending(Finalized(r)) BY <2>2, <4>1, FinalizedEnding
      <4> QED BY <2>1, <3>2, <4>2 DEF Ends
    <3>3. CASE res.committed /\ ~res.gone BY <2>1, <2>2, <3>3, BreakEnding DEF Ends
    <3> QED BY <3>1, <3>2, <3>3
  <2> QED BY <1>1, <1>2, <2>1, <2>3, LoopStep
<1>6. CASE EOF
  <2>1. PICK r \in (IF tail = "none" THEN {res} ELSE Fed(res, tail)) :
          Ends(AtEOF([r EXCEPT !.seen = IF tail = "done" THEN "done" ELSE "closed"]))
    BY <1>6 DEF EOF
  <2>2. tail # "open" /\ UNCHANGED <<saw, timer, heard, chan>> BY <1>6 DEF EOF, pipe
  <2>3. pc' = "end" /\ Ending(res') BY <1>1, <2>1, <2>2, EOFResult DEF Ends
  <2> QED BY <1>1, <1>2, <2>2, <2>3, LoopStep
<1>7. CASE Deadline
  <2>1. late /\ UNCHANGED <<saw, timer, heard, chan>> BY <1>7 DEF Deadline, pipe
  <2>2. Ends(IF ~res.committed THEN {Retryable("transport")}
             ELSE IF res.gone THEN {Finalized(res)}
             ELSE {Broken(b) : b \in ErrorSent(res)})
    BY <1>7 DEF Deadline
  <2>3. pc' = "end" /\ Ending(res')
    <3>1. CASE ~res.committed BY <1>2, <2>2, <3>1, RetryEnding DEF Ends, Retryable
    <3>2. CASE res.committed /\ res.gone BY <1>2, <2>1, <2>2, <3>2, FinalizedEnding DEF Ends
    <3>3. CASE res.committed /\ ~res.gone BY <1>2, <2>2, <3>3, BreakEnding DEF Ends
    <3> QED BY <3>1, <3>2, <3>3
  <2> QED BY <1>1, <1>2, <2>1, <2>3, LoopStep
<1>8. CASE ClientDone
  <2>1. ~here /\ heard' = TRUE /\ UNCHANGED <<saw, timer, chan>> BY <1>8 DEF ClientDone, pipe
  <2>2. CASE res.committed
    <3> DEFINE x == [res EXCEPT !.gone = TRUE]
    <3>1. Running(x) BY <1>2, <2>1, <2>2 DEF Running, Sound, Result
    <3>2. res' = x /\ pc' = pc BY <1>8, <2>2 DEF ClientDone
    <3> HIDE DEF x
    <3> QED BY <1>1, <1>2, <2>1, <3>1, <3>2, LoopStep
  <2>3. CASE ~res.committed
    <3> DEFINE x == [res EXCEPT !.gone = TRUE, !.err = "canceled"]
    <3>1. /\ x \in Result /\ x.committed = res.committed /\ x.err = "canceled"
          /\ x.ends = res.ends /\ x.complete = res.complete
      BY <1>2 DEF Sound, Result
    <3>2. res' = x /\ pc' = "end" BY <1>8, <2>3 DEF ClientDone, Ends
    <3> HIDE DEF x
    <3>3. Ending(x) BY <1>2, <2>1, <2>3, <3>1 DEF Ending, Sound
    <3> QED BY <1>1, <1>2, <2>1, <3>2, <3>3, LoopStep
  <2> QED BY <2>2, <2>3
<1>9. CASE FirstToken
  <2>1. timer = "rung" /\ timer' = "off" /\ UNCHANGED <<saw, heard, chan>>
    BY <1>9 DEF FirstToken, pipe
  <2>2. mode.armed BY <2>1 DEF StreamInv
  <2>3. CASE saw \/ res.committed
    BY <1>1, <1>2, <1>9, <2>1, <2>3, LoopStep DEF FirstToken
  <2>4. CASE ~(saw \/ res.committed)
    <3>1. pc' = "end" /\ res' = Retryable("timeout") BY <1>9, <2>4 DEF FirstToken, Ends
    <3>2. Ending(Retryable("timeout")) BY <1>2, <2>2, <2>4, RetryEnding DEF Retryable
    <3> QED BY <1>1, <1>2, <2>1, <3>1, <3>2, LoopStep
  <2> QED BY <2>3, <2>4
<1>10. CASE Keepalive
  <2> DEFINE x == [res EXCEPT !.gone = TRUE]
  <2>1. res' = x /\ res.committed /\ ~here /\ UNCHANGED <<pc, saw, timer, heard, chan>>
    BY <1>10 DEF Keepalive, pipe
  <2>2. Running(x) BY <1>2, <2>1 DEF Running, Sound, Result
  <2> HIDE DEF x
  <2> QED BY <1>1, <1>2, <2>1, <2>2, LoopStep
<1>11. CASE Idle
  <2>1. UNCHANGED <<saw, timer, heard, chan>> BY <1>11 DEF Idle, pipe
  <2>2. Ends(IF ~res.committed THEN {Retryable("transport")}
             ELSE {Broken(b) : b \in ErrorSent(res)})
    BY <1>11 DEF Idle
  <2>3. pc' = "end" /\ Ending(res')
    <3>1. CASE ~res.committed BY <1>2, <2>2, <3>1, RetryEnding DEF Ends, Retryable
    <3>2. CASE res.committed BY <1>2, <2>2, <3>2, BreakEnding DEF Ends
    <3> QED BY <3>1, <3>2
  <2> QED BY <1>1, <1>2, <2>1, <2>3, LoopStep
<1> QED BY <1>3, <1>4, <1>5, <1>6, <1>7, <1>8, <1>9, <1>10, <1>11 DEF Select

-----------------------------------------------------------------------------
(* The scanner, the clocks and the client *)

\* They leave the result alone.
LEMMA ScannerStep ==
    ASSUME StreamAssumption, StreamInv, Scan \/ ScanEnd \/ ScanBreaks \/ ScanCanceled \/ Put
    PROVE  StreamInv'
<1> DEFINE A == Event \cup {"broken"}
           Scanner == [pc : {"off", "read", "put", "end"}, sent : 0..MaxEvents,
                       item : Event \cup {"none", "broken"}]
<1>1. /\ UNCHANGED <<mode, pc, res, saw, timer, heard, here, late>>
      /\ quiet' \in {quiet, FALSE} /\ scan.pc \in {"read", "put"}
  BY DEF Scan, ScanEnd, ScanBreaks, ScanCanceled, Put, env
<1>2. /\ scan \in Scanner /\ chan \in Seq(A) /\ Len(chan) <= ChanSize /\ tail = "open"
      /\ scan.pc = "put" => scan.item # "none"
      /\ ChanSize \in Nat /\ MaxEvents \in Nat
  BY <1>1 DEF StreamInv, TypeOK, StreamAssumption
<1>3. /\ scan' \in Scanner /\ chan' \in Seq(A) /\ Len(chan') <= ChanSize
      /\ tail' \in Event \cup {"open", "none"}
      /\ tail' # "open" => scan'.pc = "end"
      /\ scan'.pc = "put" => scan'.item # "none"
  <2>1. CASE Scan
    <3>1. PICK e \in Event : scan' = [pc |-> "put", item |-> e, sent |-> scan.sent + 1]
      BY <2>1 DEF Scan
    <3>2. scan.sent + 1 \in 0..MaxEvents BY <1>2, <2>1 DEF Scan
    <3>3. scan' \in Scanner /\ scan'.item # "none" BY <3>1, <3>2 DEF Event
    <3> QED BY <1>2, <2>1, <3>3 DEF Scan
  <2>2. CASE ScanEnd BY <1>2, <2>2 DEF ScanEnd
  <2>3. CASE ScanBreaks \/ ScanCanceled BY <1>2, <2>3 DEF ScanBreaks, ScanCanceled
  <2>4. CASE Put
    <3> HIDE DEF A
    <3>1. CASE Len(chan) < ChanSize /\ chan' = Append(chan, scan.item)
               /\ (IF scan.item = "broken"
                   THEN scan' = [scan EXCEPT !.pc = "end", !.item = "none"] /\ tail' = "none"
                   ELSE scan' = [scan EXCEPT !.pc = "read", !.item = "none"] /\ UNCHANGED tail)
      <4>1. scan.item \in A BY <1>2, <2>4 DEF A, Put
      <4>2. chan' \in Seq(A) /\ Len(chan') = Len(chan) + 1 BY <1>2, <3>1, <4>1
      <4>3. Len(chan') <= ChanSize BY <1>2, <3>1, <4>2
      <4> QED BY <1>2, <3>1, <4>2, <4>3
    <3>2. CASE scan' = [scan EXCEPT !.pc = "end", !.item = "none"] /\ UNCHANGED <<chan, tail>>
      BY <1>2, <3>2
    <3> QED BY <2>4, <3>1, <3>2 DEF Put
  <2> QED BY <2>1, <2>2, <2>3, <2>4
<1>4. TypeOK' BY <1>1, <1>3 DEF StreamInv, TypeOK
<1>5. pc' # "end" => Running(res)' BY <1>1 DEF StreamInv, Running, Sound
<1>6. pc' = "end" => Ending(res)'
  <2>1. tail # "fail" BY <1>2
  <2> QED BY <1>1, <2>1 DEF StreamInv, Ending
<1>7. pc' # "headers" BY <1>1 DEF StreamInv
<1> QED BY <1>1, <1>3, <1>4, <1>5, <1>6, <1>7 DEF StreamInv

LEMMA ClockStep ==
    ASSUME StreamInv, Expire \/ Ring \/ Silence \/ ClientLeaves \/ UNCHANGED vars
    PROVE  StreamInv'
<1>1. /\ UNCHANGED <<mode, pc, res, scan, chan, tail, saw, heard>>
      /\ late' \in {late, TRUE} /\ quiet' \in {quiet, TRUE} /\ here' \in {here, FALSE}
      /\ timer' = timer \/ (timer = "armed" /\ timer' = "rung")
      /\ pc = "end" => late' = late /\ here' = here
  BY DEF Expire, Ring, Silence, ClientLeaves, vars, env, pipe
<1>2. TypeOK'
  <2>1. {saw, heard, here, late, quiet}' \subseteq BOOLEAN BY <1>1 DEF StreamInv, TypeOK
  <2>2. timer' \in {"off", "armed", "rung"} BY <1>1 DEF StreamInv, TypeOK
  <2> QED BY <1>1, <2>1, <2>2 DEF StreamInv, TypeOK
<1>3. pc' # "end" => Running(res)' BY <1>1 DEF StreamInv, Running, Sound
<1>4. pc' = "end" => Ending(res)' BY <1>1 DEF StreamInv, Ending
<1> QED BY <1>1, <1>2, <1>3, <1>4 DEF StreamInv

-----------------------------------------------------------------------------
(* The theorems *)

LEMMA InitStream == StreamAssumption /\ Init => StreamInv
<1> SUFFICES ASSUME StreamAssumption, Init PROVE StreamInv
  OBVIOUS
<1>1. NewResult \in Result BY DEF NewResult, Result
<1>2. Running(NewResult) BY <1>1 DEF Running, Sound, NewResult
<1>3. 0 \in 0..MaxEvents /\ 0 <= ChanSize BY DEF StreamAssumption
<1>4. << >> \in Seq(Event \cup {"broken"}) /\ Len(<< >>) <= ChanSize BY <1>3
<1>5. [pc |-> "off", item |-> "none", sent |-> 0] \in
        [pc : {"off", "read", "put", "end"}, sent : 0..MaxEvents,
         item : Event \cup {"none", "broken"}]
  BY <1>3
<1>6. TypeOK BY <1>1, <1>4, <1>5 DEF Init, TypeOK
<1> QED BY <1>2, <1>6 DEF Init, StreamInv

LEMMA NextStream == StreamAssumption /\ StreamInv /\ [Next]_vars => StreamInv'
BY HeadersStep, SelectStep, ScannerStep, ClockStep DEF Next, Over

LEMMA StreamInvariant == ASSUME StreamAssumption PROVE Spec => []StreamInv
BY InitStream, NextStream, PTL DEF Spec

\* Whatever the upstream sends and the clocks do, every part of the attempt keeps its type
\* and the channel its capacity.
THEOREM TypeCorrect == ASSUME StreamAssumption PROVE Spec => []TypeOK
<1>1. StreamInv => TypeOK BY DEF StreamInv
<1> QED BY <1>1, StreamInvariant, PTL

\* What HandleForward is given back is a retry or an end, never both; nothing that it takes
\* for impossible; and a stream whose usage can be billed, for any stream and any channel.
THEOREM OutcomesAreSound == ASSUME StreamAssumption PROVE Spec => []OutcomeIsSound
<1>1. StreamInv => OutcomeIsSound
  BY DEF StreamInv, TypeOK, Ending, Result, OutcomeIsSound, CommitDecides, OutcomeIsPossible,
         DrainedForBilling, Outcome
<1> QED BY <1>1, StreamInvariant, PTL

\* "An upstream's unexpected EOF must not pass for a success": a stream counts as delivered
\* only if the upstream said so, or sent what reads like it.
THEOREM SuccessesAreEarned == ASSUME StreamAssumption PROVE Spec => []SuccessIsEarned
<1>1. StreamInv => SuccessIsEarned
  BY DEF StreamInv, Ending, SuccessIsEarned, Outcome
<1> QED BY <1>1, StreamInvariant, PTL

\* A client that stays sees exactly one ending of a committed stream, and who is recorded as
\* disconnected has never got one, in whichever order the timers and the upstream come.
THEOREM EndingsAreSound == ASSUME StreamAssumption PROVE Spec => []EndingIsSound
<1>1. StreamInv => OneEnding
  BY DEF StreamInv, Ending, Running, Sound, OneEnding
<1>2. StreamInv => DisconnectMissesTheEnd
  BY DEF StreamInv, Ending, DisconnectMissesTheEnd, Outcome
<1> QED BY <1>1, <1>2, StreamInvariant, PTL DEF EndingIsSound

-----------------------------------------------------------------------------
(* A session over WebSocket, for any length of the conversation and any     *)
(* capacity of the channels.  The invariant follows the upstream's messages *)
(* on their way: n of them have been read by the loop, the next lie in the  *)
(* channel, and the last may be with the reader.  None of the first n has   *)
(* ended the response; they are what is billed so far, and what a client    *)
(* that is still there has got.                                             *)

\* The instance counts as the library does.
LEMMA BridgeCounts == ASSUME NEW S PROVE Bridge!Cardinality(S) = Cardinality(S)
BY DEF Bridge!Cardinality, Cardinality

Readers == {"up", "client"}
Reader == [pc : {"off", "read", "put", "end"}, item : Bridge!Said \cup Bridge!Turn \cup {"none", "broken"}]
Off == [pc |-> "off", item |-> "none"]

Types ==
    /\ stage \in {"first", "dial", "select", "end"}
    /\ {gone, listen, stays, up, noted, crossed} \subseteq BOOLEAN
    /\ upq \in Seq(Bridge!Said \cup {"broken"}) /\ Len(upq) <= UpSize
    /\ clq \in Seq(Bridge!Turn \cup {"broken"}) /\ Len(clq) <= 1
    /\ reader \in [Readers -> Reader]
    /\ reader["up"].pc = "put" => reader["up"].item \in Bridge!Said \cup {"broken"}
    /\ reader["client"].pc = "put" => reader["client"].item \in Bridge!Turn \cup {"broken"}
    /\ said \in Seq(Bridge!Said) /\ Len(said) <= MaxSaid /\ turns \in 0..MaxTurns
    /\ body \in 0..MaxSaid /\ got \in Seq(Bridge!Said \cup {"error"}) /\ row \in Seq(Bridge!Row)

Held == reader["up"].pc = "put" /\ reader["up"].item # "broken"
Ended == reader["up"].pc = "end"

\* Where the upstream's messages are, n of them read.
Flow(n) ==
    /\ reader["up"].pc # "off"
    /\ n + Len(upq) + (IF Held THEN 1 ELSE 0) = Len(said) + (IF Ended THEN 1 ELSE 0)
    /\ Held => reader["up"].item = said[Len(said)]
    /\ Ended => upq # << >>
    /\ \A i \in 1..Len(upq) : upq[i] = IF Ended /\ i = Len(upq) THEN "broken" ELSE said[n + i]

Texts(n) == {i \in 1..n : said[i] # "bin"}

\* What the loop makes of them.
Heard(n) ==
    /\ \A i \in 1..n : said[i] \notin Bridge!Terminal
    /\ body = Cardinality(Texts(n))
    /\ row = << >> /\ noted = FALSE /\ crossed = FALSE

\* What the client gets of them; while it is there, no read of it fails.
Told(n) ==
    /\ \A i \in 1..Len(got) : got[i] \notin Bridge!Terminal
    /\ stays => /\ ~gone /\ Len(got) = n /\ \A i \in 1..n : got[i] = said[i]
               /\ reader["client"].item # "broken"
               /\ \A i \in 1..Len(clq) : clq[i] # "broken"

Fresh ==
    /\ reader = [r \in Readers |-> Off] /\ gone = FALSE
    /\ upq = << >> /\ clq = << >> /\ said = << >> /\ got = << >> /\ row = << >>
    /\ body = 0 /\ noted = FALSE /\ crossed = FALSE

BridgeInv ==
    /\ Types
    /\ stage \in {"first", "dial"} => Fresh
    /\ stage = "select" => \E n \in 0..Len(said) : Flow(n) /\ Heard(n) /\ Told(n)
    /\ stage = "end" => Bridge!OneRowOfAll /\ Bridge!VerdictIsUpstreams /\ Bridge!ToldOnceAndAll

-----------------------------------------------------------------------------
(* Sequences *)

LEMMA TailOf ==
    ASSUME NEW S, NEW s \in Seq(S), s # << >>
    PROVE  /\ Head(s) = s[1] /\ s[1] \in S /\ Len(s) \in Nat \ {0}
           /\ Tail(s) \in Seq(S) /\ Len(Tail(s)) = Len(s) - 1
           /\ \A i \in 1..Len(s) - 1 : Tail(s)[i] = s[i + 1]
OBVIOUS

LEMMA AppendOf ==
    ASSUME NEW S, NEW s \in Seq(S), NEW m \in S
    PROVE  /\ Append(s, m) \in Seq(S) /\ Len(Append(s, m)) = Len(s) + 1
           /\ Append(s, m)[Len(s) + 1] = m /\ Append(s, m) # << >>
           /\ \A i \in 1..Len(s) : Append(s, m)[i] = s[i]
OBVIOUS

-----------------------------------------------------------------------------
(* What is billed *)

LEMMA TextsCounted ==
    ASSUME NEW n \in Nat
    PROVE  /\ Cardinality(Texts(n)) \in 0..n
           /\ Cardinality(Texts(n + 1)) =
                Cardinality(Texts(n)) + (IF said[n + 1] # "bin" THEN 1 ELSE 0)
<1>1. IsFiniteSet(1..n) /\ Cardinality(1..n) = n
  <2>1. 1 \in Int /\ n \in Int /\ (1 > n => n = 0) /\ n - 1 + 1 = n OBVIOUS
  <2> QED BY <2>1, FS_Interval
<1>2. Texts(n) \subseteq 1..n BY DEF Texts
<1>3. IsFiniteSet(Texts(n)) /\ Cardinality(Texts(n)) \in Nat /\ Cardinality(Texts(n)) <= n
  BY <1>1, <1>2, FS_Subset, FS_CardinalityType
<1>4. CASE said[n + 1] = "bin"
  <2>1. Texts(n + 1) = Texts(n) BY <1>4 DEF Texts
  <2> QED BY <1>3, <1>4, <2>1
<1>5. CASE said[n + 1] # "bin"
  <2>1. Texts(n + 1) = Texts(n) \cup {n + 1} BY <1>5 DEF Texts
  <2>2. n + 1 \notin Texts(n) BY DEF Texts
  <2>3. Cardinality(Texts(n + 1)) = Cardinality(Texts(n)) + 1
    BY <1>3, <2>1, <2>2, FS_AddElement
  <2> QED BY <1>3, <1>5, <2>3
<1> QED BY <1>4, <1>5

\* The response, as far as it has been read.
LEMMA ResponseRead ==
    ASSUME said \in Seq(Bridge!Said), NEW n \in 0..Len(said), \A i \in 1..n : said[i] \notin Bridge!Terminal
    PROVE  /\ 1..n \subseteq Bridge!Response
           /\ n = Len(said) => Bridge!Response = 1..n
           /\ n < Len(said) /\ said[n + 1] \in Bridge!Terminal => Bridge!Response = 1..n + 1
<1> DEFINE ends == {i \in 1..Len(said) : said[i] \in Bridge!Terminal}
<1>1. Bridge!Response = {i \in 1..Len(said) : \A j \in ends : i <= j} BY DEF Bridge!Response
<1>2. Len(said) \in Nat OBVIOUS
<1>3. \A j \in ends : j \in Nat /\ j > n BY <1>2
<1>4. 1..n \subseteq Bridge!Response BY <1>1, <1>2, <1>3
<1>5. ASSUME n = Len(said) PROVE Bridge!Response = 1..n BY <1>1, <1>4, <1>5
<1>6. ASSUME n < Len(said), said[n + 1] \in Bridge!Terminal PROVE Bridge!Response = 1..n + 1
  <2>1. n + 1 \in ends BY <1>2, <1>6
  <2>2. Bridge!Response \subseteq 1..n + 1 BY <1>1, <1>2, <2>1
  <2>3. n + 1 \in Bridge!Response
    <3>1. \A j \in ends : n + 1 <= j BY <1>3
    <3> QED BY <1>1, <1>2, <1>6, <3>1
  <2>4. 1..n + 1 = 1..n \cup {n + 1} BY <1>2
  <2> QED BY <1>4, <2>2, <2>3, <2>4
<1> QED BY <1>4, <1>5, <1>6

\* The bill of a session whose loop has read n messages.
LEMMA BillRead ==
    ASSUME said \in Seq(Bridge!Said), NEW n \in 0..Len(said), \A i \in 1..n : said[i] \notin Bridge!Terminal
    PROVE  LET bill == Cardinality({i \in Bridge!Response : said[i] # "bin"}) IN
           /\ Cardinality(Texts(n)) <= bill
           /\ n = Len(said) => Cardinality(Texts(n)) = bill
           /\ n < Len(said) /\ said[n + 1] \in Bridge!Terminal => Cardinality(Texts(n + 1)) = bill
<1> DEFINE texts == {i \in Bridge!Response : said[i] # "bin"}
<1>1. IsFiniteSet(texts)
  <2>1. IsFiniteSet(1..Len(said)) BY FS_Interval
  <2>2. texts \subseteq 1..Len(said) BY DEF Bridge!Response
  <2> QED BY <2>1, <2>2, FS_Subset
<1>2. Texts(n) \subseteq texts BY ResponseRead DEF Texts
<1>3. Cardinality(Texts(n)) <= Cardinality(texts) BY <1>1, <1>2, FS_Subset
<1>4. n = Len(said) => Texts(n) = texts BY ResponseRead DEF Texts
<1>5. n < Len(said) /\ said[n + 1] \in Bridge!Terminal => Texts(n + 1) = texts
  BY ResponseRead DEF Texts
<1> QED BY <1>3, <1>4, <1>5

-----------------------------------------------------------------------------
(* The readers and the connections *)

\* A step that leaves the loop alone.
LEMMA QuietStep ==
    ASSUME BridgeInv, Types', UNCHANGED Bridge!loop, stays' => stays,
           stage \in {"first", "dial"} => UNCHANGED <<reader, upq, clq, said>>,
           stage = "select" => \A n \in 0..Len(said) : Flow(n) /\ Heard(n) /\ Told(n) =>
                               n \in 0..Len(said') /\ Flow(n)' /\ Heard(n)' /\ Told(n)',
           stage = "end" => said' = said /\ (reader'["up"].pc = "off" <=> reader["up"].pc = "off")
    PROVE  BridgeInv'
<1>1. UNCHANGED <<stage, gone, listen, body, got, row, noted, crossed>> BY DEF Bridge!loop
<1>2. stage' \in {"first", "dial"} => Fresh' BY <1>1 DEF BridgeInv, Fresh
<1>3. stage' = "select" => \E n \in 0..Len(said') : Flow(n)' /\ Heard(n)' /\ Told(n)'
  BY <1>1 DEF BridgeInv
<1>4. stage' = "end" => Bridge!OneRowOfAll' /\ Bridge!VerdictIsUpstreams' /\ Bridge!ToldOnceAndAll'
  <2> SUFFICES ASSUME stage = "end"
               PROVE  Bridge!OneRowOfAll' /\ Bridge!VerdictIsUpstreams' /\ Bridge!ToldOnceAndAll'
    BY <1>1
  <2>1. Bridge!Response' = Bridge!Response BY DEF Bridge!Response
  <2>2. Bridge!OneRowOfAll' BY <1>1, <2>1 DEF BridgeInv, Bridge!OneRowOfAll
  <2>3. Bridge!VerdictIsUpstreams' BY <1>1, <2>1 DEF BridgeInv, Bridge!VerdictIsUpstreams
  <2>4. Bridge!ToldOnceAndAll' BY <1>1 DEF BridgeInv, Bridge!ToldOnceAndAll
  <2> QED BY <2>2, <2>3, <2>4
<1> QED BY <1>2, <1>3, <1>4 DEF BridgeInv

\* The upstream says m, the next of its messages.
LEMMA SaysStep == ASSUME Bridge!BridgeAssumption, BridgeInv, Bridge!UpSays PROVE BridgeInv'
<1>1. PICK m \in Bridge!Said : Bridge!Holds("up", "put", m) /\ said' = Append(said, m)
  BY DEF Bridge!UpSays
<1>2. /\ UNCHANGED Bridge!loop /\ UNCHANGED <<upq, clq, stays, up, turns>>
      /\ reader["up"].pc = "read" /\ stage # "end" /\ Len(said) < MaxSaid
  BY DEF Bridge!UpSays
<1>3. reader \in [Readers -> Reader] /\ said \in Seq(Bridge!Said) BY DEF BridgeInv, Types
<1>4. /\ reader'["up"] = [pc |-> "put", item |-> m] /\ reader'["client"] = reader["client"]
      /\ reader' \in [Readers -> Reader]
  BY <1>1, <1>3 DEF Bridge!Holds, Readers, Reader
<1>5. /\ said' \in Seq(Bridge!Said) /\ Len(said') = Len(said) + 1 /\ said'[Len(said) + 1] = m
      /\ \A i \in 1..Len(said) : said'[i] = said[i]
  BY <1>1, <1>3, AppendOf
<1>6. Types' BY <1>2, <1>4, <1>5 DEF BridgeInv, Types, Bridge!loop, Bridge!BridgeAssumption
<1>7. stage \notin {"first", "dial"} BY <1>2 DEF BridgeInv, Fresh, Readers, Off
<1>8. ASSUME NEW n \in 0..Len(said), Flow(n), Heard(n), Told(n)
      PROVE  n \in 0..Len(said') /\ Flow(n)' /\ Heard(n)' /\ Told(n)'
  <2>1. Len(said) \in Nat /\ n \in 0..Len(said') BY <1>3, <1>5
  <2>2. m # "broken" BY DEF Bridge!Said
  <2>3. ~Held /\ ~Ended /\ Held' /\ ~Ended' BY <1>2, <1>4, <2>2 DEF Held, Ended
  <2>4. Flow(n)'
    <3>1. Len(upq) \in Nat BY DEF BridgeInv, Types
    <3>2. n + Len(upq) = Len(said) BY <1>8, <2>1, <2>3, <3>1 DEF Flow
    <3>3. \A i \in 1..Len(upq) : upq[i] = said[n + i] /\ said'[n + i] = said[n + i]
      BY <1>5, <1>8, <2>1, <2>3, <3>1, <3>2 DEF Flow
    <3> QED BY <1>2, <1>4, <1>5, <2>1, <2>3, <3>1, <3>2, <3>3 DEF Flow
  <2>5. \A i \in 1..n : said'[i] = said[i] BY <1>5, <2>1
  <2>6. Texts(n)' = Texts(n) BY <2>5 DEF Texts
  <2>7. Heard(n)' BY <1>2, <1>8, <2>5, <2>6 DEF Heard, Bridge!loop
  <2>8. Told(n)' BY <1>2, <1>4, <1>8, <2>5 DEF Told, Bridge!loop
  <2> QED BY <2>1, <2>4, <2>7, <2>8
<1> QED BY <1>2, <1>6, <1>7, <1>8, QuietStep

\* What becomes of the reader of the client does not concern the upstream's messages.
LEMMA ClientSide ==
    ASSUME BridgeInv, Types', UNCHANGED Bridge!loop, UNCHANGED <<upq, said>>, stays' => stays,
           stage \in {"select", "end"}, reader'["up"] = reader["up"],
           stage = "select" /\ stays' =>
              \/ reader["client"].item = "broken"
              \/ /\ reader'["client"].item # "broken"
                 /\ (\A i \in 1..Len(clq) : clq[i] # "broken")
                       => \A i \in 1..Len(clq') : clq'[i] # "broken"
    PROVE  BridgeInv'
<1>1. ASSUME stage = "select", NEW n \in 0..Len(said), Flow(n), Heard(n), Told(n)
      PROVE  n \in 0..Len(said') /\ Flow(n)' /\ Heard(n)' /\ Told(n)'
  <2>1. Flow(n)' BY <1>1 DEF Flow, Held, Ended
  <2>2. Heard(n)' BY <1>1 DEF Heard, Texts, Bridge!loop
  <2>3. Told(n)' BY <1>1 DEF Told, Bridge!loop
  <2> QED BY <2>1, <2>2, <2>3
<1> QED BY <1>1, QuietStep

LEMMA TurnStep == ASSUME Bridge!BridgeAssumption, BridgeInv, Bridge!ClientSays PROVE BridgeInv'
<1>1. PICK m \in Bridge!Turn : Bridge!Holds("client", "put", m) BY DEF Bridge!ClientSays
<1>2. /\ UNCHANGED Bridge!loop /\ UNCHANGED <<upq, clq, stays, up, said>> /\ turns' = turns + 1
      /\ reader["client"].pc = "read" /\ stage # "end" /\ turns < MaxTurns
  BY DEF Bridge!ClientSays
<1>3. reader \in [Readers -> Reader] BY DEF BridgeInv, Types
<1>4. /\ reader'["client"] = [pc |-> "put", item |-> m] /\ reader'["up"] = reader["up"]
      /\ reader' \in [Readers -> Reader] /\ m # "broken"
  BY <1>1, <1>3 DEF Bridge!Holds, Readers, Reader, Bridge!Turn
<1>5. Types' BY <1>2, <1>4 DEF BridgeInv, Types, Bridge!loop, Bridge!BridgeAssumption
<1>6. stage = "select" BY <1>2 DEF BridgeInv, Types, Fresh, Readers, Off
<1> QED BY <1>2, <1>4, <1>5, <1>6, ClientSide

LEMMA FailStep == ASSUME BridgeInv, NEW r \in Readers, Bridge!ReadFails(r) PROVE BridgeInv'
<1>1. /\ UNCHANGED Bridge!loop /\ UNCHANGED <<upq, clq, stays, up, said, turns>>
      /\ reader[r].pc = "read" /\ (stage = "end" \/ r = "up" \/ ~stays)
  BY DEF Bridge!ReadFails, Bridge!net
<1>2. reader \in [Readers -> Reader] BY DEF BridgeInv, Types
<1>3. /\ reader'[r] = [pc |-> "put", item |-> "broken"] /\ reader' \in [Readers -> Reader]
      /\ \A q \in Readers \ {r} : reader'[q] = reader[q]
  BY <1>2 DEF Bridge!ReadFails, Bridge!Holds, Readers, Reader
<1>4. Types'
  <2>1. /\ reader'["up"].pc = "put" => reader'["up"].item \in Bridge!Said \cup {"broken"}
        /\ reader'["client"].pc = "put" => reader'["client"].item \in Bridge!Turn \cup {"broken"}
    <3>1. CASE r = "up"
      <4>1. reader'["up"].item = "broken" /\ reader'["client"] = reader["client"]
        BY <1>3, <3>1 DEF Readers
      <4> QED BY <4>1 DEF BridgeInv, Types
    <3>2. CASE r = "client"
      <4>1. reader'["client"].item = "broken" /\ reader'["up"] = reader["up"]
        BY <1>3, <3>2 DEF Readers
      <4> QED BY <4>1 DEF BridgeInv, Types
    <3> QED BY <3>1, <3>2 DEF Readers
  <2> QED BY <1>1, <1>3, <2>1 DEF BridgeInv, Types, Bridge!loop
<1>5. stage \in {"select", "end"} BY <1>1 DEF BridgeInv, Types, Fresh, Readers, Off
<1>6. CASE r = "client"
  <2>1. reader'["up"] = reader["up"] BY <1>3, <1>6 DEF Readers
  <2> QED BY <1>1, <1>4, <1>5, <1>6, <2>1, ClientSide
<1>7. CASE r = "up"
  <2>1. ASSUME NEW n \in 0..Len(said), Flow(n), Heard(n), Told(n)
        PROVE  n \in 0..Len(said') /\ Flow(n)' /\ Heard(n)' /\ Told(n)'
    <3>1. ~Held /\ ~Held' /\ ~Ended /\ ~Ended' /\ reader'["up"].pc = "put"
      BY <1>1, <1>3, <1>7 DEF Held, Ended
    <3>2. reader'["client"] = reader["client"] BY <1>3, <1>7 DEF Readers
    <3>3. Flow(n)' BY <1>1, <2>1, <3>1 DEF Flow
    <3>4. Heard(n)' BY <1>1, <2>1 DEF Heard, Texts, Bridge!loop
    <3>5. Told(n)' BY <1>1, <2>1, <3>2 DEF Told, Bridge!loop
    <3> QED BY <1>1, <3>3, <3>4, <3>5
  <2>2. reader'["up"].pc # "off" /\ reader["up"].pc # "off" BY <1>1, <1>3, <1>7
  <2> QED BY <1>1, <1>4, <1>5, <2>1, <2>2, QuietStep
<1> QED BY <1>6, <1>7 DEF Readers

LEMMA PutStep ==
    ASSUME Bridge!BridgeAssumption, BridgeInv, NEW r \in Readers, Bridge!Put(r)
    PROVE  BridgeInv'
<1> DEFINE v == reader[r]
           next == IF v.item = "broken" THEN "end" ELSE "read"
<1>1. UNCHANGED Bridge!loop /\ UNCHANGED <<stays, up, said, turns>> /\ v.pc = "put"
  BY DEF Bridge!Put, Bridge!net
<1>2. reader \in [Readers -> Reader] /\ clq \in Seq(Bridge!Turn \cup {"broken"})
      /\ upq \in Seq(Bridge!Said \cup {"broken"}) /\ said \in Seq(Bridge!Said)
  BY DEF BridgeInv, Types
<1>3. stage \in {"select", "end"} BY <1>1 DEF BridgeInv, Types, Fresh, Readers, Off
<1>4. ASSUME stage = "end", Bridge!Holds(r, "end", "none"), UNCHANGED <<upq, clq>>
      PROVE  BridgeInv'
  <2>1. /\ reader'[r] = [pc |-> "end", item |-> "none"] /\ reader' \in [Readers -> Reader]
        /\ \A q \in Readers \ {r} : reader'[q] = reader[q]
    BY <1>2, <1>4 DEF Bridge!Holds, Readers, Reader
  <2>2. /\ reader'["up"].pc = "put" => reader'["up"] = reader["up"]
        /\ reader'["client"].pc = "put" => reader'["client"] = reader["client"]
        /\ reader'["up"].pc = "off" <=> reader["up"].pc = "off"
    <3>1. CASE r = "up" BY <1>1, <2>1, <3>1 DEF Readers
    <3>2. CASE r = "client" BY <1>1, <2>1, <3>2 DEF Readers
    <3> QED BY <3>1, <3>2 DEF Readers
  <2>3. Types' BY <1>1, <1>4, <2>1, <2>2 DEF BridgeInv, Types, Bridge!loop
  <2> QED BY <1>1, <1>4, <2>2, <2>3, QuietStep
<1>5. ASSUME r = "client", clq = << >>, clq' = <<v.item>>, Bridge!Handed(r), UNCHANGED upq
      PROVE  BridgeInv'
  <2>1. v.item \in Bridge!Turn \cup {"broken"} BY <1>1, <1>5 DEF BridgeInv, Types
  <2>2. /\ reader'["client"] = [pc |-> next, item |-> "none"]
        /\ reader'["up"] = reader["up"] /\ reader' \in [Readers -> Reader]
    BY <1>2, <1>5 DEF Bridge!Handed, Bridge!Holds, Readers, Reader
  <2>3. /\ clq' \in Seq(Bridge!Turn \cup {"broken"}) /\ Len(clq') = 1 /\ clq'[1] = v.item
    BY <1>5, <2>1
  <2>4. Types' BY <1>1, <1>5, <2>2, <2>3 DEF BridgeInv, Types, Bridge!loop
  <2>5. \/ reader["client"].item = "broken"
        \/ reader'["client"].item # "broken" /\ \A i \in 1..Len(clq') : clq'[i] # "broken"
    BY <1>5, <2>2, <2>3
  <2> QED BY <1>1, <1>3, <1>5, <2>2, <2>4, <2>5, ClientSide
<1>6. ASSUME r = "up", Len(upq) < UpSize, upq' = Append(upq, v.item), Bridge!Handed(r), UNCHANGED clq
      PROVE  BridgeInv'
  <2>1. v.item \in Bridge!Said \cup {"broken"} BY <1>1, <1>6 DEF BridgeInv, Types
  <2>2. /\ reader'["up"] = [pc |-> next, item |-> "none"]
        /\ reader'["client"] = reader["client"] /\ reader' \in [Readers -> Reader]
    BY <1>2, <1>6 DEF Bridge!Handed, Bridge!Holds, Readers, Reader
  <2>3. /\ upq' \in Seq(Bridge!Said \cup {"broken"}) /\ Len(upq') = Len(upq) + 1 /\ upq' # << >>
        /\ upq'[Len(upq) + 1] = v.item /\ \A i \in 1..Len(upq) : upq'[i] = upq[i]
    BY <1>2, <1>6, <2>1, AppendOf
  <2>4. Len(upq) \in Nat /\ Len(said) \in Nat BY <1>2
  <2>5. Types'
    BY <1>1, <1>6, <2>2, <2>3, <2>4 DEF BridgeInv, Types, Bridge!loop, Bridge!BridgeAssumption
  <2>6. ASSUME NEW n \in 0..Len(said), Flow(n), Heard(n), Told(n)
        PROVE  n \in 0..Len(said') /\ Flow(n)' /\ Heard(n)' /\ Told(n)'
    <3>1. ~Ended /\ ~Held' BY <1>1, <1>6, <2>2 DEF Ended, Held
    <3>2. \A i \in 1..Len(upq) : upq[i] = said[n + i] BY <2>6, <3>1 DEF Flow
    <3>3. Flow(n)'
      <4>1. CASE v.item = "broken"
        <5>1. ~Held /\ Ended' BY <1>6, <2>2, <4>1 DEF Held, Ended
        <5>2. n + Len(upq) = Len(said) BY <2>4, <2>6, <3>1, <5>1 DEF Flow
        <5>3. \A i \in 1..Len(upq') :
                 upq'[i] = IF Ended' /\ i = Len(upq') THEN "broken" ELSE said'[n + i]
          BY <1>1, <2>3, <2>4, <3>2, <4>1, <5>1
        <5>4. n + Len(upq') = Len(said') + 1 BY <1>1, <2>3, <2>4, <5>2
        <5>5. reader'["up"].pc # "off" BY <5>1 DEF Ended
        <5> QED BY <2>3, <3>1, <5>1, <5>3, <5>4, <5>5 DEF Flow
      <4>2. CASE v.item # "broken"
        <5>1. Held /\ ~Ended' BY <1>1, <1>6, <2>2, <4>2 DEF Held, Ended
        <5>2. n + Len(upq) + 1 = Len(said) /\ v.item = said[Len(said)]
          BY <1>6, <2>4, <2>6, <3>1, <5>1 DEF Flow
        <5>3. \A i \in 1..Len(upq') : upq'[i] = said'[n + i]
          <6>1. said' = said /\ upq'[Len(upq) + 1] = said[n + (Len(upq) + 1)]
            BY <1>1, <2>3, <5>2
          <6>2. \A i \in 1..Len(upq) : upq'[i] = said[n + i] BY <2>3, <3>2
          <6>3. \A i \in 1..Len(upq) + 1 : i \in 1..Len(upq) \/ i = Len(upq) + 1 BY <2>4
          <6> QED BY <2>3, <6>1, <6>2, <6>3
        <5>4. n + Len(upq') = Len(said') BY <1>1, <2>3, <2>4, <5>2
        <5>5. reader'["up"].pc # "off" BY <2>2, <4>2
        <5> QED BY <2>3, <2>4, <3>1, <5>1, <5>3, <5>4, <5>5 DEF Flow
      <4> QED BY <4>1, <4>2
    <3>4. Heard(n)' BY <1>1, <2>6 DEF Heard, Texts, Bridge!loop
    <3>5. Told(n)' BY <1>1, <1>6, <2>2, <2>6 DEF Told, Bridge!loop
    <3> QED BY <1>1, <3>3, <3>4, <3>5
  <2>7. reader'["up"].pc # "off" /\ reader["up"].pc # "off" BY <1>1, <1>6, <2>2
  <2> QED BY <1>1, <1>3, <2>5, <2>6, <2>7, QuietStep
<1> QED BY <1>4, <1>5, <1>6 DEF Bridge!Put

LEMMA HangUpStep == ASSUME BridgeInv, Bridge!ClientLeaves \/ Bridge!UpCloses PROVE BridgeInv'
<1>1. /\ UNCHANGED Bridge!loop /\ UNCHANGED <<upq, clq, reader, said, turns>>
      /\ (stays' = stays /\ up' = FALSE) \/ (stays' = FALSE /\ up' = up)
  BY DEF Bridge!ClientLeaves, Bridge!UpCloses
<1>2. Types' BY <1>1 DEF BridgeInv, Types, Bridge!loop
<1>3. ASSUME NEW n \in 0..Len(said), Flow(n), Heard(n), Told(n)
      PROVE  n \in 0..Len(said') /\ Flow(n)' /\ Heard(n)' /\ Told(n)'
  <2>1. Flow(n)' BY <1>1, <1>3 DEF Flow, Held, Ended
  <2>2. Heard(n)' BY <1>1, <1>3 DEF Heard, Texts, Bridge!loop
  <2>3. Told(n)' BY <1>1, <1>3 DEF Told, Bridge!loop
  <2> QED BY <1>1, <2>1, <2>2, <2>3
<1> QED BY <1>1, <1>2, <1>3, QuietStep

-----------------------------------------------------------------------------
(* The loop *)

\* What the client may have got after a write.
LEMMA WritesWhat ==
    ASSUME Types, NEW m \in Bridge!Said \cup {"error"}, got' \in Bridge!Writes(m)
    PROVE  /\ got' \in Seq(Bridge!Said \cup {"error"})
           /\ got' = Append(got, m) \/ (~stays /\ got' = got)
<1>1. got \in Seq(Bridge!Said \cup {"error"}) BY DEF Types
<1>2. got' = Append(got, m) \/ (~stays /\ got' = got) BY DEF Bridge!Writes
<1> QED BY <1>1, <1>2, AppendOf

\* The end of a session: told already, and its last message now or not at all.
LEMMA LastWord ==
    ASSUME Types, NEW n \in 0..Len(said), \A i \in 1..Len(got) : got[i] \notin Bridge!Terminal,
           stays => Len(got) = n /\ \A i \in 1..n : got[i] = said[i],
           UNCHANGED <<said, stays>>, stage' = "end",
           NEW m \in Bridge!Terminal, m = "error" \/ (n < Len(said) /\ m = said[n + 1]),
           got' = Append(got, m) \/ (~stays /\ got' = got)
    PROVE  Bridge!ToldOnceAndAll'
<1>1. Len(got) \in Nat /\ Len(said) \in Nat /\ got \in Seq(Bridge!Said \cup {"error"})
  BY DEF Types
<1>2. CASE ~stays /\ got' = got BY <1>2 DEF Bridge!ToldOnceAndAll
<1>3. CASE got' = Append(got, m)
  <2>1. m \in Bridge!Said \cup {"error"} BY DEF Bridge!Terminal, Bridge!Said
  <2>2. /\ Len(got') = Len(got) + 1 /\ got'[Len(got) + 1] = m /\ got' # << >>
        /\ \A i \in 1..Len(got) : got'[i] = got[i]
    BY <1>1, <1>3, <2>1, AppendOf
  <2>3. \A i \in 1..Len(got') : i \in 1..Len(got) \/ i = Len(got') BY <1>1, <2>2
  <2>4. \A i \in 1..Len(got') : got'[i] \in Bridge!Terminal => i = Len(got') BY <2>2, <2>3
  <2>5. Bridge!Last(got') \in Bridge!Terminal BY <2>2 DEF Bridge!Last
  <2>6. ASSUME stays, NEW i \in 1..Len(got')
        PROVE  got'[i] = "error" \/ (i <= Len(said) /\ got'[i] = said[i])
    <3>1. CASE i \in 1..Len(got) BY <1>1, <2>2, <2>6, <3>1
    <3>2. CASE i = Len(got') BY <1>1, <2>2, <2>6, <3>2
    <3> QED BY <2>3, <3>1, <3>2
  <2> QED BY <2>2, <2>4, <2>5, <2>6 DEF Bridge!ToldOnceAndAll
<1> QED BY <1>2, <1>3

LEMMA RefusedStep ==
    ASSUME BridgeInv, stage \in {"first", "dial"}, NEW tells \in BOOLEAN, tells \/ ~stays, Bridge!Refused(tells)
    PROVE  BridgeInv'
<1>1. Types /\ Fresh BY DEF BridgeInv
<1>2. /\ UNCHANGED <<gone, listen, body, row, noted, crossed, upq, clq, reader>>
      /\ UNCHANGED <<stays, up, said, turns>> /\ stage' = "end"
  BY DEF Bridge!Refused, Bridge!net
<1>3. CASE tells
  <2>1. got' \in Bridge!Writes("error") BY <1>3 DEF Bridge!Refused
  <2>2. got' \in Seq(Bridge!Said \cup {"error"})
        /\ (got' = Append(got, "error") \/ (~stays /\ got' = got))
    BY <1>1, <2>1, WritesWhat
  <2>3. Types' BY <1>1, <1>2, <2>2 DEF Types
  <2>4. Len(got) = 0 /\ Len(said) = 0 /\ 0 \in 0..Len(said) BY <1>1 DEF Fresh
  <2>5. Bridge!ToldOnceAndAll'
    <3>1. "error" \in Bridge!Terminal BY DEF Bridge!Terminal
    <3> QED BY <1>1, <1>2, <2>2, <2>4, <3>1, LastWord
  <2> QED BY <1>1, <1>2, <2>3, <2>5
      DEF Fresh, Readers, Off, BridgeInv, Bridge!OneRowOfAll, Bridge!VerdictIsUpstreams
<1>4. CASE ~tells
  <2>1. ~stays /\ got' = got BY <1>4 DEF Bridge!Refused
  <2>2. Types' BY <1>1, <1>2, <2>1 DEF Types
  <2>3. Bridge!ToldOnceAndAll' BY <1>1, <1>2, <2>1 DEF Fresh, Bridge!ToldOnceAndAll
  <2> QED BY <1>1, <1>2, <2>2, <2>3
      DEF Fresh, Readers, Off, BridgeInv, Bridge!OneRowOfAll, Bridge!VerdictIsUpstreams
<1> QED BY <1>3, <1>4

LEMMA StartStep == ASSUME BridgeInv, Bridge!First \/ Bridge!Dial PROVE BridgeInv'
<1>1. CASE Bridge!First
  <2>1. CASE ~stays /\ Bridge!Refused(FALSE) BY <1>1, <2>1, RefusedStep DEF Bridge!First
  <2>2. CASE Bridge!Refused(TRUE) BY <1>1, <2>2, RefusedStep DEF Bridge!First
  <2>3. CASE stage' = "dial" /\ UNCHANGED <<gone, listen, body, got, row, noted, crossed, upq, clq, reader, Bridge!net>>
    BY <1>1, <2>3 DEF Bridge!First, BridgeInv, Types, Fresh, Bridge!net
  <2> QED BY <1>1, <2>1, <2>2, <2>3 DEF Bridge!First
<1>2. CASE Bridge!Dial
  <2>1. CASE Bridge!Refused(TRUE) BY <1>2, <2>1, RefusedStep DEF Bridge!Dial
  <2>2. CASE ~Bridge!Refused(TRUE)
    <3>1. /\ UNCHANGED <<gone, listen, body, got, row, noted, crossed, upq, clq>> /\ stage' = "select"
          /\ UNCHANGED <<stays, up, said, turns>> /\ stage = "dial"
          /\ reader' = [r \in {"up", "client"} |-> [pc |-> "read", item |-> "none"]]
      BY <1>2, <2>2 DEF Bridge!Dial, Bridge!net
    <3>2. Types /\ Fresh BY <3>1 DEF BridgeInv
    <3>3. /\ reader' \in [Readers -> Reader] /\ reader'["up"].pc = "read"
          /\ reader'["client"].pc = "read" /\ reader'["client"].item = "none"
      BY <3>1 DEF Readers, Reader
    <3>4. Types' BY <3>1, <3>2, <3>3 DEF Types
    <3>5. Len(said) = 0 /\ Len(upq) = 0 /\ Len(got) = 0 /\ Len(clq) = 0 BY <3>2 DEF Fresh
    <3>6. Flow(0)' BY <3>1, <3>3, <3>5 DEF Flow, Held, Ended
    <3>7. Heard(0)'
      <4>1. Texts(0)' = {} BY DEF Texts
      <4> QED BY <3>1, <3>2, <4>1, FS_EmptySet DEF Heard, Fresh
    <3>8. Told(0)' BY <3>1, <3>2, <3>3, <3>5 DEF Told, Fresh
    <3> QED BY <3>1, <3>4, <3>5, <3>6, <3>7, <3>8 DEF BridgeInv
  <2> QED BY <2>1, <2>2
<1> QED BY <1>1, <1>2

\* The one row of a session that ends.
LEMMA OneRow ==
    ASSUME NEW ok \in BOOLEAN, NEW texts \in 0..MaxSaid, row = << >>, Bridge!Recorded(ok, texts)
    PROVE  /\ row' \in Seq(Bridge!Row) /\ Len(row') = 1 /\ row' # << >>
           /\ row'[1].ok = ok /\ row'[1].texts = texts
<1> DEFINE one == [ok |-> ok, texts |-> texts]
<1>1. one \in Bridge!Row /\ one.ok = ok /\ one.texts = texts BY DEF Bridge!Row
<1>2. row' = Append(row, one) BY DEF Bridge!Recorded
<1>3. row \in Seq(Bridge!Row) /\ Len(row) = 0 OBVIOUS
<1> HIDE DEF one
<1>4. row' \in Seq(Bridge!Row) /\ Len(row') = 1 /\ row' # << >> /\ row'[1] = one
  BY <1>1, <1>2, <1>3, AppendOf
<1> QED BY <1>1, <1>4

\* The loop returns without an end from the upstream: after a failed write, or when the
\* upstream has closed and all it said has been read.
LEMMA BreaksStep ==
    ASSUME BridgeInv, stage = "select", NEW n \in 0..Len(said), Flow(n), Heard(n), Told(n),
           Bridge!Breaks(body), UNCHANGED <<reader, listen, stays, up, said, turns>>,
           crossed' = TRUE \/ (crossed' = crossed /\ n = Len(said)),
           upq' \in Seq(Bridge!Said \cup {"broken"}), Len(upq') <= UpSize,
           clq' \in Seq(Bridge!Turn \cup {"broken"}), Len(clq') <= 1
    PROVE  BridgeInv'
<1>1. /\ stage' = "end" /\ Bridge!Recorded(FALSE, body) /\ UNCHANGED <<gone, body, noted>>
      /\ got' \in (IF gone THEN {got} ELSE Bridge!Writes("error"))
  BY DEF Bridge!Breaks
<1>2. Types /\ said \in Seq(Bridge!Said) /\ body \in 0..MaxSaid BY DEF BridgeInv, Types
<1>3. /\ row' \in Seq(Bridge!Row) /\ Len(row') = 1 /\ row' # << >>
      /\ row'[1].ok = FALSE /\ row'[1].texts = body
  BY <1>1, <1>2, OneRow DEF Heard
<1>4. /\ got' \in Seq(Bridge!Said \cup {"error"})
      /\ got' = Append(got, "error") \/ (~stays /\ got' = got)
  <2>1. CASE gone BY <1>1, <1>2, <2>1 DEF Told, Types
  <2>2. CASE ~gone BY <1>1, <1>2, <2>2, WritesWhat
  <2> QED BY <2>1, <2>2
<1>5. crossed' \in BOOLEAN BY <1>2 DEF Types
<1>6. Types' BY <1>1, <1>2, <1>3, <1>4, <1>5 DEF Types
<1>7. Bridge!OneRowOfAll'
  <2> DEFINE bill == Cardinality({i \in Bridge!Response : said[i] # "bin"})
  <2>1. \A i \in 1..n : said[i] \notin Bridge!Terminal BY DEF Heard
  <2>2. Cardinality(Texts(n)) <= bill /\ (n = Len(said) => Cardinality(Texts(n)) = bill)
    BY <1>2, <2>1, BillRead
  <2>3. bill' = bill BY DEF Bridge!Response
  <2>4. reader'["up"].pc # "off" /\ crossed = FALSE /\ body = Cardinality(Texts(n))
    BY DEF Flow, Heard
  <2> HIDE DEF bill
  <2>5. IF crossed' THEN row'[1].texts <= bill' ELSE row'[1].texts = bill'
    BY <1>3, <2>2, <2>3, <2>4
  <2> QED BY <1>1, <1>3, <2>4, <2>5, BridgeCounts DEF Bridge!OneRowOfAll, bill
<1>8. Bridge!VerdictIsUpstreams'
  <2>1. \A i \in 1..n : said[i] # "done" BY DEF Heard, Bridge!Terminal
  <2>2. n = Len(said) => ~\E i \in Bridge!Response : said[i] = "done"
    BY <2>1 DEF Bridge!Response
  <2>3. Bridge!Response' = Bridge!Response BY DEF Bridge!Response
  <2>4. ~(~crossed' /\ \E i \in Bridge!Response : said[i] = "done") BY <2>2 DEF Heard
  <2> QED BY <1>1, <1>3, <2>3, <2>4 DEF Bridge!VerdictIsUpstreams, Heard
<1>9. Bridge!ToldOnceAndAll'
  <2>1. "error" \in Bridge!Terminal BY DEF Bridge!Terminal
  <2>2. /\ \A i \in 1..Len(got) : got[i] \notin Bridge!Terminal
        /\ stays => Len(got) = n /\ \A i \in 1..n : got[i] = said[i]
    BY DEF Told
  <2> QED BY <1>1, <1>2, <1>4, <2>1, <2>2, LastWord
<1> QED BY <1>1, <1>6, <1>7, <1>8, <1>9 DEF BridgeInv

LEMMA ClientMessageStep == ASSUME BridgeInv, Bridge!ClientMessage PROVE BridgeInv'
<1>1. /\ stage = "select" /\ clq # << >> /\ clq' = Tail(clq)
      /\ UNCHANGED <<upq, reader, stays, up, said, turns>>
  BY DEF Bridge!ClientMessage, Bridge!net
<1>2. PICK n \in 0..Len(said) : Flow(n) /\ Heard(n) /\ Told(n) BY <1>1 DEF BridgeInv
<1>3. Types BY DEF BridgeInv
<1>4. /\ clq' \in Seq(Bridge!Turn \cup {"broken"}) /\ Len(clq') = Len(clq) - 1 /\ Len(clq) \in Nat \ {0}
      /\ Head(clq) = clq[1] /\ \A i \in 1..Len(clq) - 1 : clq'[i] = clq[i + 1]
  BY <1>1, <1>3, TailOf DEF Types
<1>5. Len(clq') <= 1 BY <1>3, <1>4 DEF Types
<1>6. CASE UNCHANGED Bridge!loop
  <2>1. Types' BY <1>1, <1>3, <1>4, <1>5, <1>6 DEF Types, Bridge!loop
  <2>2. (\A i \in 1..Len(clq) : clq[i] # "broken") => \A i \in 1..Len(clq') : clq'[i] # "broken"
    BY <1>4
  <2> QED BY <1>1, <1>6, <2>1, <2>2, ClientSide
<1>7. CASE /\ Head(clq) = "broken" /\ gone' = TRUE /\ listen' = FALSE
           /\ UNCHANGED <<stage, body, got, row, noted, crossed>>
  <2>1. Types' BY <1>1, <1>3, <1>4, <1>5, <1>7 DEF Types
  <2>2. ~stays BY <1>2, <1>4, <1>7 DEF Told
  <2>3. Flow(n)' BY <1>1, <1>2 DEF Flow, Held, Ended
  <2>4. Heard(n)' BY <1>1, <1>2, <1>7 DEF Heard, Texts
  <2>5. Told(n)' BY <1>1, <1>2, <1>7, <2>2 DEF Told
  <2> QED BY <1>1, <1>7, <2>1, <2>3, <2>4, <2>5 DEF BridgeInv
<1>8. CASE crossed' = TRUE /\ Bridge!Breaks(body)
  <2>1. listen' = listen BY <1>8 DEF Bridge!Breaks
  <2> QED BY <1>1, <1>2, <1>3, <1>4, <1>5, <1>8, <2>1, BreaksStep DEF Types
<1> QED BY <1>6, <1>7, <1>8 DEF Bridge!ClientMessage

\* The loop takes the next message of the upstream, m, and the session goes on.
LEMMA PassOn ==
    ASSUME BridgeInv, stage = "select", NEW n \in 0..Len(said), Flow(n), Heard(n), Told(n),
           NEW m \in Bridge!Said, n < Len(said), m = said[n + 1], m \notin {"done", "fail"},
           Bridge!Forward(m), Flow(n + 1)', UNCHANGED <<clq, reader, stays, up, said, turns>>,
           upq' \in Seq(Bridge!Said \cup {"broken"}), Len(upq') <= UpSize,
           body' = Cardinality(Texts(n + 1)), body' \in 0..MaxSaid
    PROVE  BridgeInv'
<1>1. /\ Bridge!Passed(m) /\ UNCHANGED <<stage, row, noted, listen, crossed>>
  BY DEF Bridge!Forward
<1>2. Types /\ Len(said) \in Nat /\ Len(got) \in Nat BY DEF BridgeInv, Types
<1>3. m \notin Bridge!Terminal BY DEF Bridge!Said, Bridge!Terminal
<1>4. /\ gone' \in BOOLEAN /\ (stays => gone' = gone)
      /\ got' = Append(got, m) \/ (~stays /\ got' = got)
  BY <1>1, <1>2 DEF Bridge!Passed, Told, Types
<1>5. got' \in Seq(Bridge!Said \cup {"error"})
  <2>1. got \in Seq(Bridge!Said \cup {"error"}) /\ m \in Bridge!Said \cup {"error"}
    BY <1>2 DEF Types
  <2>2. Append(got, m) \in Seq(Bridge!Said \cup {"error"}) BY <2>1, AppendOf
  <2> QED BY <1>4, <2>1, <2>2
<1>6. Types' BY <1>1, <1>2, <1>4, <1>5 DEF Types
<1>7. Heard(n + 1)'
  <2>1. \A i \in 1..n + 1 : said[i] \notin Bridge!Terminal
    <3>1. \A i \in 1..n + 1 : i \in 1..n \/ i = n + 1 OBVIOUS
    <3> QED BY <1>3, <3>1 DEF Heard
  <2>2. Texts(n + 1)' = Texts(n + 1) BY DEF Texts
  <2> QED BY <1>1, <2>1, <2>2 DEF Heard
<1>8. Told(n + 1)'
  <2>1. CASE ~stays /\ got' = got BY <1>2, <2>1 DEF Told
  <2>2. CASE got' = Append(got, m)
    <3>1. /\ Len(got') = Len(got) + 1 /\ got'[Len(got) + 1] = m
          /\ \A i \in 1..Len(got) : got'[i] = got[i]
      BY <1>2, <2>2, AppendOf DEF Types
    <3>2. \A i \in 1..Len(got') : i \in 1..Len(got) \/ i = Len(got) + 1 BY <1>2, <3>1
    <3>3. \A i \in 1..Len(got') : got'[i] \notin Bridge!Terminal BY <1>3, <3>1, <3>2 DEF Told
    <3>4. stays => /\ ~gone' /\ Len(got') = n + 1 /\ \A i \in 1..n + 1 : got'[i] = said[i]
      BY <1>4, <3>1, <3>2 DEF Told
    <3> QED BY <3>3, <3>4 DEF Told
  <2> QED BY <1>4, <2>1, <2>2
<1>9. n + 1 \in 0..Len(said') BY <1>2
<1> QED BY <1>1, <1>6, <1>7, <1>8, <1>9 DEF BridgeInv

\* The message says how the response ended.
LEMMA EndOn ==
    ASSUME BridgeInv, stage = "select", NEW n \in 0..Len(said), Flow(n), Heard(n), Told(n),
           NEW m \in Bridge!Said, n < Len(said), m = said[n + 1], m \in {"done", "fail"},
           Bridge!Forward(m), UNCHANGED <<clq, reader, stays, up, said, turns>>,
           upq' \in Seq(Bridge!Said \cup {"broken"}), Len(upq') <= UpSize,
           body' = Cardinality(Texts(n + 1)), body' \in 0..MaxSaid
    PROVE  BridgeInv'
<1>1. /\ Bridge!Passed(m) /\ UNCHANGED <<listen, crossed>> /\ stage' = "end"
      /\ Bridge!Recorded(Bridge!Success(m), body') /\ noted' = Bridge!Success(m)
  BY DEF Bridge!Forward
<1>2. Types /\ said \in Seq(Bridge!Said) BY DEF BridgeInv, Types
<1>3. m \in Bridge!Terminal BY DEF Bridge!Terminal
<1>4. /\ gone' \in BOOLEAN
      /\ got' = Append(got, m) \/ (~stays /\ got' = got)
  BY <1>1, <1>2 DEF Bridge!Passed, Told, Types
<1>5. got' \in Seq(Bridge!Said \cup {"error"})
  <2>1. got \in Seq(Bridge!Said \cup {"error"}) /\ m \in Bridge!Said \cup {"error"}
    BY <1>2 DEF Types
  <2>2. Append(got, m) \in Seq(Bridge!Said \cup {"error"}) BY <2>1, AppendOf
  <2> QED BY <1>4, <2>1, <2>2
<1>6. Bridge!Success(m) \in BOOLEAN BY DEF Bridge!Success
<1>7. /\ row' \in Seq(Bridge!Row) /\ Len(row') = 1 /\ row' # << >>
      /\ row'[1].ok = Bridge!Success(m) /\ row'[1].texts = body'
  BY <1>1, <1>6, OneRow DEF Heard
<1>8. Types' BY <1>1, <1>2, <1>4, <1>5, <1>6, <1>7 DEF Types
<1>9. \A i \in 1..n : said[i] \notin Bridge!Terminal BY DEF Heard
<1>10. Bridge!OneRowOfAll'
  <2> DEFINE bill == Cardinality({i \in Bridge!Response : said[i] # "bin"})
  <2>1. Cardinality(Texts(n + 1)) = bill BY <1>2, <1>3, <1>9, BillRead
  <2>2. bill' = bill BY DEF Bridge!Response
  <2>3. reader'["up"].pc # "off" /\ crossed' = FALSE BY <1>1 DEF Flow, Heard
  <2> HIDE DEF bill
  <2>4. row'[1].texts = bill' BY <1>7, <2>1, <2>2
  <2> QED BY <1>1, <1>7, <2>3, <2>4, BridgeCounts DEF Bridge!OneRowOfAll, bill
<1>11. Bridge!VerdictIsUpstreams'
  <2> DEFINE done == \E i \in Bridge!Response : said[i] = "done"
  <2>1. Bridge!Response = 1..n + 1 BY <1>2, <1>3, <1>9, ResponseRead
  <2>2. \A i \in 1..n + 1 : i \in 1..n \/ i = n + 1 OBVIOUS
  <2>3. n + 1 \in 1..n + 1 OBVIOUS
  <2>4. done <=> Bridge!Success(m)
    BY <1>9, <2>1, <2>2, <2>3 DEF Bridge!Success, Bridge!Terminal
  <2>5. done' <=> done BY DEF Bridge!Response
  <2>6. crossed' = FALSE BY <1>1 DEF Heard
  <2>7. (~crossed' /\ done') <=> Bridge!Success(m) BY <2>4, <2>5, <2>6
  <2> QED BY <1>1, <1>6, <1>7, <2>7 DEF Bridge!VerdictIsUpstreams
<1>12. Bridge!ToldOnceAndAll'
  <2>1. /\ \A i \in 1..Len(got) : got[i] \notin Bridge!Terminal
        /\ stays => Len(got) = n /\ \A i \in 1..n : got[i] = said[i]
    BY DEF Told
  <2> QED BY <1>1, <1>2, <1>3, <1>4, <2>1, LastWord
<1> QED BY <1>1, <1>8, <1>10, <1>11, <1>12 DEF BridgeInv

LEMMA UpMessageStep ==
    ASSUME Bridge!BridgeAssumption, BridgeInv, Bridge!UpMessage
    PROVE  BridgeInv'
<1>1. /\ stage = "select" /\ upq # << >> /\ upq' = Tail(upq)
      /\ UNCHANGED <<clq, reader, stays, up, said, turns>>
  BY DEF Bridge!UpMessage, Bridge!net
<1>2. PICK n \in 0..Len(said) : Flow(n) /\ Heard(n) /\ Told(n) BY <1>1 DEF BridgeInv
<1>3. Types /\ Len(said) \in Nat /\ Len(said) <= MaxSaid /\ MaxSaid \in Nat
  BY DEF BridgeInv, Types, Bridge!BridgeAssumption
<1>4. /\ upq' \in Seq(Bridge!Said \cup {"broken"}) /\ Len(upq') = Len(upq) - 1 /\ Len(upq) \in Nat \ {0}
      /\ Head(upq) = upq[1] /\ upq[1] \in Bridge!Said \cup {"broken"}
      /\ \A i \in 1..Len(upq) - 1 : upq'[i] = upq[i + 1]
  BY <1>1, <1>3, TailOf DEF Types
<1>5. Len(upq') <= UpSize BY <1>3, <1>4 DEF Types, Bridge!BridgeAssumption
<1>6. CASE Head(upq) = "broken"
  <2>1. Bridge!Breaks(body) /\ crossed' = crossed BY <1>1, <1>6 DEF Bridge!UpMessage
  <2>2. Ended /\ Len(upq) = 1
    <3>1. 1 \in 1..Len(upq) /\ n + 1 \in Int BY <1>4
    <3>2. ~(Ended /\ 1 = Len(upq)) => n + 1 \in 1..Len(said) BY <1>2, <1>3, <1>4 DEF Flow
    <3>3. n + 1 \in 1..Len(said) => said[n + 1] \in Bridge!Said BY <1>3 DEF Types
    <3>4. "broken" \notin Bridge!Said BY DEF Bridge!Said
    <3> QED BY <1>2, <1>4, <1>6, <3>1, <3>2, <3>3, <3>4 DEF Flow
  <2>3. ~Held BY <2>2 DEF Ended, Held
  <2>4. n = Len(said) BY <1>2, <1>3, <2>2, <2>3 DEF Flow
  <2>5. listen' = listen BY <1>1, <2>1, <1>6 DEF Bridge!UpMessage, Bridge!Breaks
  <2>6. clq' \in Seq(Bridge!Turn \cup {"broken"}) /\ Len(clq') <= 1 BY <1>1, <1>3 DEF Types
  <2> QED BY <1>1, <1>2, <1>4, <1>5, <2>1, <2>4, <2>5, <2>6, BreaksStep
<1>7. CASE Head(upq) # "broken"
  <2> DEFINE m == Head(upq)
  <2>1. Bridge!Forward(m) /\ m \in Bridge!Said BY <1>1, <1>4, <1>7 DEF Bridge!UpMessage
  <2>2. ~(Ended /\ 1 = Len(upq)) /\ upq[1] = said[n + 1]
    <3>1. 1 \in 1..Len(upq) BY <1>4
    <3> QED BY <1>2, <1>4, <1>7, <3>1 DEF Flow
  <2>3. n < Len(said) /\ n + 1 \in 0..Len(said) BY <1>2, <1>3, <1>4, <2>2 DEF Flow
  <2>4. Flow(n + 1)'
    <3>1. (Ended' <=> Ended) /\ (Held' <=> Held) BY <1>1 DEF Ended, Held
    <3>2. n + 1 + Len(upq') + (IF Held THEN 1 ELSE 0) = Len(said) + (IF Ended THEN 1 ELSE 0)
      <4> DEFINE h == IF Held THEN 1 ELSE 0
                 e == IF Ended THEN 1 ELSE 0
      <4>1. h \in 0..1 /\ e \in 0..1 OBVIOUS
      <4>2. n + Len(upq) + h = Len(said) + e BY <1>2 DEF Flow
      <4> HIDE DEF h, e
      <4>3. n + 1 + Len(upq') + h = Len(said) + e BY <1>3, <1>4, <4>1, <4>2
      <4> QED BY <4>3 DEF h, e
    <3>3. Ended => upq' # << >> BY <1>4, <2>2
    <3>4. ASSUME NEW i \in 1..Len(upq')
          PROVE  upq'[i] = IF Ended /\ i = Len(upq') THEN "broken" ELSE said[n + 1 + i]
      <4>1. i + 1 \in 1..Len(upq) /\ upq'[i] = upq[i + 1] /\ n + (i + 1) = n + 1 + i
            /\ (i + 1 = Len(upq) <=> i = Len(upq'))
        BY <1>4
      <4> QED BY <1>2, <4>1 DEF Flow
    <3> QED BY <1>1, <1>2, <3>1, <3>2, <3>3, <3>4 DEF Flow
  <2>5. body' = Cardinality(Texts(n + 1)) /\ body' \in 0..MaxSaid
    <3>1. Cardinality(Texts(n + 1)) = Cardinality(Texts(n)) + (IF said[n + 1] # "bin" THEN 1 ELSE 0)
          /\ Cardinality(Texts(n + 1)) \in 0..n + 1
      BY <2>3, TextsCounted
    <3>2. body' = body + (IF m # "bin" THEN 1 ELSE 0)
      BY <1>3, <2>1 DEF Bridge!Forward, Bridge!Counted, Types
    <3> QED BY <1>2, <1>3, <1>4, <2>2, <2>3, <3>1, <3>2 DEF Heard
  <2>6. m = said[n + 1] BY <1>4, <2>2
  <2> HIDE DEF m
  <2>7. CASE m \in {"done", "fail"}
    BY <1>1, <1>2, <1>4, <1>5, <2>1, <2>3, <2>5, <2>6, <2>7, EndOn
  <2>8. CASE m \notin {"done", "fail"}
    BY <1>1, <1>2, <1>4, <1>5, <2>1, <2>3, <2>4, <2>5, <2>6, <2>8, PassOn
  <2> QED BY <2>7, <2>8
<1> QED BY <1>6, <1>7

-----------------------------------------------------------------------------
(* The theorems *)

LEMMA InitBridge == Bridge!BridgeAssumption /\ Bridge!Init => BridgeInv
<1> SUFFICES ASSUME Bridge!BridgeAssumption, Bridge!Init PROVE BridgeInv
  OBVIOUS
<1>1. Fresh /\ stage = "first" BY DEF Bridge!Init, Fresh, Readers, Off
<1>2. reader \in [Readers -> Reader] /\ reader["up"].pc = "off" /\ reader["client"].pc = "off"
  BY <1>1 DEF Fresh, Readers, Reader, Off
<1>3. Types
  <2>1. /\ upq \in Seq(Bridge!Said \cup {"broken"}) /\ Len(upq) = 0 /\ clq \in Seq(Bridge!Turn \cup {"broken"})
        /\ Len(clq) = 0 /\ said \in Seq(Bridge!Said) /\ Len(said) = 0
        /\ got \in Seq(Bridge!Said \cup {"error"}) /\ row \in Seq(Bridge!Row)
    BY DEF Bridge!Init
  <2>2. {gone, listen, stays, up, noted, crossed} \subseteq BOOLEAN /\ body = 0 /\ turns = 0
    BY DEF Bridge!Init
  <2> QED BY <1>1, <1>2, <2>1, <2>2 DEF Types, Bridge!BridgeAssumption
<1> QED BY <1>1, <1>3 DEF BridgeInv

LEMMA NextBridge == Bridge!BridgeAssumption /\ BridgeInv /\ [Bridge!Next]_Bridge!vars => BridgeInv'
<1> SUFFICES ASSUME Bridge!BridgeAssumption, BridgeInv, [Bridge!Next]_Bridge!vars
             PROVE  BridgeInv'
  OBVIOUS
<1>1. CASE Bridge!Over \/ UNCHANGED Bridge!vars
  <2>1. UNCHANGED Bridge!loop /\ UNCHANGED <<upq, clq, reader, stays, up, said, turns>>
    BY <1>1 DEF Bridge!Over, Bridge!vars, Bridge!net
  <2>2. Types' BY <2>1 DEF BridgeInv, Types, Bridge!loop
  <2>3. ASSUME NEW n \in 0..Len(said), Flow(n), Heard(n), Told(n)
        PROVE  n \in 0..Len(said') /\ Flow(n)' /\ Heard(n)' /\ Told(n)'
    <3>1. Flow(n)' BY <2>1, <2>3 DEF Flow, Held, Ended
    <3>2. Heard(n)' BY <2>1, <2>3 DEF Heard, Texts, Bridge!loop
    <3>3. Told(n)' BY <2>1, <2>3 DEF Told, Bridge!loop
    <3> QED BY <2>1, <3>1, <3>2, <3>3
  <2> QED BY <2>1, <2>2, <2>3, QuietStep
<1>2. ASSUME NEW r \in {"up", "client"}, Bridge!ReadFails(r) \/ Bridge!Put(r) PROVE BridgeInv'
  BY <1>2, FailStep, PutStep DEF Readers
<1> QED
  BY <1>1, <1>2, StartStep, ClientMessageStep, UpMessageStep, SaysStep, TurnStep, HangUpStep
  DEF Bridge!Next, Bridge!Select

LEMMA BridgeInvariant == ASSUME Bridge!BridgeAssumption PROVE Bridge!Spec => []BridgeInv
BY InitBridge, NextBridge, PTL DEF Bridge!Spec

\* Every variable of a session keeps its type, and the channels their capacities.
THEOREM SessionTypes == ASSUME Bridge!BridgeAssumption PROVE Bridge!Spec => []Bridge!TypeOK
<1>1. BridgeInv => Bridge!TypeOK
  BY DEF BridgeInv, Types, Bridge!TypeOK, Readers, Reader
<1> QED BY <1>1, BridgeInvariant, PTL

\* A session that has reached its upstream leaves one usage row, for every text of the
\* response, whether the client stays or not, unless a write to the upstream has failed.
THEOREM OneRowIsLeft ==
    ASSUME Bridge!BridgeAssumption
    PROVE  Bridge!Spec => []Bridge!OneRowOfAll
<1>1. ASSUME BridgeInv PROVE Bridge!OneRowOfAll
  <2>1. stage # "end" => row = << >> BY <1>1 DEF BridgeInv, Types, Fresh, Heard
  <2> QED BY <1>1, <2>1 DEF BridgeInv, Bridge!OneRowOfAll
<1> QED BY <1>1, BridgeInvariant, PTL

\* It is recorded as a success exactly if the upstream has completed the response, but for
\* a write of the client's that met a closed upstream first.
THEOREM VerdictsAreUpstreams ==
    ASSUME Bridge!BridgeAssumption
    PROVE  Bridge!Spec => []Bridge!VerdictIsUpstreams
<1>1. ASSUME BridgeInv PROVE Bridge!VerdictIsUpstreams
  <2>1. stage # "end" => row = << >> BY <1>1 DEF BridgeInv, Types, Fresh, Heard
  <2> QED BY <1>1, <2>1 DEF BridgeInv, Bridge!VerdictIsUpstreams
<1> QED BY <1>1, BridgeInvariant, PTL

\* A client that stays gets everything the upstream has said, in order, and is told once
\* how its response ended, last of all.
THEOREM ClientIsTold ==
    ASSUME Bridge!BridgeAssumption
    PROVE  Bridge!Spec => []Bridge!ToldOnceAndAll
<1>1. ASSUME BridgeInv, stage # "end" PROVE Bridge!ToldOnceAndAll
  <2>1. CASE got = << >> BY <1>1, <2>1 DEF Bridge!ToldOnceAndAll
  <2>2. ASSUME NEW n \in 0..Len(said), Told(n) PROVE Bridge!ToldOnceAndAll
    BY <1>1, <2>2 DEF Told, Bridge!ToldOnceAndAll
  <2> QED BY <1>1, <2>1, <2>2 DEF BridgeInv, Types, Fresh
<1>2. BridgeInv => Bridge!ToldOnceAndAll BY <1>1 DEF BridgeInv
<1> QED BY <1>2, BridgeInvariant, PTL

-----------------------------------------------------------------------------
(* Both loops, as MCStreamAttempt puts them next to each other *)

\* Whichever runs, either behaves as its own specification.
LEMMA Apart == MCSpec => Spec /\ Bridge!Spec
<1>1. MCInit => Init /\ Bridge!Init BY DEF MCInit, AttemptIdle
<1>2. [MCNext]_allVars => [Next]_vars /\ [Bridge!Next]_(Bridge!vars)
  BY DEF MCNext, allVars, bridgeVars, vars, Bridge!vars, Bridge!loop, Bridge!net
<1> QED BY <1>1, <1>2, PTL DEF MCSpec, Spec, Bridge!Spec

\* Every variable of an attempt and of a session keeps its type, and the channels their
\* capacities.
THEOREM LoopTypes == ASSUME StreamAssumption, Bridge!BridgeAssumption PROVE MCSpec => []TypesOK
BY TypeCorrect, SessionTypes, Apart, PTL DEF TypesOK

\* A session that has reached its upstream leaves one row of all texts, its verdict is the
\* upstream's, and a client that stays has got everything and is told the end once.
THEOREM SessionsAreSound == ASSUME Bridge!BridgeAssumption PROVE MCSpec => []SessionIsSound
BY OneRowIsLeft, VerdictsAreUpstreams, ClientIsTold, Apart, PTL DEF SessionIsSound
=============================================================================
