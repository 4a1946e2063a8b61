------------------------ MODULE ConsoleMonitorProofs ------------------------
(***************************************************************************)
(* The console's parts that handle secrets, money and settings, proved for *)
(* any channels, users, tokens, gateways and jobs: what is stored, shown,  *)
(* sent and paid belongs to the channel and the user it was made for,      *)
(* secrets change only as typed, what nobody has touched survives, and     *)
(* flags and reports say what is under way and what has changed (FlagInv). *)
(* Each part has an invariant, stated next to its properties in its own    *)
(* module, and the parts are put together at the end (PartInv).            *)
(***************************************************************************)
EXTENDS MCConsoleMonitor, FiniteSetTheorems, TLAPS

-----------------------------------------------------------------------------
(* The dialog that redeems a code (Redeem) *)

LEMMA CodeStarts == Code!Init => Code!TypedInv
BY DEF Code!Init, Code!TypedInv

\* A code is typed for the channel that is shown, and another channel is shown only
\* after a visit in which the code was forgotten.
LEMMA CodeStep ==
    ASSUME Code!TypedInv, Code!Next PROVE Code!TypedInv'
<1>1. CASE \E c \in Channels : Code!Open(c)
  BY <1>1 DEF Code!TypedInv, Code!Open, Code!Reset
<1>2. CASE Code!Close
  BY <1>2 DEF Code!TypedInv, Code!Close
<1>3. CASE Code!Submit
  BY <1>3 DEF Code!TypedInv, Code!Submit
<1>4. CASE \E k \in Codes : Code!Type(k)
  BY <1>4 DEF Code!TypedInv, Code!Type
<1>5. ASSUME NEW q \in c6, Code!Answered(q) \/ Code!Failed(q)
      PROVE  Code!TypedInv'
  BY <1>5 DEF Code!TypedInv, Code!Answered, Code!Failed
<1>6. ASSUME NEW q \in c6, Code!Take(q) \/ Code!Ask(q) \/ Code!Store(q)
      PROVE  Code!TypedInv'
  <2>1. PICK pc, v : Code!To(q, pc, v)
    BY <1>6 DEF Code!Take, Code!Ask, Code!Store
  <2>2. UNCHANGED <<c1, c2, c5>>
    BY <1>6 DEF Code!Take, Code!Ask, Code!Store, Code!dialog
  <2>3. q \in [channel : {q.channel}, code : {q.code}, pc : {q.pc}, value : {q.value}]
    BY DEF Code!TypedInv
  <2> DEFINE new == [q EXCEPT !.pc = pc, !.value = v]
  <2>4. new \in [channel : {q.channel}, code : {q.code}, pc : {pc}, value : {v}]
    BY <2>3
  <2> HIDE DEF new
  <2>5. c6' = (c6 \ {q}) \cup {new}
    BY <2>1 DEF Code!To, new
  <2> QED
    BY <2>2, <2>4, <2>5 DEF Code!TypedInv
<1>7. ASSUME NEW s \in Scanners,
             Code!Told(s) \/ Code!Done(s) \/ Code!GiveUp(s) \/ \E c \in Channels : Code!Begin(s, c)
      PROVE  Code!TypedInv'
  BY <1>7 DEF Code!TypedInv, Code!Told, Code!Done, Code!GiveUp, Code!Begin, Code!dialog
<1> QED
  BY <1>1, <1>2, <1>3, <1>4, <1>5, <1>6, <1>7 DEF Code!Next

LEMMA CodeSentAsTyped ==
    ASSUME Code!TypedInv, Code!Next PROVE Code!SentAsTyped
<1>1. CASE \E c \in Channels : Code!Open(c)
  BY <1>1 DEF Code!SentAsTyped, Code!Open
<1>2. CASE Code!Close
  BY <1>2 DEF Code!SentAsTyped, Code!Close
<1>3. CASE Code!Submit
  BY <1>3 DEF Code!TypedInv, Code!SentAsTyped, Code!Submit, Code!MaySubmit
<1>4. CASE \E k \in Codes : Code!Type(k)
  BY <1>4 DEF Code!SentAsTyped, Code!Type
<1>5. ASSUME NEW q \in c6, Code!Answered(q) \/ Code!Failed(q)
      PROVE  Code!SentAsTyped
  BY <1>5 DEF Code!SentAsTyped, Code!Answered, Code!Failed
<1>6. ASSUME NEW q \in c6, Code!Take(q) \/ Code!Ask(q) \/ Code!Store(q)
      PROVE  Code!SentAsTyped
  <2>1. PICK pc, v : Code!To(q, pc, v) /\ pc \in {"taken", "told", "stored"}
    BY <1>6 DEF Code!Take, Code!Ask, Code!Store
  <2>2. q = [channel |-> q.channel, code |-> q.code, pc |-> q.pc, value |-> q.value]
    BY DEF Code!TypedInv
  <2> QED
    BY <2>1, <2>2 DEF Code!To, Code!SentAsTyped
<1>7. ASSUME NEW s \in Scanners,
             Code!Told(s) \/ Code!Done(s) \/ Code!GiveUp(s) \/ \E c \in Channels : Code!Begin(s, c)
      PROVE  Code!SentAsTyped
  BY <1>7 DEF Code!SentAsTyped, Code!Told, Code!Done, Code!GiveUp, Code!Begin
<1> QED
  BY <1>1, <1>2, <1>3, <1>4, <1>5, <1>6, <1>7 DEF Code!Next

\* A code under way moves, and stays the only one.
LEMMA OneCodeStep ==
    ASSUME Code!OneCode, Code!Next PROVE Code!OneCode'
<1>1. CASE (\E c \in Channels : Code!Open(c)) \/ Code!Close \/ \E k \in Codes : Code!Type(k)
  <2>1. UNCHANGED <<c3, c6>>
    BY <1>1 DEF Code!Open, Code!Close, Code!Type
  <2> QED
    BY <2>1 DEF Code!OneCode
<1>2. CASE Code!Submit
  BY <1>2 DEF Code!OneCode, Code!Submit, Code!MaySubmit
<1>3. ASSUME NEW q \in c6, Code!Answered(q) \/ Code!Failed(q)
      PROVE  Code!OneCode'
  BY <1>3 DEF Code!OneCode, Code!Answered, Code!Failed
<1>4. ASSUME NEW q \in c6, Code!Take(q) \/ Code!Ask(q) \/ Code!Store(q)
      PROVE  Code!OneCode'
  <2>1. PICK d : c6' = (c6 \ {q}) \cup {d}
    BY <1>4 DEF Code!Take, Code!Ask, Code!Store, Code!To
  <2>2. c3' = c3
    BY <1>4 DEF Code!Take, Code!Ask, Code!Store, Code!dialog
  <2>3. c3 /\ c6 = {q}
    BY DEF Code!OneCode
  <2> QED
    BY <2>1, <2>2, <2>3 DEF Code!OneCode
<1>5. ASSUME NEW s \in Scanners,
             Code!Told(s) \/ Code!Done(s) \/ Code!GiveUp(s) \/ \E c \in Channels : Code!Begin(s, c)
      PROVE  Code!OneCode'
  BY <1>5 DEF Code!OneCode, Code!Told, Code!Done, Code!GiveUp, Code!Begin, Code!dialog
<1> QED
  BY <1>1, <1>2, <1>3, <1>4, <1>5 DEF Code!Next

LEMMA OneOrNone ==
    ASSUME NEW S
    PROVE  /\ S = {} => Cardinality(S) = 0
           /\ (\E x : S = {x}) => Cardinality(S) = 1
<1>1. CASE S = {}
  BY <1>1, FS_EmptySet
<1>2. ASSUME NEW x, S = {x} PROVE Cardinality(S) = 1
  BY <1>2, FS_Singleton
<1> QED
  BY <1>1, <1>2

LEMMA CodeIsShown == Code!OneCode => Code!SubmittingIsExact
<1> SUFFICES ASSUME Code!OneCode PROVE Code!SubmittingIsExact
  OBVIOUS
<1>1. Code!Cardinality(c6) = Cardinality(c6)
  BY DEF Code!Cardinality, Cardinality
<1>2. Cardinality(c6) = IF c3 THEN 1 ELSE 0
  BY OneOrNone DEF Code!OneCode
<1> QED
  BY <1>1, <1>2 DEF Code!SubmittingIsExact

-----------------------------------------------------------------------------
(* The session of the browser's tabs (AuthSession) *)

LEMMA AuthStarts == Auth!Init => Auth!TokenInv
BY ConsoleAssumption DEF Auth!Init, Auth!TokenInv, Auth!Sent, Auth!Answers

\* What the server answers changes a request's answer, and with it a token may be
\* handed out, which nobody has sent before.
LEMMA AnswerKeeps ==
    ASSUME Auth!TokenInv, NEW r \in c6, Auth!Answer(r) PROVE Auth!TokenInv'
<1>1. r \in [tab : {r.tab}, kind : {r.kind}, tok : {r.tok}, ans : {r.ans}, grant : {r.grant}]
  BY DEF Auth!TokenInv
<1>2. PICK v \in Auth!Verdict(r) :
         IF r.kind = "login" /\ v = "ok"
         THEN \E new \in c5 :
                 /\ c6' = (c6 \ {r}) \cup {[r EXCEPT !.ans = "ok", !.grant = new]}
                 /\ c4' = c4 \cup {new}
                 /\ c5' = c5 \ {new}
         ELSE /\ c6' = (c6 \ {r}) \cup {[r EXCEPT !.ans = v]}
              /\ UNCHANGED <<c4, c5>>
  BY DEF Auth!Answer
<1>3. UNCHANGED c1
  BY DEF Auth!Answer
<1>4. v \in {"ok", "denied", "disabled"} /\ (v = "denied" => r.tok \notin c4)
  BY DEF Auth!Verdict
<1>5. CASE r.kind = "login" /\ v = "ok"
  <2>1. PICK new \in c5 :
           /\ c6' = (c6 \ {r}) \cup {[r EXCEPT !.ans = "ok", !.grant = new]}
           /\ c4' = c4 \cup {new}
           /\ c5' = c5 \ {new}
    BY <1>2, <1>5
  <2> DEFINE s == [r EXCEPT !.ans = "ok", !.grant = new]
  <2>2. s \in [tab : {r.tab}, kind : {r.kind}, tok : {r.tok}, ans : {"ok"}, grant : {new}]
    BY <1>1
  <2> HIDE DEF s
  <2>3. c6' = (c6 \ {r}) \cup {s}
    BY <2>1 DEF s
  <2>4. \A q \in c6 : q.tok # new
    BY DEF Auth!TokenInv
  <2> QED
    BY <1>3, <2>1, <2>2, <2>3, <2>4 DEF Auth!TokenInv, Auth!Answers
<1>6. CASE ~(r.kind = "login" /\ v = "ok")
  <2> DEFINE s == [r EXCEPT !.ans = v]
  <2>1. s \in [tab : {r.tab}, kind : {r.kind}, tok : {r.tok}, ans : {v}, grant : {r.grant}]
    BY <1>1
  <2> HIDE DEF s
  <2>2. c6' = (c6 \ {r}) \cup {s} /\ UNCHANGED <<c4, c5>>
    BY <1>2, <1>6 DEF s
  <2> QED
    BY <1>3, <1>4, <2>1, <2>2 DEF Auth!TokenInv, Auth!Answers
<1> QED
  BY <1>5, <1>6

LEMMA AuthStep ==
    ASSUME Auth!TokenInv, Auth!Next PROVE Auth!TokenInv'
<1>1. ASSUME NEW t \in Tabs,
         Auth!Reload(t) \/ Auth!Login(t) \/ Auth!Logout(t) \/ Auth!Call(t) \/ Auth!Show(t) \/ Auth!Hide(t)
      PROVE  Auth!TokenInv'
  <2>1. /\ UNCHANGED <<c4, c5>>
        /\ c1' \in {c1, Nil}
        /\ c6' \subseteq c6 \cup {Auth!Sent(t, kind) : kind \in Auth!Kinds}
    BY <1>1 DEF Auth!Reload, Auth!Login, Auth!Logout, Auth!Call, Auth!Show, Auth!Hide, Auth!Kinds, Auth!Of
  <2> QED
    BY <2>1 DEF Auth!TokenInv, Auth!Sent, Auth!Answers
<1>2. ASSUME NEW r \in c6, Auth!Answer(r)
      PROVE  Auth!TokenInv'
  BY <1>2, AnswerKeeps
<1>3. ASSUME NEW r \in c6, Auth!Fail(r)
      PROVE  Auth!TokenInv'
  <2>1. r \in [tab : {r.tab}, kind : {r.kind}, tok : {r.tok}, ans : {r.ans}, grant : {r.grant}]
    BY DEF Auth!TokenInv
  <2> DEFINE s == [r EXCEPT !.ans = "failed"]
  <2>2. s \in [tab : {r.tab}, kind : {r.kind}, tok : {r.tok}, ans : {"failed"}, grant : {r.grant}]
    BY <2>1
  <2> HIDE DEF s
  <2>3. c6' = (c6 \ {r}) \cup {s} /\ UNCHANGED <<c1, c4, c5>>
    BY <1>3 DEF s, Auth!Fail
  <2> QED
    BY <2>2, <2>3 DEF Auth!TokenInv, Auth!Answers
<1>4. ASSUME NEW r \in c6, Auth!Arrive(r)
      PROVE  Auth!TokenInv'
  BY <1>4 DEF Auth!TokenInv, Auth!Arrive, Auth!ProbeAnswered, Auth!LoginAnswered, Auth!CallAnswered
<1>5. CASE Auth!Reconfigure
  BY <1>5 DEF Auth!TokenInv, Auth!Reconfigure
<1> QED
  BY <1>1, <1>2, <1>3, <1>4, <1>5 DEF Auth!Next

\* A 401 that takes an accepted token had been given to another one.
LEMMA AuthKeepsLiveToken ==
    ASSUME Auth!TokenInv, Auth!Next PROVE Auth!LiveTokenStep
<1>1. ASSUME NEW t \in Tabs,
         Auth!Reload(t) \/ Auth!Login(t) \/ Auth!Logout(t) \/ Auth!Call(t) \/ Auth!Show(t) \/ Auth!Hide(t)
      PROVE  Auth!LiveTokenStep
  <2>1. CASE Auth!Logout(t)
    BY <2>1 DEF Auth!LiveTokenStep
  <2>2. CASE ~Auth!Logout(t)
    BY <1>1, <2>2 DEF Auth!LiveTokenStep, Auth!Reload, Auth!Login, Auth!Call, Auth!Show, Auth!Hide
  <2> QED
    BY <2>1, <2>2
<1>2. ASSUME NEW r \in c6, Auth!Answer(r) \/ Auth!Fail(r)
      PROVE  Auth!LiveTokenStep
  BY <1>2 DEF Auth!LiveTokenStep, Auth!Answer, Auth!Fail
<1>3. ASSUME NEW r \in c6, Auth!Arrive(r)
      PROVE  Auth!LiveTokenStep
  <2> SUFFICES ASSUME c1 \in c4, c1' # c1
               PROVE  \/ \E q \in c6 : q.kind = "login" /\ q.ans = "ok" /\ c1' = q.grant
                      \/ \E q \in (c6 \ c6') : Auth!DropsLiveToken(q)
    BY DEF Auth!LiveTokenStep
  <2>1. r \in c6 \ c6'
    BY <1>3 DEF Auth!Arrive, Auth!ProbeAnswered, Auth!LoginAnswered, Auth!CallAnswered
  <2>2. r.ans \in Auth!Answers /\ (r.kind \in {"api", "logout"} /\ r.ans = "denied" => r.tok \notin c4)
    BY DEF Auth!TokenInv
  <2>3. CASE Auth!LoginAnswered(r)
    BY <2>3 DEF Auth!LoginAnswered
  <2>4. CASE Auth!ProbeAnswered(r) \/ Auth!CallAnswered(r)
    <3>1. Auth!DropsLiveToken(r)
      BY <2>2, <2>4 DEF Auth!ProbeAnswered, Auth!CallAnswered, Auth!DropsLiveToken, Auth!Answers
    <3> QED
      BY <2>1, <3>1
  <2> QED
    BY <1>3, <2>3, <2>4 DEF Auth!Arrive
<1>4. CASE Auth!Reconfigure
  BY <1>4 DEF Auth!LiveTokenStep, Auth!Reconfigure
<1> QED
  BY <1>1, <1>2, <1>3, <1>4 DEF Auth!Next

-----------------------------------------------------------------------------
(* The strip that shows a channel's sync (ChannelSync) *)

LEMMA FreshIsStrip ==
    /\ Sync!Fresh \in Sync!Strips /\ Sync!Fresh.running /\ Sync!Fresh.finalOk = "open"
    /\ Sync!NoStrip \in Sync!Strips /\ Sync!NoStrip.finalOk = "open"
    /\ Sync!Closed \in Sync!Streams /\ ~Sync!Closed.live
    /\ \A S \in SUBSET Channels : Sync!OpenOn(S) \in Sync!Streams /\ Sync!OpenOn(S).live
BY DEF Sync!Fresh, Sync!NoStrip, Sync!Closed, Sync!OpenOn, Sync!Strips, Sync!Streams

\* What an event makes of a strip.
LEMMA TookTypes ==
    ASSUME NEW c \in Channels, NEW ev \in Sync!Events, c2[c] \in Sync!Strips
    PROVE  /\ Sync!Took(c, ev) \in Sync!Strips /\ Sync!TookInBulk(c, ev) \in Sync!Strips
           /\ Sync!Took(c, ev).running = c2[c].running /\ Sync!Took(c, ev).finalOk = c2[c].finalOk
           /\ Sync!TookInBulk(c, ev).running = ~Sync!Closing(ev)
           /\ Sync!TookInBulk(c, ev).finalOk = "failed" => ev = "error" \/ c2[c].finalOk = "failed"
           /\ ev = "done" => Sync!TookInBulk(c, ev).finalOk = "ok"
<1>1. Sync!Took(c, ev) \in Sync!Strips /\ Sync!Took(c, ev).running = c2[c].running
      /\ Sync!Took(c, ev).finalOk = c2[c].finalOk
  BY DEF Sync!Took, Sync!Strips, Sync!Events, Sync!Closing
<1>2. Sync!TookInBulk(c, ev) \in Sync!Strips
      /\ Sync!TookInBulk(c, ev).running = ~Sync!Closing(ev)
      /\ Sync!TookInBulk(c, ev).finalOk
            = IF ev = "done" THEN "ok" ELSE IF ev = "error" THEN "failed" ELSE Sync!Took(c, ev).finalOk
  <2> DEFINE s == Sync!Took(c, ev)
  <2> HIDE DEF s
  <2>1. s \in Sync!Strips
    BY <1>1 DEF s
  <2>2. Sync!TookInBulk(c, ev)
            = [s EXCEPT !.running = ~Sync!Closing(ev), !.fading = FALSE,
                        !.finalOk = IF ev = "done" THEN "ok" ELSE IF ev = "error" THEN "failed" ELSE s.finalOk]
    BY DEF Sync!TookInBulk, s
  <2> QED
    BY <2>1, <2>2 DEF Sync!Strips, Sync!Closing, s
<1> QED
  BY <1>1, <1>2

LEMMA SyncStarts == Sync!Init => Sync!StripInv
BY FreshIsStrip, ConsoleAssumption DEF Sync!Init, Sync!StripInv, Sync!StripTypes

LEMMA StreamEventKeeps ==
    ASSUME Sync!StripInv, NEW c \in Channels, NEW ev \in Sync!Events, Sync!StreamEvent(c, ev)
    PROVE  Sync!StripInv'
<1>1. c2[c] \in Sync!Strips /\ c5[c] \in Sync!Streams
  BY DEF Sync!StripInv, Sync!StripTypes
<1> DEFINE s == Sync!Took(c, ev)
           o == [c5[c] EXCEPT !.sawError = @ \/ Sync!Bad(ev), !.over = Sync!Closing(ev)]
<1> HIDE DEF s, o
<1>2. s \in Sync!Strips /\ s.running = c2[c].running /\ s.finalOk = c2[c].finalOk
  BY <1>1, TookTypes DEF s
<1>3. o \in Sync!Streams /\ o.live = c5[c].live
  <2> DEFINE saw == c5[c].sawError \/ Sync!Bad(ev)
             over == Sync!Closing(ev)
  <2>1. saw \in BOOLEAN /\ over \in BOOLEAN
    BY DEF Sync!Closing
  <2>2. o = [c5[c] EXCEPT !.sawError = saw, !.over = over]
    BY DEF o
  <2> HIDE DEF saw, over
  <2> QED
    BY <1>1, <2>1, <2>2 DEF Sync!Streams
<1>4. c2' = [c2 EXCEPT ![c] = s] /\ UNCHANGED <<c1, c3, c4>>
  BY DEF Sync!StreamEvent, s
<1>5. c5' = [c5 EXCEPT ![c] = o]
  BY DEF Sync!StreamEvent, o
<1> QED
  BY <1>2, <1>3, <1>4, <1>5, ConsoleAssumption DEF Sync!StripInv, Sync!StripTypes

LEMMA BulkEventKeeps ==
    ASSUME Sync!StripInv, NEW c \in Channels, NEW ev \in Sync!Events, Sync!BulkEvent(c, ev)
    PROVE  Sync!StripInv'
<1>1. c2[c] \in Sync!Strips /\ c5[All] \in Sync!Streams
  BY DEF Sync!StripInv, Sync!StripTypes
<1> DEFINE s == Sync!TookInBulk(c, ev)
           o == [c5[All] EXCEPT !.left = IF Sync!Closing(ev) THEN c5[All].left \ {c} ELSE c5[All].left,
                                !.at = IF Sync!Closing(ev) THEN {} ELSE {c},
                                !.sawError = ~Sync!Closing(ev) /\ (c5[All].sawError \/ Sync!Bad(ev))]
<1> HIDE DEF s, o
<1>2. /\ s \in Sync!Strips /\ s.running = ~Sync!Closing(ev)
      /\ s.finalOk = "failed" => ev = "error" \/ c2[c].finalOk = "failed"
      /\ ev = "done" => s.finalOk = "ok"
  BY <1>1, TookTypes DEF s
<1>3. o \in Sync!Streams /\ o.live = c5[All].live
      /\ o.left = IF Sync!Closing(ev) THEN c5[All].left \ {c} ELSE c5[All].left
  BY <1>1 DEF o, Sync!Streams, Sync!Bad, Sync!Closing
<1>4. /\ c2' = [c2 EXCEPT ![c] = s] /\ c5' = [c5 EXCEPT ![All] = o] /\ UNCHANGED c1
      /\ c3' = IF ev = "done" THEN [c3 EXCEPT ![c] = "show"] ELSE c3
      /\ c5[All].live /\ c \in c5[All].left
  BY DEF Sync!BulkEvent, s, o
<1>5. c4' \in [running : BOOLEAN, completed : {c4'.completed}, total : {c4'.total}]
      /\ c4'.running = c4.running
  BY DEF Sync!BulkEvent, Sync!StripInv, Sync!StripTypes
<1>6. Sync!StripTypes'
  BY <1>2, <1>3, <1>4, <1>5 DEF Sync!StripInv, Sync!StripTypes
<1>7. c5'[All].live => c4'.running /\ \A d \in Channels : ~c5'[d].live
  BY <1>3, <1>4, <1>5, ConsoleAssumption DEF Sync!StripInv, Sync!StripTypes
<1>8. \A d \in c1' : d \in c5'[All].left => c2'[d].running /\ c3'[d] = "no"
  BY <1>2, <1>3, <1>4 DEF Sync!StripInv, Sync!StripTypes, Sync!Closing
<1>9. \A d \in c1' : c2'[d].finalOk = "failed" => c3'[d] = "no"
  BY <1>2, <1>4 DEF Sync!StripInv, Sync!StripTypes
<1> QED
  BY <1>3, <1>4, <1>6, <1>7, <1>8, <1>9 DEF Sync!StripInv, Sync!StripTypes

\* A stream starts where no other is open.
LEMMA StartKeeps ==
    ASSUME Sync!StripInv,
           (\E c \in Channels : Sync!StartStream(c)) \/ Sync!StartBulkSync
    PROVE  Sync!StripInv'
<1>1. \A d \in Channels : ~c2[d].running
  BY DEF Sync!StartStream, Sync!StartBulkSync, Sync!AnySyncRunning
<1>2. (\A d \in Channels : ~c5[d].live) /\ ~c5[All].live
  BY <1>1 DEF Sync!StripInv, Sync!StartStream, Sync!StartBulkSync, Sync!AnySyncRunning
<1>3. ASSUME NEW c \in Channels, Sync!StartStream(c)
      PROVE  Sync!StripInv'
  <2>1. /\ UNCHANGED <<c1, c4>>
        /\ c2' = [d \in Channels |-> IF d = c THEN Sync!Fresh ELSE c2[d]]
        /\ c3' = [d \in Channels |-> IF d = c THEN "no" ELSE c3[d]]
        /\ c5' = [c5 EXCEPT ![c] = Sync!OpenOn({c})]
    BY <1>3 DEF Sync!StartStream, Sync!Patched, Sync!Cleared
  <2>2. Sync!StripTypes'
    BY <2>1, FreshIsStrip DEF Sync!StripInv, Sync!StripTypes
  <2>3. ~c5'[All].live /\ \A d \in Channels : c5'[d].live => d = c
    BY <1>2, <2>1, ConsoleAssumption DEF Sync!StripInv, Sync!StripTypes
  <2>4. \A d \in c1' : c2'[d].finalOk = "failed" => c3'[d] = "no"
    BY <2>1, FreshIsStrip DEF Sync!StripInv, Sync!StripTypes
  <2> QED
    BY <2>1, <2>2, <2>3, <2>4, FreshIsStrip DEF Sync!StripInv
<1>4. ASSUME Sync!StartBulkSync
      PROVE  Sync!StripInv'
  <2>1. /\ UNCHANGED c1
        /\ c2' = [d \in Channels |-> IF d \in c1 THEN Sync!Fresh ELSE c2[d]]
        /\ c3' = [d \in Channels |-> IF d \in c1 THEN "no" ELSE c3[d]]
        /\ c4'.running /\ c4' \in [running : BOOLEAN, completed : {c4'.completed}, total : {c4'.total}]
        /\ c5' = [c5 EXCEPT ![All] = Sync!OpenOn(Channels)]
    BY <1>4 DEF Sync!StartBulkSync, Sync!Patched, Sync!Cleared
  <2>2. Sync!StripTypes'
    BY <2>1, FreshIsStrip DEF Sync!StripInv, Sync!StripTypes
  <2>3. \A d \in Channels : ~c5'[d].live
    BY <1>2, <2>1, ConsoleAssumption DEF Sync!StripInv, Sync!StripTypes
  <2>4. \A d \in c1' : c2'[d].running /\ c3'[d] = "no"
    BY <2>1, FreshIsStrip DEF Sync!StripInv, Sync!StripTypes
  <2> QED
    BY <2>1, <2>2, <2>3, <2>4 DEF Sync!StripInv
<1> QED
  BY <1>3, <1>4

\* A stream that ends leaves a timer behind only if it had gone well.
LEMMA EndKeeps ==
    ASSUME Sync!StripInv, NEW c \in Channels, Sync!StreamEnded(c) \/ Sync!StreamBroke(c)
    PROVE  Sync!StripInv'
<1>1. c2[c] \in Sync!Strips /\ c5[c] \in Sync!Streams
  BY DEF Sync!StripInv, Sync!StripTypes
<1>2. PICK s : c2' = [c2 EXCEPT ![c] = s] /\ s \in Sync!Strips
               /\ (s.finalOk = "failed" => c3' = c3 \/ c3' = [c3 EXCEPT ![c] = c3[c]])
  <2>1. CASE Sync!StreamEnded(c)
    <3> DEFINE s == [c2[c] EXCEPT !.running = FALSE, !.finalOk = IF c5[c].sawError THEN "failed" ELSE "ok"]
    <3>1. s \in Sync!Strips /\ s.finalOk = IF c5[c].sawError THEN "failed" ELSE "ok"
      BY <1>1 DEF Sync!Strips
    <3>2. c2' = [c2 EXCEPT ![c] = s]
      BY <2>1 DEF Sync!StreamEnded
    <3>3. c3' = [c3 EXCEPT ![c] = IF c5[c].sawError THEN c3[c] ELSE "show"]
      BY <2>1 DEF Sync!StreamEnded, Sync!AfterEnd
    <3> HIDE DEF s
    <3> QED
      BY <3>1, <3>2, <3>3
  <2>2. CASE Sync!StreamBroke(c)
    <3> DEFINE s == [c2[c] EXCEPT !.running = FALSE, !.finalOk = "failed", !.latest = TRUE]
    <3>1. s \in Sync!Strips
      BY <1>1 DEF Sync!Strips
    <3>2. c2' = [c2 EXCEPT ![c] = s]
      BY <2>2 DEF Sync!StreamBroke
    <3> QED
      BY <2>2, <3>1, <3>2 DEF Sync!StreamBroke
  <2> QED
    BY <2>1, <2>2
<1>3. /\ UNCHANGED <<c1, c4>> /\ c5[c].live /\ c5' = [c5 EXCEPT ![c] = Sync!Closed]
      /\ c3' = c3 \/ \E v \in {"show", c3[c]} : c3' = [c3 EXCEPT ![c] = v]
  BY DEF Sync!StreamEnded, Sync!StreamBroke, Sync!AfterEnd
<1>4. c3' \in [Channels -> {"no", "show", "fade"}] /\ \A d \in Channels \ {c} : c3'[d] = c3[d]
  BY <1>3 DEF Sync!StripInv, Sync!StripTypes
<1>5. Sync!StripTypes'
  BY <1>2, <1>3, <1>4, FreshIsStrip DEF Sync!StripInv, Sync!StripTypes
<1>6. ~c5[All].live /\ c3[c] = "no"
  BY <1>3 DEF Sync!StripInv
<1>7. ~c5'[All].live
  BY <1>3, <1>6, ConsoleAssumption DEF Sync!StripInv, Sync!StripTypes
<1>8. \A d \in Channels : c5'[d].live => c2'[d].running /\ c3'[d] = "no"
  BY <1>2, <1>3, <1>4, FreshIsStrip DEF Sync!StripInv, Sync!StripTypes
<1>9. \A d \in c1' : c2'[d].finalOk = "failed" => c3'[d] = "no"
  <2>1. s.finalOk = "failed" => c3'[c] = "no"
    BY <1>2, <1>6 DEF Sync!StripInv, Sync!StripTypes
  <2> QED
    BY <1>2, <1>3, <1>4, <2>1 DEF Sync!StripInv, Sync!StripTypes
<1> QED
  BY <1>5, <1>7, <1>8, <1>9 DEF Sync!StripInv

LEMMA BulkEndKeeps ==
    ASSUME Sync!StripInv, Sync!BulkEnded \/ Sync!Leave
    PROVE  Sync!StripInv'
<1>1. c1' = c1 /\ \A k \in Channels \cup {All} : ~c5'[k].live
  <2>1. CASE Sync!BulkEnded
    BY <2>1, FreshIsStrip DEF Sync!BulkEnded, Sync!StripInv, Sync!StripTypes
  <2>2. CASE Sync!Leave
    BY <2>2, FreshIsStrip DEF Sync!Leave
  <2> QED
    BY <2>1, <2>2
<1>2. c4' \in [running : BOOLEAN, completed : {c4'.completed}, total : {c4'.total}]
  BY DEF Sync!BulkEnded, Sync!Leave, Sync!StripInv, Sync!StripTypes
<1>3. c2' \in [Channels -> Sync!Strips]
      /\ \A d \in Channels : c2'[d].finalOk = "failed" => c2[d].finalOk = "failed" /\ c3' = c3
  <2>1. CASE Sync!BulkEnded
    <3>1. ASSUME NEW d \in Channels
          PROVE  [c2[d] EXCEPT !.running = FALSE] \in Sync!Strips
                 /\ [c2[d] EXCEPT !.running = FALSE].finalOk = c2[d].finalOk
      <4>1. c2[d] \in Sync!Strips
        BY DEF Sync!StripInv, Sync!StripTypes
      <4> QED
        BY <4>1 DEF Sync!Strips
    <3> QED
      BY <2>1, <3>1 DEF Sync!BulkEnded, Sync!Stopped
  <2>2. CASE Sync!Leave
    BY <2>2, FreshIsStrip DEF Sync!Leave
  <2> QED
    BY <2>1, <2>2
<1>4. c3' \in [Channels -> {"no", "show", "fade"}]
  BY DEF Sync!BulkEnded, Sync!Leave, Sync!Cleared, Sync!StripInv, Sync!StripTypes
<1>5. c5' \in [Channels \cup {All} -> Sync!Streams]
  BY FreshIsStrip DEF Sync!BulkEnded, Sync!Leave, Sync!StripInv, Sync!StripTypes
<1> QED
  BY <1>1, <1>2, <1>3, <1>4, <1>5 DEF Sync!StripInv, Sync!StripTypes

\* A timer runs for a strip that ended well, and hides nothing else.
LEMMA TimerKeeps ==
    ASSUME Sync!StripInv, NEW c \in Channels, Sync!StartFading(c) \/ Sync!Hide(c)
    PROVE  Sync!StripInv'
<1>1. c2[c] \in Sync!Strips
  BY DEF Sync!StripInv, Sync!StripTypes
<1>2. PICK s \in Sync!Strips : c2' = [c2 EXCEPT ![c] = s] /\ s.finalOk \in {c2[c].finalOk, "open"}
  <2>1. CASE Sync!StartFading(c)
    <3> DEFINE s == [c2[c] EXCEPT !.fading = TRUE, !.on = TRUE]
    <3>1. s \in Sync!Strips /\ s.finalOk = c2[c].finalOk
      BY <1>1 DEF Sync!Strips
    <3>2. c2' = [c2 EXCEPT ![c] = s]
      BY <2>1 DEF Sync!StartFading
    <3> QED
      BY <3>1, <3>2
  <2>2. CASE Sync!Hide(c)
    BY <2>2, FreshIsStrip DEF Sync!Hide
  <2> QED
    BY <2>1, <2>2
<1>3. UNCHANGED <<c1, c4, c5>> /\ c3[c] # "no" /\ \E v \in {"no", "fade"} : c3' = [c3 EXCEPT ![c] = v]
  BY DEF Sync!StartFading, Sync!Hide
<1>4. Sync!StripTypes'
  BY <1>2, <1>3 DEF Sync!StripInv, Sync!StripTypes
<1>5. \A d \in Channels \ {c} : c2'[d] = c2[d] /\ c3'[d] = c3[d]
  BY <1>2, <1>3 DEF Sync!StripInv, Sync!StripTypes
<1>6. c2'[c].finalOk # "failed" \/ c \notin c1
  BY <1>2, <1>3 DEF Sync!StripInv, Sync!StripTypes
<1> QED
  BY <1>3, <1>4, <1>5, <1>6 DEF Sync!StripInv, Sync!StripTypes

LEMMA SyncStep ==
    ASSUME Sync!StripInv, Sync!Next PROVE Sync!StripInv'
BY StreamEventKeeps, BulkEventKeeps, StartKeeps, EndKeeps, BulkEndKeeps, TimerKeeps DEF Sync!Next

\* The timer of a success that hides a strip is cleared by the next stream, so that
\* nothing but a new stream takes a failure away.
LEMMA SyncKeepsFailure ==
    ASSUME Sync!StripInv, Sync!Next PROVE Sync!FailureKept
<1> SUFFICES ASSUME NEW c \in c1, Sync!Failed(c), ~Sync!Leave
             PROVE  c2'[c] \in {c2[c], Sync!Fresh}
  BY DEF Sync!FailureKept
<1>1. /\ c \in Channels /\ c2[c] \in Sync!Strips /\ ~c2[c].running /\ c3[c] = "no" /\ ~c5[c].live
      /\ ~(c5[All].live /\ c \in c5[All].left)
  BY DEF Sync!StripInv, Sync!StripTypes, Sync!Failed
<1>2. c2 \in [Channels -> Sync!Strips]
  BY DEF Sync!StripInv, Sync!StripTypes
<1>3. ASSUME NEW d \in Channels,
             Sync!StartStream(d) \/ Sync!StreamEnded(d) \/ Sync!StreamBroke(d) \/ Sync!StartFading(d) \/ Sync!Hide(d)
      PROVE  c2'[c] \in {c2[c], Sync!Fresh}
  BY <1>1, <1>2, <1>3 DEF Sync!StartStream, Sync!Patched, Sync!StreamEnded, Sync!StreamBroke,
     Sync!StartFading, Sync!Hide
<1>4. ASSUME NEW d \in Channels, NEW ev \in Sync!Events, Sync!StreamEvent(d, ev) \/ Sync!BulkEvent(d, ev)
      PROVE  c2'[c] \in {c2[c], Sync!Fresh}
  BY <1>1, <1>2, <1>4 DEF Sync!StreamEvent, Sync!BulkEvent
<1>5. ASSUME Sync!StartBulkSync
      PROVE  c2'[c] \in {c2[c], Sync!Fresh}
  BY <1>1, <1>5 DEF Sync!StartBulkSync, Sync!Patched
<1>6. ASSUME Sync!BulkEnded
      PROVE  c2'[c] \in {c2[c], Sync!Fresh}
  <2>1. [c2[c] EXCEPT !.running = FALSE] = c2[c]
    BY <1>1 DEF Sync!Strips
  <2> QED
    BY <1>1, <1>6, <2>1 DEF Sync!BulkEnded, Sync!Stopped
<1> QED
  BY <1>3, <1>4, <1>5, <1>6 DEF Sync!Next

\* A strip runs with its stream.
LEMMA ShownStep ==
    ASSUME Sync!StripInv, Sync!ShownInv, Sync!Next PROVE Sync!ShownInv'
<1>1. c2 \in [Channels -> Sync!Strips] /\ c5 \in [Channels \cup {All} -> Sync!Streams]
  BY DEF Sync!StripInv, Sync!StripTypes
<1>2. ASSUME NEW c \in Channels, NEW ev \in Sync!Events, Sync!StreamEvent(c, ev)
      PROVE  Sync!ShownInv'
  <2>1. PICK s : s = Sync!Took(c, ev)
    OBVIOUS
  <2>2. s.on /\ s.running = c2[c].running /\ s.fading = c2[c].fading
    BY <1>1, <2>1 DEF Sync!Took, Sync!Strips
  <2>3. c2' = [c2 EXCEPT ![c] = s] /\ c4' = c4
    BY <1>2, <2>1 DEF Sync!StreamEvent
  <2>4. PICK o : c5' = [c5 EXCEPT ![c] = o] /\ o.live = c5[c].live
    <3>1. PICK saw, over : c5' = [c5 EXCEPT ![c] = [c5[c] EXCEPT !.sawError = saw, !.over = over]]
      BY <1>2 DEF Sync!StreamEvent
    <3>2. [c5[c] EXCEPT !.sawError = saw, !.over = over].live = c5[c].live
      BY <1>1 DEF Sync!Streams
    <3> QED
      BY <3>1, <3>2
  <2> QED
    BY <1>1, <2>2, <2>3, <2>4, ConsoleAssumption DEF Sync!ShownInv
<1>3. ASSUME NEW c \in Channels, NEW ev \in Sync!Events, Sync!BulkEvent(c, ev)
      PROVE  Sync!ShownInv'
  <2>1. PICK s : c2' = [c2 EXCEPT ![c] = s]
    BY <1>3 DEF Sync!BulkEvent
  <2>2. PICK o : c5' = [c5 EXCEPT ![All] = o] /\ o.live
    <3>1. PICK left, at, saw : c5' = [c5 EXCEPT ![All] = [c5[All] EXCEPT !.left = left, !.at = at, !.sawError = saw]]
      BY <1>3 DEF Sync!BulkEvent
    <3>2. [c5[All] EXCEPT !.left = left, !.at = at, !.sawError = saw].live = c5[All].live
      BY <1>1 DEF Sync!Streams
    <3> QED
      BY <1>3, <3>1, <3>2 DEF Sync!BulkEvent
  <2>3. \A d \in Channels : ~c5[d].live /\ c5'[d] = c5[d]
    BY <1>1, <1>3, <2>2, ConsoleAssumption DEF Sync!BulkEvent, Sync!StripInv
  <2>4. c5'[All].live
    BY <1>1, <2>2
  <2> QED
    BY <2>3, <2>4 DEF Sync!ShownInv
<1>4. ASSUME (\E c \in Channels : Sync!StartStream(c)) \/ Sync!StartBulkSync
      PROVE  Sync!ShownInv'
  <2>1. (\A d \in Channels : ~c2[d].running /\ ~c5[d].live) /\ ~c4.running
    BY <1>4 DEF Sync!StartStream, Sync!StartBulkSync, Sync!AnySyncRunning, Sync!StripInv
  <2>2. ASSUME NEW c \in Channels, Sync!StartStream(c)
        PROVE  Sync!ShownInv'
    <3>1. /\ c4' = c4
          /\ c2' = [d \in Channels |-> IF d = c THEN Sync!Fresh ELSE c2[d]]
          /\ c5' = [c5 EXCEPT ![c] = Sync!OpenOn({c})]
      BY <2>2 DEF Sync!StartStream, Sync!Patched
    <3>2. Sync!Fresh.on /\ ~Sync!Fresh.fading
      BY DEF Sync!Fresh
    <3> QED
      BY <1>1, <2>1, <3>1, <3>2, FreshIsStrip DEF Sync!ShownInv
  <2>3. CASE Sync!StartBulkSync
    <3>1. c5' = [c5 EXCEPT ![All] = Sync!OpenOn(Channels)]
      BY <2>3 DEF Sync!StartBulkSync
    <3>2. c5'[All].live /\ \A d \in Channels : ~c5'[d].live
      BY <1>1, <2>1, <3>1, FreshIsStrip, ConsoleAssumption
    <3> QED
      BY <3>2 DEF Sync!ShownInv
  <2> QED
    BY <1>4, <2>2, <2>3
<1>5. ASSUME NEW c \in Channels, Sync!StreamEnded(c) \/ Sync!StreamBroke(c)
      PROVE  Sync!ShownInv'
  <2>1. PICK s : c2' = [c2 EXCEPT ![c] = s] /\ ~s.running
    <3>0. c2[c] \in Sync!Strips
      BY <1>1
    <3>1. CASE Sync!StreamEnded(c)
      <4> DEFINE s == [c2[c] EXCEPT !.running = FALSE, !.finalOk = IF c5[c].sawError THEN "failed" ELSE "ok"]
      <4>1. ~s.running
        BY <3>0 DEF Sync!Strips
      <4>2. c2' = [c2 EXCEPT ![c] = s]
        BY <3>1 DEF Sync!StreamEnded
      <4> QED
        BY <4>1, <4>2
    <3>2. CASE Sync!StreamBroke(c)
      <4> DEFINE s == [c2[c] EXCEPT !.running = FALSE, !.finalOk = "failed", !.latest = TRUE]
      <4>1. ~s.running
        BY <3>0 DEF Sync!Strips
      <4>2. c2' = [c2 EXCEPT ![c] = s]
        BY <3>2 DEF Sync!StreamBroke
      <4> QED
        BY <4>1, <4>2
    <3> QED
      BY <1>5, <3>1, <3>2
  <2>2. c5' = [c5 EXCEPT ![c] = Sync!Closed] /\ c4' = c4
    BY <1>5 DEF Sync!StreamEnded, Sync!StreamBroke
  <2> QED
    BY <1>1, <2>1, <2>2, FreshIsStrip, ConsoleAssumption DEF Sync!ShownInv
<1>6. ASSUME Sync!BulkEnded \/ Sync!Leave
      PROVE  Sync!ShownInv'
  <2>1. ~c4'.running
    BY <1>6 DEF Sync!BulkEnded, Sync!Leave, Sync!StripInv, Sync!StripTypes
  <2>2. \A d \in Channels : ~c2'[d].running
    <3>1. ASSUME NEW d \in Channels
          PROVE  ~[c2[d] EXCEPT !.running = FALSE].running
      <4>1. c2[d] \in Sync!Strips
        BY <1>1
      <4> QED
        BY <4>1 DEF Sync!Strips
    <3>2. ~Sync!NoStrip.running
      BY DEF Sync!NoStrip, Sync!Fresh
    <3> QED
      BY <1>6, <3>1, <3>2 DEF Sync!BulkEnded, Sync!Leave, Sync!Stopped
  <2>3. \A d \in Channels : ~c5'[d].live
    BY <1>1, <1>6, FreshIsStrip DEF Sync!BulkEnded, Sync!Leave, Sync!StripInv
  <2> QED
    BY <2>1, <2>2, <2>3 DEF Sync!ShownInv
<1>7. ASSUME NEW c \in Channels, Sync!StartFading(c) \/ Sync!Hide(c)
      PROVE  Sync!ShownInv'
  <2>1. PICK s : c2' = [c2 EXCEPT ![c] = s] /\ (s.running => c2[c].running)
    <3>1. CASE Sync!StartFading(c)
      <4> DEFINE s == [c2[c] EXCEPT !.fading = TRUE, !.on = TRUE]
      <4>1. c2[c] \in Sync!Strips
        BY <1>1
      <4>2. s.running = c2[c].running
        BY <4>1 DEF Sync!Strips
      <4>3. c2' = [c2 EXCEPT ![c] = s]
        BY <3>1 DEF Sync!StartFading
      <4> QED
        BY <4>2, <4>3
    <3>2. CASE Sync!Hide(c)
      <4>1. ~Sync!NoStrip.running
        BY DEF Sync!NoStrip, Sync!Fresh
      <4> QED
        BY <3>2, <4>1 DEF Sync!Hide
    <3> QED
      BY <1>7, <3>1, <3>2
  <2>2. UNCHANGED <<c4, c5>> /\ ~c5[c].live
    BY <1>7 DEF Sync!StartFading, Sync!Hide, Sync!StripInv
  <2> QED
    BY <1>1, <2>1, <2>2 DEF Sync!ShownInv
<1> QED
  BY <1>2, <1>3, <1>4, <1>5, <1>6, <1>7 DEF Sync!Next

LEMMA StreamIsShown == Sync!StripInv /\ Sync!ShownInv => Sync!OpenStreamIsShown /\ Sync!ButtonsComeBack
<1> SUFFICES ASSUME Sync!StripInv, Sync!ShownInv PROVE Sync!OpenStreamIsShown /\ Sync!ButtonsComeBack
  OBVIOUS
<1>1. PICK S : S = {k \in Channels \cup {All} : c5[k].live}
  OBVIOUS
<1>2. S = {} \/ \E k : S = {k}
  <2>1. CASE c5[All].live
    <3>1. S = {All}
      BY <1>1, <2>1 DEF Sync!StripInv
    <3> QED
      BY <3>1
  <2>2. ASSUME NEW c \in Channels, c5[c].live, ~c5[All].live
        PROVE  S = {c}
    BY <1>1, <2>2 DEF Sync!ShownInv
  <2>3. CASE \A k \in Channels \cup {All} : ~c5[k].live
    BY <1>1, <2>3
  <2> QED
    BY <2>1, <2>2, <2>3
<1>3. Cardinality(S) = 0 \/ Cardinality(S) = 1
  BY <1>2, OneOrNone
<1>6. Sync!Cardinality(S) = Cardinality(S)
  BY DEF Sync!Cardinality, Cardinality
<1>4. Sync!OpenStreamIsShown
  BY <1>1, <1>3, <1>6 DEF Sync!StripInv, Sync!ShownInv, Sync!OpenStreamIsShown
<1>5. Sync!ButtonsComeBack
  BY DEF Sync!ShownInv, Sync!ButtonsComeBack, Sync!AnySyncRunning
<1> QED
  BY <1>4, <1>5

-----------------------------------------------------------------------------
(* The lists of services (ServiceLists) *)

LEMMA ListsStart == Lists!Init => Lists!SaveInv
<1> SUFFICES ASSUME Lists!Init PROVE Lists!SaveInv
  OBVIOUS
<1>1. Lists!NoRow \in Lists!AnyRow
  BY DEF Lists!NoRow, Lists!AnyRow
<1>2. \A k \in Secrets : [Lists!NoRow EXCEPT !.key = k] \in Lists!AnyRow
  BY DEF Lists!NoRow, Lists!AnyRow
<1>3. c2 \in [Services -> Lists!AnyRow]
  BY <1>1, <1>2 DEF Lists!Init
<1> QED
  BY <1>3 DEF Lists!Init, Lists!SaveInv, Lists!SaveTypes, Lists!OneSave, Lists!ClosedForm, Lists!Forms

LEMMA CallTypes ==
    ASSUME NEW op \in {"delete", "probe", "update", "create"}, NEW i \in Services \cup {Lists!None},
           NEW key \in Secrets \cup {Nil}
    PROVE  Lists!Call(op, i, key) \in Lists!Calls /\ Lists!Call(op, i, key).op = op
           /\ Lists!Call(op, i, key).id = i /\ Lists!Call(op, i, key).state = "sent"
BY DEF Lists!Call, Lists!Calls, Lists!NoRow, Lists!AnyRow

\* The page: buttons send calls that save nothing, and the form sends a save when
\* none is under way.
LEMMA ListsPageKeeps ==
    ASSUME Lists!SaveInv,
           \/ \E i \in Services : Lists!Probe(i) \/ Lists!HandleDelete(i)
           \/ \E yes \in BOOLEAN : Lists!Confirm(yes)
           \/ Lists!OpenForm \/ Lists!TypeKey \/ Lists!CloseForm \/ Lists!ListAnswered
    PROVE  Lists!SaveInv'
<1>1. c2' = c2 /\ c6' \in Services \cup {Lists!None}
  BY DEF Lists!Probe, Lists!HandleDelete, Lists!Confirm, Lists!OpenForm, Lists!TypeKey, Lists!CloseForm,
     Lists!ListAnswered, Lists!Button, Lists!Click, Lists!InForm, Lists!SaveInv, Lists!SaveTypes
<1>2. c7' \in Lists!Forms /\ c7'.submitting = c7.submitting
  BY DEF Lists!Probe, Lists!HandleDelete, Lists!Confirm, Lists!OpenForm, Lists!Opened, Lists!TypeKey,
     Lists!CloseForm, Lists!ListAnswered, Lists!InForm, Lists!SaveInv, Lists!SaveTypes, Lists!Forms
<1>3. c8' = c8 \/ \E op \in {"delete", "probe"}, i \in Services : c8' = c8 \cup {Lists!Call(op, i, Nil)}
  BY DEF Lists!Probe, Lists!HandleDelete, Lists!Confirm, Lists!OpenForm, Lists!TypeKey, Lists!CloseForm,
     Lists!ListAnswered, Lists!InForm, Lists!SaveInv, Lists!SaveTypes
<1> QED
  BY <1>1, <1>2, <1>3, CallTypes
     DEF Lists!SaveInv, Lists!SaveTypes, Lists!OneSave, Lists!IsSave, Lists!SaveIsCurrent

LEMMA ListsSubmitKeeps ==
    ASSUME Lists!SaveInv, Lists!HandleSubmit PROVE Lists!SaveInv'
<1>1. c7 \in Lists!Forms /\ ~c7.submitting /\ UNCHANGED <<c2, c6>>
  BY DEF Lists!SaveInv, Lists!SaveTypes, Lists!HandleSubmit, Lists!InForm
<1>2. c7' \in Lists!Forms /\ c7'.submitting
  BY <1>1 DEF Lists!HandleSubmit, Lists!Forms
<1> DEFINE op == IF c7.id = Lists!None THEN "create" ELSE "update"
           new == Lists!Call(op, c7.id, c7.key)
<1>3. new \in Lists!Calls /\ new.op = op /\ new.id = c7.id /\ new.state = "sent"
  BY <1>1, CallTypes DEF Lists!Forms
<1>4. c8' = c8 \cup {new}
  BY DEF Lists!HandleSubmit
<1> HIDE DEF new
<1>5. new.op # "create" => new.id \in Services
  BY <1>1, <1>3 DEF Lists!Forms
<1>6. \A c \in c8 : ~Lists!IsSave(c)
  BY <1>1 DEF Lists!SaveInv, Lists!OneSave
<1> QED
  BY <1>1, <1>2, <1>3, <1>4, <1>5, <1>6
     DEF Lists!SaveInv, Lists!SaveTypes, Lists!OneSave, Lists!IsSave, Lists!SaveIsCurrent

\* A call that goes on stays the call it is.
LEMMA MovedCall ==
    ASSUME NEW c \in Lists!Calls, NEW s \in {"sent", "read", "done", "refused"}
    PROVE  [c EXCEPT !.state = s] \in Lists!Calls /\ [c EXCEPT !.state = s].op = c.op
           /\ [c EXCEPT !.state = s].id = c.id /\ [c EXCEPT !.state = s].state = s
BY DEF Lists!Calls

\* A handler's step keeps the invariant when the rows that saves have read keep
\* their keys.
LEMMA HandlerKeeps ==
    ASSUME Lists!SaveInv, NEW c \in c8, NEW d \in Lists!Calls, d.op = c.op, d.id = c.id,
           Lists!Moves(c, d), Lists!ServerOnly,
           c2' \in [Services -> Lists!AnyRow],
           \A e \in (c8 \ {c}) \cup {d} : Lists!SaveIsCurrent(e)'
    PROVE  Lists!SaveInv'
<1>1. Lists!SaveTypes'
  BY DEF Lists!SaveInv, Lists!SaveTypes, Lists!Moves, Lists!ServerOnly
<1>2. Lists!OneSave'
  BY DEF Lists!SaveInv, Lists!OneSave, Lists!IsSave, Lists!Moves, Lists!ServerOnly
<1> QED
  BY <1>1, <1>2 DEF Lists!SaveInv, Lists!Moves

LEMMA ListsHandlersKeep ==
    ASSUME Lists!SaveInv, NEW c \in c8,
           \/ Lists!DeleteRow(c) \/ Lists!CreateRow(c) \/ Lists!FindRow(c) \/ Lists!SaveRow(c) \/ Lists!ProbeUpstream(c)
    PROVE  Lists!SaveInv'
<1>1. /\ c \in Lists!Calls /\ c2 \in [Services -> Lists!AnyRow] /\ (c.op # "create" => c.id \in Services)
      /\ \A e \in c8 : e \in Lists!Calls
  BY DEF Lists!SaveInv, Lists!SaveTypes
<1>2. \A e \in c8 : Lists!IsSave(c) /\ Lists!IsSave(e) => e = c
  BY DEF Lists!SaveInv, Lists!OneSave
<1>3. Lists!ServerOnly
  BY DEF Lists!DeleteRow, Lists!CreateRow, Lists!FindRow, Lists!SaveRow, Lists!ProbeUpstream
<1>4. Lists!NoRow \in Lists!AnyRow
  BY DEF Lists!NoRow, Lists!AnyRow
<1> DEFINE To(s) == [c EXCEPT !.state = s]
<1>5. \A s \in {"sent", "read", "done", "refused"} :
         To(s) \in Lists!Calls /\ To(s).op = c.op /\ To(s).id = c.id /\ To(s).state = s
  BY <1>1, MovedCall
<1> HIDE DEF To
<1>6. ASSUME Lists!Refuse(c)
      PROVE  Lists!SaveInv'
  <2>1. Lists!Moves(c, To("refused")) /\ UNCHANGED c2
    BY <1>6 DEF Lists!Refuse, To
  <2>2. \A e \in (c8 \ {c}) \cup {To("refused")} : Lists!SaveIsCurrent(e)'
    BY <1>5, <2>1 DEF Lists!SaveInv, Lists!SaveIsCurrent
  <2> QED
    BY <1>1, <1>3, <1>5, <2>1, <2>2, HandlerKeeps
<1>7. ASSUME Lists!DeleteRow(c), ~Lists!Refuse(c)
      PROVE  Lists!SaveInv'
  <2>1. Lists!Moves(c, To("done")) /\ c2' = [c2 EXCEPT ![c.id] = Lists!NoRow]
    BY <1>7 DEF Lists!DeleteRow, Lists!Write, To
  <2>2. \A e \in (c8 \ {c}) \cup {To("done")} : Lists!SaveIsCurrent(e)'
    BY <1>1, <1>5, <2>1 DEF Lists!SaveInv, Lists!SaveTypes, Lists!SaveIsCurrent
  <2>3. c2' \in [Services -> Lists!AnyRow]
    BY <1>1, <1>4, <2>1
  <2> QED
    BY <1>3, <1>5, <2>1, <2>2, <2>3, HandlerKeeps
<1>8. ASSUME Lists!CreateRow(c), ~Lists!Refuse(c)
      PROVE  Lists!SaveInv'
  <2>1. PICK i \in Services : Lists!Moves(c, To("done")) /\ c2' = [c2 EXCEPT ![i] = [Lists!NoRow EXCEPT !.key = c.key]]
    BY <1>8 DEF Lists!CreateRow, Lists!Write, Lists!Live, To
  <2>2. [Lists!NoRow EXCEPT !.key = c.key] \in Lists!AnyRow
    BY <1>1 DEF Lists!NoRow, Lists!AnyRow, Lists!Calls
  <2>3. \A e \in c8 \ {c} : ~Lists!IsSave(e)
    BY <1>2, <1>8 DEF Lists!CreateRow, Lists!IsSave
  <2>4. \A e \in (c8 \ {c}) \cup {To("done")} : Lists!SaveIsCurrent(e)'
    BY <1>5, <2>3 DEF Lists!IsSave, Lists!SaveIsCurrent
  <2>5. c2' \in [Services -> Lists!AnyRow]
    BY <1>1, <2>1, <2>2
  <2> QED
    BY <1>3, <1>5, <2>1, <2>4, <2>5, HandlerKeeps
<1>9. ASSUME Lists!FindRow(c), ~Lists!Refuse(c)
      PROVE  Lists!SaveInv'
  <2> DEFINE d == [c EXCEPT !.state = "read", !.row = c2[c.id]]
  <2>1. Lists!Moves(c, d) /\ UNCHANGED c2
    BY <1>9 DEF Lists!FindRow
  <2>2. c2[c.id] \in Lists!AnyRow
    BY <1>1, <1>9 DEF Lists!FindRow
  <2>3. d \in Lists!Calls /\ d.op = c.op /\ d.id = c.id /\ d.row = c2[c.id]
    BY <1>1, <2>2 DEF Lists!Calls
  <2> HIDE DEF d
  <2>4. \A e \in (c8 \ {c}) \cup {d} : Lists!SaveIsCurrent(e)'
    BY <2>1, <2>3 DEF Lists!SaveInv, Lists!SaveIsCurrent
  <2> QED
    BY <1>1, <1>3, <2>1, <2>3, <2>4, HandlerKeeps
<1>10. ASSUME Lists!SaveRow(c)
       PROVE  Lists!SaveInv'
  <2>1. Lists!Moves(c, To("done")) /\ c2' = [c2 EXCEPT ![c.id] = [c.row EXCEPT !.key = Lists!KeyAfter(c)]]
    BY <1>10 DEF Lists!SaveRow, Lists!Write, To
  <2>2. [c.row EXCEPT !.key = Lists!KeyAfter(c)] \in Lists!AnyRow
    BY <1>1 DEF Lists!KeyAfter, Lists!Calls, Lists!AnyRow
  <2>3. \A e \in c8 \ {c} : ~Lists!IsSave(e)
    BY <1>2, <1>10 DEF Lists!SaveRow, Lists!IsSave
  <2>4. \A e \in (c8 \ {c}) \cup {To("done")} : Lists!SaveIsCurrent(e)'
    BY <1>5, <2>3 DEF Lists!IsSave, Lists!SaveIsCurrent
  <2>5. c2' \in [Services -> Lists!AnyRow]
    BY <1>1, <2>1, <2>2
  <2> QED
    BY <1>3, <1>5, <2>1, <2>4, <2>5, HandlerKeeps
<1>11. ASSUME Lists!ProbeUpstream(c)
       PROVE  Lists!SaveInv'
  <2>1. PICK ok \in BOOLEAN :
           /\ c2' = [c2 EXCEPT ![c.id] = Lists!Measured(c, ok)]
           /\ Lists!Moves(c, To(IF ok THEN "done" ELSE "refused"))
    BY <1>11 DEF Lists!ProbeUpstream, Lists!Write, To
  <2>2. c.id \in Services /\ c2[c.id] \in Lists!AnyRow
    BY <1>1, <1>11 DEF Lists!ProbeUpstream
  <2> DEFINE row == Lists!Measured(c, ok)
  <2>3. row \in Lists!AnyRow /\ row.key = c2[c.id].key /\ (c2[c.id] = Lists!NoRow => row = Lists!NoRow)
    BY <1>1, <2>2 DEF Lists!Measured, Lists!AnyRow, Lists!Calls
  <2> HIDE DEF row
  <2>4. c2' = [c2 EXCEPT ![c.id] = row]
    BY <2>1 DEF row
  <2> DEFINE d == To(IF ok THEN "done" ELSE "refused")
  <2>5. d \in Lists!Calls /\ d.op = c.op /\ d.id = c.id /\ d.state # "read" /\ Lists!Moves(c, d)
    BY <1>5, <2>1
  <2> HIDE DEF d
  <2>6. \A e \in (c8 \ {c}) \cup {d} : Lists!SaveIsCurrent(e)'
    <3> SUFFICES ASSUME NEW e \in c8 \ {c}, e.op = "update", e.state = "read"
                 PROVE  c2'[e.id] = Lists!NoRow \/ c2'[e.id].key = e.row.key
      BY <2>5 DEF Lists!SaveIsCurrent
    <3>1. e.id \in Services /\ (c2[e.id] = Lists!NoRow \/ c2[e.id].key = e.row.key)
      BY DEF Lists!SaveInv, Lists!SaveTypes, Lists!SaveIsCurrent
    <3> QED
      BY <1>1, <2>2, <2>3, <2>4, <3>1
  <2>7. c2' \in [Services -> Lists!AnyRow]
    BY <1>1, <2>3, <2>4
  <2> QED
    BY <1>3, <2>5, <2>6, <2>7, HandlerKeeps
<1>12. Lists!Refuse(c) \/ ~Lists!Refuse(c)
  OBVIOUS
<1> QED
  BY <1>6, <1>7, <1>8, <1>9, <1>10, <1>11, <1>12

LEMMA ListsAnswerKeeps ==
    ASSUME Lists!SaveInv, NEW c \in c8, Lists!Answered(c) PROVE Lists!SaveInv'
<1>1. UNCHANGED <<c2, c6>> /\ c8' = c8 \ {c} /\ c7 \in Lists!Forms
  BY DEF Lists!Answered, Lists!SaveInv, Lists!SaveTypes
<1>2. c7' \in Lists!Forms
  BY <1>1 DEF Lists!Answered, Lists!Forms
<1>3. CASE Lists!IsSave(c)
  <2>1. \A e \in c8' : ~Lists!IsSave(e)
    BY <1>1, <1>3 DEF Lists!SaveInv, Lists!OneSave
  <2> QED
    BY <1>1, <1>2, <2>1 DEF Lists!SaveInv, Lists!SaveTypes, Lists!OneSave, Lists!SaveIsCurrent
<1>4. CASE ~Lists!IsSave(c)
  <2>1. UNCHANGED c7
    BY <1>4 DEF Lists!Answered, Lists!IsSave, Lists!SaveInv, Lists!SaveTypes, Lists!Calls
  <2> QED
    BY <1>1, <2>1 DEF Lists!SaveInv, Lists!SaveTypes, Lists!OneSave, Lists!SaveIsCurrent
<1> QED
  BY <1>3, <1>4

LEMMA ListsStep ==
    ASSUME Lists!SaveInv, Lists!Next PROVE Lists!SaveInv'
BY ListsPageKeeps, ListsSubmitKeeps, ListsHandlersKeep, ListsAnswerKeeps DEF Lists!Next

\* A balance that arrives, a row that is gone, and a list that is loaded again change
\* no key; and a save without a key writes the one that the row has.
LEMMA ListsKeyStep ==
    ASSUME Lists!SaveInv, Lists!Next PROVE Lists!KeyStep
<1> SUFFICES ASSUME NEW i \in Services, c2[i] # Lists!NoRow, c2'[i] # Lists!NoRow, c2'[i].key # c2[i].key
             PROVE  \E c \in c8 : c.op = "update" /\ c.id = i /\ c.key # Nil /\ c2'[i].key = c.key
  BY DEF Lists!KeyStep
<1>1. c2 \in [Services -> Lists!AnyRow]
  BY DEF Lists!SaveInv, Lists!SaveTypes
<1>2. PICK c \in c8 : \/ Lists!DeleteRow(c) \/ Lists!CreateRow(c) \/ Lists!FindRow(c)
                      \/ Lists!SaveRow(c) \/ Lists!ProbeUpstream(c)
  BY DEF Lists!Next, Lists!Probe, Lists!HandleDelete, Lists!Confirm, Lists!OpenForm, Lists!TypeKey, Lists!CloseForm,
     Lists!ListAnswered, Lists!Button, Lists!Click, Lists!InForm, Lists!HandleSubmit, Lists!Answered
<1>3. c \in Lists!Calls
  BY DEF Lists!SaveInv, Lists!SaveTypes
<1>4. ~Lists!DeleteRow(c) /\ ~Lists!FindRow(c)
  BY <1>1 DEF Lists!DeleteRow, Lists!FindRow, Lists!Refuse, Lists!Write
<1>5. ~Lists!CreateRow(c)
  BY <1>1 DEF Lists!CreateRow, Lists!Refuse, Lists!Write, Lists!Live
<1>6. ~Lists!ProbeUpstream(c)
  <2> SUFFICES ASSUME NEW ok \in BOOLEAN, c2' = [c2 EXCEPT ![c.id] = Lists!Measured(c, ok)]
               PROVE  FALSE
    BY DEF Lists!ProbeUpstream, Lists!Write
  <2>1. Lists!Measured(c, ok).key = c2[c.id].key \/ c.id # i
    BY <1>1 DEF Lists!Measured, Lists!AnyRow
  <2> QED
    BY <1>1, <2>1
<1>7. Lists!SaveRow(c)
  BY <1>2, <1>4, <1>5, <1>6
<1>8. c.op = "update" /\ c.state = "read" /\ c2' = [c2 EXCEPT ![c.id] = [c.row EXCEPT !.key = Lists!KeyAfter(c)]]
  BY <1>7 DEF Lists!SaveRow, Lists!Write
<1>9. c.id = i /\ c2[i].key = c.row.key
  BY <1>1, <1>8 DEF Lists!SaveInv, Lists!SaveIsCurrent
<1>10. c2'[i].key = Lists!KeyAfter(c)
  BY <1>1, <1>3, <1>8, <1>9 DEF Lists!Calls, Lists!AnyRow
<1> QED
  BY <1>8, <1>9, <1>10 DEF Lists!KeyAfter

\* One number stands for all rows: it is set with a call and cleared by any answer, and
\* a call keeps its row.
LEMMA ListsBusyStep ==
    ASSUME Lists!SaveInv, Lists!BusyNamesACall, Lists!Next PROVE Lists!BusyNamesACall'
<1>1. CASE \/ \E i \in Services : Lists!HandleDelete(i)
           \/ Lists!OpenForm \/ Lists!TypeKey \/ Lists!CloseForm \/ Lists!HandleSubmit \/ Lists!ListAnswered
           \/ Lists!Confirm(FALSE)
  <2>1. c5' = c5 /\ c8 \subseteq c8'
    BY <1>1 DEF Lists!HandleDelete, Lists!Button, Lists!OpenForm, Lists!TypeKey, Lists!CloseForm, Lists!HandleSubmit,
       Lists!ListAnswered, Lists!InForm, Lists!Confirm
  <2> QED
    BY <2>1 DEF Lists!BusyNamesACall
<1>2. CASE Lists!Confirm(TRUE) \/ \E i \in Services : Lists!Probe(i)
  <2>1. PICK op \in {"delete", "probe"} : c8' = c8 \cup {Lists!Call(op, c5', Nil)}
    <3>1. CASE Lists!Confirm(TRUE)
      BY <3>1 DEF Lists!Confirm
    <3>2. ASSUME NEW i \in Services, Lists!Probe(i)
          PROVE  c8' = c8 \cup {Lists!Call("probe", c5', Nil)}
      BY <3>2 DEF Lists!Probe
    <3> QED
      BY <1>2, <3>1, <3>2
  <2>2. Lists!Call(op, c5', Nil).id = c5' /\ Lists!Call(op, c5', Nil).op = op
    BY DEF Lists!Call
  <2> QED
    BY <2>1, <2>2 DEF Lists!BusyNamesACall
<1>3. ASSUME NEW c \in c8, Lists!Answered(c)
      PROVE  Lists!BusyNamesACall'
  <2>1. CASE c.op \in {"delete", "probe"}
    BY <1>3, <2>1 DEF Lists!Answered, Lists!BusyAfter, Lists!BusyNamesACall
  <2>2. CASE c.op \notin {"delete", "probe"}
    BY <1>3, <2>2 DEF Lists!Answered, Lists!BusyNamesACall
  <2> QED
    BY <2>1, <2>2
<1>4. ASSUME NEW c \in c8,
             \/ Lists!DeleteRow(c) \/ Lists!CreateRow(c) \/ Lists!FindRow(c)
             \/ Lists!SaveRow(c) \/ Lists!ProbeUpstream(c)
      PROVE  Lists!BusyNamesACall'
  <2>1. c \in Lists!Calls
    BY DEF Lists!SaveInv, Lists!SaveTypes
  <2>2. PICK s, row : Lists!Moves(c, [c EXCEPT !.state = s, !.row = row])
    <3>1. \A s : [c EXCEPT !.state = s] = [c EXCEPT !.state = s, !.row = c.row]
      BY <2>1 DEF Lists!Calls
    <3> QED
      BY <1>4, <3>1 DEF Lists!DeleteRow, Lists!CreateRow, Lists!FindRow, Lists!SaveRow, Lists!ProbeUpstream, Lists!Refuse
  <2> DEFINE d == [c EXCEPT !.state = s, !.row = row]
  <2>3. d.id = c.id /\ d.op = c.op
    BY <2>1 DEF Lists!Calls
  <2>4. c8' = (c8 \ {c}) \cup {d}
    BY <2>2 DEF Lists!Moves
  <2> HIDE DEF d
  <2>5. c5' = c5
    BY <1>4 DEF Lists!DeleteRow, Lists!CreateRow, Lists!FindRow, Lists!SaveRow, Lists!ProbeUpstream, Lists!ServerOnly
  <2> QED
    BY <2>3, <2>4, <2>5 DEF Lists!BusyNamesACall
<1>5. \A yes \in BOOLEAN : Lists!Confirm(yes) => Lists!Confirm(TRUE) \/ Lists!Confirm(FALSE)
  OBVIOUS
<1> QED
  BY <1>1, <1>2, <1>3, <1>4, <1>5 DEF Lists!Next

-----------------------------------------------------------------------------
(* The dialog of a notification channel (NotifyForm) *)

LEMMA NotifyStarts == Notify!Init => Notify!CallInv
BY DEF Notify!Init, Notify!CallInv, Notify!NoCall

\* The dialog's clicks and the page's leave the row and the request alone.
LEMMA NotifyQuiet ==
    ASSUME \/ Notify!OpenDialog \/ Notify!CloseDialog \/ Notify!TypeConfig \/ Notify!AddSub
           \/ Notify!RemoveSub \/ Notify!SelectChannels \/ Notify!SetEventMode \/ Notify!ToggleEvents
           \/ Notify!SetMode \/ Notify!ToggleGroups \/ Notify!DropUpstream
    PROVE  UNCHANGED <<c2, c6>>
BY DEF Notify!OpenDialog, Notify!CloseDialog, Notify!TypeConfig, Notify!AddSub, Notify!RemoveSub,
   Notify!SelectChannels, Notify!SetEventMode, Notify!ToggleEvents, Notify!SetMode, Notify!ToggleGroups,
   Notify!DropUpstream, Notify!EditRow, Notify!Edit

LEMMA NotifyStep ==
    ASSUME Notify!CallInv, Notify!Next PROVE Notify!CallInv' /\ Notify!ConfigStep
<1>1. CASE UNCHANGED <<c2, c6>>
  BY <1>1 DEF Notify!CallInv, Notify!HasConfigInput, Notify!ConfigStep
<1>2. CASE Notify!HandleSubmit
  <2> DEFINE typed == ~c2.there \/ Notify!HasConfigInput(c4.cfg)
  <2>1. typed /\ c2.there => Notify!HasConfigInput(c4.cfg)
    OBVIOUS
  <2>2. c6' = [cfg |-> c4.cfg, typed |-> typed, subs |-> c4.subs, state |-> "sent"] /\ UNCHANGED c2
    BY <1>2 DEF Notify!HandleSubmit
  <2> HIDE DEF typed
  <2> QED
    BY <2>1, <2>2 DEF Notify!CallInv, Notify!HasConfigInput, Notify!ConfigStep
<1>3. CASE Notify!WriteChannel
  <2>1. c6' = [c6 EXCEPT !.state = "written"] /\ c6.state = "sent"
        /\ c2'.cfg = IF c6.typed THEN c6.cfg ELSE c2.cfg
    BY <1>3 DEF Notify!WriteChannel
  <2>2. c6'.state # "sent"
    BY <2>1
  <2> QED
    BY <2>1, <2>2 DEF Notify!CallInv, Notify!HasConfigInput, Notify!ConfigStep
<1>4. CASE Notify!Refused
  <2>1. c6' = [c6 EXCEPT !.state = "failed"] /\ UNCHANGED c2 /\ c6.state = "sent"
    BY <1>4 DEF Notify!Refused
  <2> QED
    BY <2>1 DEF Notify!CallInv, Notify!ConfigStep
<1>5. CASE Notify!SubmitAnswered
  BY <1>5 DEF Notify!SubmitAnswered, Notify!NoCall, Notify!CallInv, Notify!ConfigStep
<1> QED
  BY <1>1, <1>2, <1>3, <1>4, <1>5, NotifyQuiet DEF Notify!Next

-----------------------------------------------------------------------------
(* The dialog of a channel's keys (ApiKeys) *)

LEMMA NobodyIsCall == Keys!IsCall(Keys!Nobody) /\ Keys!Nobody.op = "none"
<1>1. Keys!Nobody \in [op : {"none"}, ch : {Nil}, id : {Keys!NoId}, group : {Nil}, row : {Nil}, state : {"sent"}]
  BY DEF Keys!Nobody, Keys!Call
<1> QED
  BY <1>1 DEF Keys!IsCall

LEMMA KeysStart == Keys!Init => Keys!TargetInv
BY NobodyIsCall DEF Keys!Init, Keys!TargetInv, Keys!TargetTypes, Keys!OneWrite, Keys!TargetIsChecked,
     Keys!SecretIsThisChannels, Keys!Open

\* The requests of the dialog's effects write nothing.
QuietCalls == \A c \in c17' \ c17 : c.op \notin Keys!Writes /\ Keys!IsCall(c)

LEMMA LoadIsQuiet ==
    ASSUME NEW base, \A c \in base : c \in c17 \/ (c.op \notin Keys!Writes /\ Keys!IsCall(c)),
           NEW ch \in Channels \cup {Nil}, NEW m, Keys!LoadKeys(base, ch, m)
    PROVE  QuietCalls
<1> DEFINE new == [op |-> "list", ch |-> ch, id |-> Keys!NoId, group |-> Nil, row |-> Nil, state |-> "sent"]
<1>1. new.op \notin Keys!Writes /\ Keys!IsCall(new)
  BY DEF Keys!Writes, Keys!IsCall
<1>2. c17' \subseteq base \cup {new}
  BY DEF Keys!LoadKeys
<1> HIDE DEF new
<1> QED
  BY <1>1, <1>2 DEF QuietCalls

LEMMA GroupsCallIsQuiet ==
    ASSUME NEW ch \in Channels \cup {Nil}
    PROVE  Keys!GroupsCall(ch).op \notin Keys!Writes /\ Keys!IsCall(Keys!GroupsCall(ch))
BY DEF Keys!GroupsCall, Keys!Writes, Keys!IsCall

LEMMA CallIsCall ==
    ASSUME c2 \in Channels \cup {Nil}, NEW op, NEW i, NEW g
    PROVE  Keys!IsCall(Keys!Call(op, i, g)) /\ Keys!Call(op, i, g).op = op
BY DEF Keys!Call, Keys!IsCall

\* What leaves the opening, its target and the writes alone keeps the invariant.
LEMMA QuietKeeps ==
    ASSUME Keys!TargetInv, QuietCalls, UNCHANGED <<c2, c3, c11, c14, c15, c16, c19, c20>>
    PROVE  Keys!TargetInv' /\ Keys!TargetStep
<1>1. Keys!TargetTypes'
  BY DEF QuietCalls, Keys!TargetInv, Keys!TargetTypes, Keys!IsCall
<1>2. Keys!OneWrite'
  BY DEF QuietCalls, Keys!TargetInv, Keys!OneWrite
<1>3. Keys!TargetIsChecked' /\ Keys!SecretIsThisChannels'
  BY DEF Keys!TargetInv, Keys!TargetIsChecked, Keys!SecretIsThisChannels, Keys!Open
<1>4. Keys!TargetStep
  BY DEF QuietCalls, Keys!TargetStep, Keys!Writes
<1> QED
  BY <1>1, <1>2, <1>3, <1>4 DEF Keys!TargetInv

LEMMA KeysQuietStep ==
    ASSUME Keys!TargetInv,
           \/ Keys!KeysAnswered \/ Keys!Reload \/ Keys!RetryGroups \/ Keys!OpenCreate \/ Keys!OpenEdit
           \/ Keys!BackToList \/ Keys!EditForm \/ Keys!SelectKey \/ Keys!RevealKey \/ Keys!DeleteAnswered
    PROVE  Keys!TargetInv' /\ Keys!TargetStep
<1>1. c2 \in Channels \cup {Nil}
  BY DEF Keys!TargetInv, Keys!TargetTypes
<1>2. UNCHANGED <<c2, c3, c11, c14, c15, c16, c19, c20>>
  BY DEF Keys!KeysAnswered, Keys!Reload, Keys!RetryGroups, Keys!OpenCreate, Keys!OpenEdit, Keys!BackToList,
     Keys!EditForm, Keys!SelectKey, Keys!RevealKey, Keys!DeleteAnswered, Keys!groupVars
<1>3. QuietCalls
  <2>1. CASE Keys!KeysAnswered \/ Keys!EditForm \/ Keys!SelectKey
    BY <2>1 DEF Keys!KeysAnswered, Keys!EditForm, Keys!SelectKey, QuietCalls
  <2>2. CASE Keys!Reload \/ Keys!OpenCreate \/ Keys!OpenEdit \/ Keys!BackToList
    BY <1>1, <2>2, LoadIsQuiet
       DEF Keys!Reload, Keys!OpenCreate, Keys!OpenEdit, Keys!BackToList, Keys!Cancel
  <2>3. CASE Keys!RetryGroups
    BY <1>1, <2>3, GroupsCallIsQuiet DEF Keys!RetryGroups, QuietCalls
  <2>4. CASE Keys!RevealKey
    <3>1. PICK i : c17' = c17 \cup {Keys!Call("reveal", i, Nil)}
      BY <2>4 DEF Keys!RevealKey
    <3> QED
      BY <1>1, <3>1, CallIsCall DEF QuietCalls, Keys!Writes
  <2>5. CASE Keys!DeleteAnswered
    <3>1. PICK c \in c17 : IF Keys!Open /\ Keys!Listing(c4)
                           THEN Keys!LoadKeys(Keys!Cancel("list") \ {c}, c2, c4) ELSE c17' = c17 \ {c}
      BY <2>5 DEF Keys!DeleteAnswered
    <3> QED
      BY <1>1, <3>1, LoadIsQuiet DEF QuietCalls, Keys!Cancel
  <2> QED
    BY <2>1, <2>2, <2>3, <2>4, <2>5
<1> QED
  BY <1>2, <1>3, QuietKeeps

LEMMA KeysOpenStep ==
    ASSUME Keys!TargetInv, Keys!OpenDialog
    PROVE  Keys!TargetInv' /\ Keys!TargetStep
<1>1. c2' \in Channels /\ ~Keys!Open /\ UNCHANGED <<c15, c16, c20>> /\ c11' = {} /\ c19' = FALSE
  BY DEF Keys!OpenDialog
<1>2. c14' = [i \in KeyIds |-> Nil]
  BY DEF Keys!OpenDialog, Keys!NoSecrets
<1>3. QuietCalls
  <2> DEFINE base == (Keys!Cancel("list") \ {c \in c17 : c.op = "groups"}) \cup {Keys!GroupsCall(c2')}
  <2>1. Keys!LoadKeys(base, c2', c4')
    BY DEF Keys!OpenDialog
  <2>2. \A c \in base : c \in c17 \/ (c.op \notin Keys!Writes /\ Keys!IsCall(c))
    BY <1>1, GroupsCallIsQuiet DEF Keys!Cancel
  <2> HIDE DEF base
  <2> QED
    BY <1>1, <2>1, <2>2, LoadIsQuiet
<1>4. Keys!TargetTypes'
  BY <1>1, <1>2, <1>3 DEF QuietCalls, Keys!TargetInv, Keys!TargetTypes, Keys!IsCall
<1>5. Keys!OneWrite'
  BY <1>1, <1>3 DEF QuietCalls, Keys!TargetInv, Keys!OneWrite
<1>6. Keys!TargetIsChecked' /\ Keys!SecretIsThisChannels'
  BY <1>1, <1>2 DEF Keys!TargetInv, Keys!TargetIsChecked, Keys!SecretIsThisChannels
<1>7. Keys!TargetStep
  BY <1>3 DEF QuietCalls, Keys!TargetStep, Keys!Writes
<1> QED
  BY <1>4, <1>5, <1>6, <1>7 DEF Keys!TargetInv

\* An opening ends with nothing to confirm.
LEMMA KeysCloseStep ==
    ASSUME Keys!TargetInv, Keys!CloseDialog \/ Keys!MigrateAnswered
    PROVE  Keys!TargetInv' /\ Keys!TargetStep
<1>1. c2' = Nil /\ c3' = Keys!NoTarget /\ UNCHANGED <<c14, c16, c19, c20>>
      /\ c17' \subseteq c17 /\ c15' \in {c15, FALSE}
  BY DEF Keys!CloseDialog, Keys!MigrateAnswered, Keys!Closed, Keys!Cancel
<1>2. c16.op # "migrate"
  <2>1. CASE Keys!CloseDialog
    <3>1. c16 = Keys!Nobody
      BY <2>1 DEF Keys!CloseDialog, Keys!Button
    <3> QED
      BY <3>1, NobodyIsCall
  <2>2. CASE Keys!MigrateAnswered
    <3>1. c15
      BY <2>2 DEF Keys!MigrateAnswered, Keys!TargetInv, Keys!OneWrite, Keys!Writes
    <3> QED
      BY <3>1 DEF Keys!TargetInv, Keys!TargetIsChecked
  <2> QED
    BY <2>1, <2>2
<1>3. c15' = c15 \/ \A c \in c17' : c.op \notin Keys!Writes
  <2>1. CASE Keys!CloseDialog
    BY <2>1 DEF Keys!CloseDialog
  <2>2. CASE Keys!MigrateAnswered
    <3>1. PICK c \in c17 : c.op = "migrate" /\ c17' \subseteq c17 \ {c}
      BY <2>2 DEF Keys!MigrateAnswered, Keys!Closed, Keys!Cancel
    <3> QED
      BY <3>1 DEF Keys!TargetInv, Keys!OneWrite, Keys!Writes
  <2> QED
    BY <2>1, <2>2
<1>4. Keys!TargetTypes'
  BY <1>1 DEF Keys!TargetInv, Keys!TargetTypes, Keys!IsCall
<1>5. Keys!OneWrite'
  BY <1>1, <1>3 DEF Keys!TargetInv, Keys!OneWrite
<1>6. Keys!TargetIsChecked' /\ Keys!SecretIsThisChannels'
  BY <1>1, <1>2 DEF Keys!TargetIsChecked, Keys!SecretIsThisChannels, Keys!Open
<1>7. Keys!TargetStep
  BY <1>1 DEF Keys!TargetStep
<1> QED
  BY <1>4, <1>5, <1>6, <1>7 DEF Keys!TargetInv

LEMMA KeysGroupsStep ==
    ASSUME Keys!TargetInv, Keys!GroupsAnswered
    PROVE  Keys!TargetInv' /\ Keys!TargetStep
<1>1. UNCHANGED <<c2, c3, c14, c15, c16, c20>> /\ c17' \subseteq c17
      /\ c19' = (c19 \/ c3.group \in c11')
  BY DEF Keys!GroupsAnswered, Keys!formVars, Keys!tableVars
<1>2. c19' \in BOOLEAN /\ (c19 => c19') /\ (c3.group \in c11' => c19')
  BY <1>1 DEF Keys!TargetInv, Keys!TargetTypes
<1>3. Keys!TargetTypes'
  BY <1>1, <1>2 DEF Keys!TargetInv, Keys!TargetTypes, Keys!IsCall
<1>4. Keys!OneWrite'
  BY <1>1 DEF Keys!TargetInv, Keys!OneWrite
<1>5. Keys!TargetIsChecked' /\ Keys!SecretIsThisChannels'
  BY <1>1, <1>2 DEF Keys!TargetInv, Keys!TargetIsChecked, Keys!SecretIsThisChannels, Keys!Open
<1>6. Keys!TargetStep
  BY <1>1 DEF Keys!TargetStep
<1> QED
  BY <1>3, <1>4, <1>5, <1>6 DEF Keys!TargetInv

\* A form that may be submitted has a target that this opening's list has named.
LEMMA KeysSubmitStep ==
    ASSUME Keys!TargetInv, Keys!HandleSubmit
    PROVE  Keys!TargetInv' /\ Keys!TargetStep
<1> DEFINE new == Keys!Call(c4, c5, c6)
<1>1. /\ UNCHANGED <<c2, c3, c11, c14, c16, c19, c20>> /\ c17' = c17 \cup {new}
      /\ c15' = TRUE /\ ~c15 /\ c4 \in {"create", "edit"} /\ Keys!Open /\ c16 = Keys!Nobody
  BY DEF Keys!HandleSubmit, Keys!Button, Keys!groupVars
<1>2. Keys!IsCall(new) /\ new.op = c4
  BY CallIsCall DEF Keys!TargetInv, Keys!TargetTypes
<1> HIDE DEF new
<1>3. c4 = "create" /\ c3 # Keys!NoTarget => c19
  BY DEF Keys!HandleSubmit, Keys!TargetRefused, Keys!LiveTarget, Keys!TargetInv, Keys!TargetIsChecked
<1>4. \A c \in c17 : c.op \notin Keys!Writes
  BY <1>1 DEF Keys!TargetInv, Keys!OneWrite
<1>5. c16.op = "none"
  BY <1>1, NobodyIsCall
<1>6. Keys!TargetTypes'
  BY <1>1, <1>2 DEF Keys!TargetInv, Keys!TargetTypes, Keys!IsCall
<1>7. Keys!OneWrite'
  BY <1>1, <1>4 DEF Keys!OneWrite
<1>8. Keys!TargetIsChecked' /\ Keys!SecretIsThisChannels'
  BY <1>1, <1>5 DEF Keys!TargetInv, Keys!TargetIsChecked, Keys!SecretIsThisChannels, Keys!Open
<1>9. Keys!TargetStep
  BY <1>1, <1>2, <1>3 DEF Keys!TargetStep
<1> QED
  BY <1>6, <1>7, <1>8, <1>9 DEF Keys!TargetInv

\* What is asked about is what may be done now, and nothing else can be done before
\* the answer.
LEMMA KeysAskStep ==
    ASSUME Keys!TargetInv, Keys!MigrateSelectedKey \/ Keys!DeleteKey
    PROVE  Keys!TargetInv' /\ Keys!TargetStep
<1>1. PICK op, i, g : Keys!Ask(op, i, g) /\ op \in {"migrate", "delete"}
  BY DEF Keys!MigrateSelectedKey, Keys!DeleteKey
<1>2. UNCHANGED <<c2, c3, c11, c14, c15, c17, c19, c20>> /\ Keys!Open /\ c16' = Keys!Call(op, i, g)
  BY <1>1 DEF Keys!Ask, Keys!Button, Keys!groupVars
<1>3. Keys!IsCall(c16') /\ c16'.op = op
  BY <1>2, CallIsCall DEF Keys!TargetInv, Keys!TargetTypes
<1>4. c16'.op = "migrate" => ~c15 /\ (c3 # Keys!NoTarget => c19)
  <2>1. CASE Keys!DeleteKey
    <3>1. PICK j : c16' = Keys!Call("delete", j, Nil)
      BY <2>1 DEF Keys!DeleteKey, Keys!Ask
    <3> QED
      BY <3>1 DEF Keys!Call
  <2>2. CASE Keys!MigrateSelectedKey
    BY <2>2 DEF Keys!MigrateSelectedKey, Keys!TargetRefused, Keys!LiveTarget, Keys!TargetInv, Keys!TargetIsChecked
  <2> QED
    BY <2>1, <2>2
<1>5. Keys!TargetTypes'
  BY <1>1, <1>2, <1>3 DEF Keys!TargetInv, Keys!TargetTypes, Keys!IsCall
<1>6. Keys!OneWrite'
  BY <1>2 DEF Keys!TargetInv, Keys!OneWrite
<1>7. Keys!TargetIsChecked' /\ Keys!SecretIsThisChannels'
  BY <1>2, <1>4 DEF Keys!TargetInv, Keys!TargetIsChecked, Keys!SecretIsThisChannels, Keys!Open
<1>8. Keys!TargetStep
  BY <1>2 DEF Keys!TargetStep
<1> QED
  BY <1>5, <1>6, <1>7, <1>8 DEF Keys!TargetInv

LEMMA KeysConfirmStep ==
    ASSUME Keys!TargetInv, Keys!Confirm
    PROVE  Keys!TargetInv' /\ Keys!TargetStep
<1>1. UNCHANGED <<c2, c3, c11, c14, c19, c20>> /\ c16' = Keys!Nobody
  BY DEF Keys!Confirm, Keys!groupVars
<1>2. \/ UNCHANGED <<c15, c17>>
      \/ c15' = (c15 \/ c16.op = "migrate") /\ c17' = c17 \cup {c16}
  BY DEF Keys!Confirm
<1>4. Keys!IsCall(c16)' /\ c16'.op = "none"
  BY <1>1, NobodyIsCall DEF Keys!IsCall
<1>5. c15' \in BOOLEAN /\ (c15 => c15') /\ (c17' # c17 /\ c16.op = "migrate" => c15')
  BY <1>2 DEF Keys!TargetInv, Keys!TargetTypes
<1>6. Keys!TargetTypes'
  BY <1>1, <1>2, <1>4, <1>5 DEF Keys!TargetInv, Keys!TargetTypes, Keys!IsCall
<1>7. c16.op \in Keys!Writes => c16.op = "migrate" /\ \A c \in c17 : c.op \notin Keys!Writes
  BY DEF Keys!TargetInv, Keys!TargetTypes, Keys!TargetIsChecked, Keys!OneWrite, Keys!Writes
<1>8. Keys!OneWrite'
  BY <1>2, <1>5, <1>7 DEF Keys!TargetInv, Keys!OneWrite
<1>9. Keys!TargetIsChecked' /\ Keys!SecretIsThisChannels'
  BY <1>1, <1>4 DEF Keys!TargetInv, Keys!TargetIsChecked, Keys!SecretIsThisChannels, Keys!Open
<1>10. Keys!TargetStep
  BY <1>2 DEF Keys!TargetStep, Keys!TargetInv, Keys!TargetTypes, Keys!TargetIsChecked
<1> QED
  BY <1>6, <1>8, <1>9, <1>10 DEF Keys!TargetInv

LEMMA KeysHandledStep ==
    ASSUME Keys!TargetInv, Keys!HandledStep
    PROVE  Keys!TargetInv' /\ Keys!TargetStep
<1>1. UNCHANGED <<c2, c3, c11, c14, c15, c16, c19, c20>>
  BY DEF Keys!HandledStep, Keys!groupVars
<1>2. PICK c, d :
         /\ c \in c17 /\ c17' = (c17 \ {c}) \cup {d}
         /\ d = [c EXCEPT !.state = "failed"] \/ \E i \in KeyIds : d = [c EXCEPT !.state = "done", !.id = i]
  BY DEF Keys!HandledStep, Keys!Handled
<1>3. c \in [op : {c.op}, ch : Channels \cup {Nil}, id : {c.id}, group : {c.group}, row : {c.row}, state : {c.state}]
  BY <1>2 DEF Keys!TargetInv, Keys!TargetTypes, Keys!IsCall
<1>4. \/ d \in [op : {c.op}, ch : Channels \cup {Nil}, id : {c.id}, group : {c.group}, row : {c.row}, state : {"failed"}]
      \/ \E i \in KeyIds :
            d \in [op : {c.op}, ch : Channels \cup {Nil}, id : {i}, group : {c.group}, row : {c.row}, state : {"done"}]
  BY <1>2, <1>3
<1>5. Keys!IsCall(d) /\ d.op = c.op /\ d.state # "sent"
  BY <1>4 DEF Keys!IsCall
<1>6. Keys!TargetTypes'
  BY <1>1, <1>2, <1>5 DEF Keys!TargetInv, Keys!TargetTypes, Keys!IsCall
<1>7. Keys!OneWrite'
  BY <1>1, <1>2, <1>5 DEF Keys!TargetInv, Keys!OneWrite
<1>8. Keys!TargetIsChecked' /\ Keys!SecretIsThisChannels'
  BY <1>1 DEF Keys!TargetInv, Keys!TargetIsChecked, Keys!SecretIsThisChannels, Keys!Open
<1>9. Keys!TargetStep
  BY <1>2, <1>5 DEF Keys!TargetStep
<1> QED
  BY <1>6, <1>7, <1>8, <1>9 DEF Keys!TargetInv

\* A secret that arrives is shown for its number, and if the dialog shows another
\* channel by then, it is late.
LEMMA KeysSecretStep ==
    ASSUME Keys!TargetInv, NEW c \in c17, c14' = [c14 EXCEPT ![c.id] = c.ch], c20' = (c20 \/ c.ch # c2),
           c2' = c2
    PROVE  /\ c14' \in [KeyIds -> Channels \cup {Nil}] /\ c20' \in BOOLEAN
           /\ Keys!SecretIsThisChannels'
<1>1. c.ch \in Channels \cup {Nil} /\ c14 \in [KeyIds -> Channels \cup {Nil}]
  BY DEF Keys!TargetInv, Keys!TargetTypes, Keys!IsCall
<1>2. c20' \in BOOLEAN /\ (~c20' => ~c20 /\ c.ch = c2)
  BY DEF Keys!TargetInv, Keys!TargetTypes
<1> QED
  BY <1>1, <1>2 DEF Keys!TargetInv, Keys!SecretIsThisChannels, Keys!Open

LEMMA KeysRevealStep ==
    ASSUME Keys!TargetInv, Keys!RevealAnswered
    PROVE  Keys!TargetInv' /\ Keys!TargetStep
<1>1. PICK c \in c17 : c17' = c17 \ {c} /\ c14' = [c14 EXCEPT ![c.id] = c.ch] /\ c20' = (c20 \/ c.ch # c2)
  BY DEF Keys!RevealAnswered
<1>2. UNCHANGED <<c2, c3, c11, c15, c16, c19>>
  BY DEF Keys!RevealAnswered, Keys!groupVars
<1>3. c14' \in [KeyIds -> Channels \cup {Nil}] /\ c20' \in BOOLEAN /\ Keys!SecretIsThisChannels'
  BY <1>1, <1>2, KeysSecretStep
<1>4. Keys!TargetTypes'
  BY <1>1, <1>2, <1>3 DEF Keys!TargetInv, Keys!TargetTypes, Keys!IsCall
<1>5. Keys!OneWrite' /\ Keys!TargetIsChecked'
  BY <1>1, <1>2 DEF Keys!TargetInv, Keys!OneWrite, Keys!TargetIsChecked, Keys!Open
<1>6. Keys!TargetStep
  BY <1>1 DEF Keys!TargetStep
<1> QED
  BY <1>3, <1>4, <1>5, <1>6 DEF Keys!TargetInv

LEMMA KeysSaveStep ==
    ASSUME Keys!TargetInv, Keys!SaveAnswered
    PROVE  Keys!TargetInv' /\ Keys!TargetStep
<1>1. PICK c \in c17 :
         /\ c.op \in {"create", "edit"}
         /\ IF c.op = "create"
            THEN c14' = [c14 EXCEPT ![c.id] = c.ch] /\ c20' = (c20 \/ c.ch # c2)
            ELSE UNCHANGED <<c14, c20>>
         /\ IF Keys!Open THEN Keys!LoadKeys(Keys!Cancel("list") \ {c}, c2, "list")
            ELSE c17' = c17 \ {c} /\ UNCHANGED Keys!tableVars
  BY DEF Keys!SaveAnswered
<1>2. UNCHANGED <<c2, c3, c11, c16, c19>> /\ c15' = FALSE
  BY DEF Keys!SaveAnswered, Keys!groupVars
<1>3. c2 \in Channels \cup {Nil} /\ c14 \in [KeyIds -> Channels \cup {Nil}] /\ c20 \in BOOLEAN
  BY DEF Keys!TargetInv, Keys!TargetTypes
<1>4. c14' \in [KeyIds -> Channels \cup {Nil}] /\ c20' \in BOOLEAN /\ Keys!SecretIsThisChannels'
  <2>1. CASE c.op = "create"
    BY <1>1, <1>2, <2>1, KeysSecretStep
  <2>2. CASE c.op # "create"
    BY <1>1, <1>2, <1>3, <2>2 DEF Keys!TargetInv, Keys!SecretIsThisChannels, Keys!Open
  <2> QED
    BY <2>1, <2>2
<1>5. QuietCalls
  <2>1. CASE Keys!Open
    BY <1>1, <1>3, <2>1, LoadIsQuiet DEF Keys!Cancel
  <2>2. CASE ~Keys!Open
    BY <1>1, <2>2 DEF QuietCalls
  <2> QED
    BY <2>1, <2>2
<1>6. c \notin c17'
  BY <1>1 DEF Keys!LoadKeys, Keys!Cancel
<1>7. \A d \in c17' : d.op \notin Keys!Writes
  BY <1>1, <1>5, <1>6 DEF QuietCalls, Keys!TargetInv, Keys!OneWrite, Keys!Writes
<1>8. Keys!TargetTypes'
  BY <1>2, <1>4, <1>5 DEF QuietCalls, Keys!TargetInv, Keys!TargetTypes, Keys!IsCall
<1>9. Keys!OneWrite' /\ Keys!TargetIsChecked'
  BY <1>2, <1>7 DEF Keys!TargetInv, Keys!OneWrite, Keys!TargetIsChecked, Keys!Open
<1>10. Keys!TargetStep
  BY <1>5 DEF QuietCalls, Keys!TargetStep, Keys!Writes
<1> QED
  BY <1>4, <1>8, <1>9, <1>10 DEF Keys!TargetInv

LEMMA KeysFailedStep ==
    ASSUME Keys!TargetInv, Keys!Failed
    PROVE  Keys!TargetInv' /\ Keys!TargetStep
<1>1. PICK c \in c17 : c17' = c17 \ {c} /\ c15' = (c15 /\ c.op \notin Keys!Writes)
  BY DEF Keys!Failed
<1>2. UNCHANGED <<c2, c3, c11, c14, c16, c19, c20>>
  BY DEF Keys!Failed, Keys!groupVars
<1>3. c15' \in BOOLEAN /\ (c15' => c15) /\ (~c15' => ~c15 \/ c.op \in Keys!Writes)
  BY <1>1
<1>4. Keys!TargetTypes'
  BY <1>1, <1>2, <1>3 DEF Keys!TargetInv, Keys!TargetTypes, Keys!IsCall
<1>5. Keys!OneWrite'
  BY <1>1, <1>3 DEF Keys!TargetInv, Keys!OneWrite
<1>6. Keys!TargetIsChecked' /\ Keys!SecretIsThisChannels'
  BY <1>2, <1>3 DEF Keys!TargetInv, Keys!TargetIsChecked, Keys!SecretIsThisChannels, Keys!Open
<1>7. Keys!TargetStep
  BY <1>1 DEF Keys!TargetStep
<1> QED
  BY <1>4, <1>5, <1>6, <1>7 DEF Keys!TargetInv

LEMMA KeysStep ==
    ASSUME Keys!TargetInv, Keys!Next PROVE Keys!TargetInv' /\ Keys!TargetStep
BY KeysQuietStep, KeysOpenStep, KeysCloseStep, KeysGroupsStep, KeysSubmitStep, KeysAskStep, KeysConfirmStep,
   KeysHandledStep, KeysRevealStep, KeysSaveStep, KeysFailedStep DEF Keys!Next

-----------------------------------------------------------------------------
(* The dialog that recharges a channel (Recharge) *)

LEMMA PayStarts == Pay!Init => Pay!OrderInv
BY DEF Pay!Init, Pay!OrderInv, Pay!LaunchPaysThisChannel

LEMMA OneOrder == Pay!OrderInv => Pay!OneOrderAtATime
BY DEF Pay!OrderInv, Pay!OneOrderAtATime

\* Forms, tabs and loads: no order is made or answered.
LEMMA PayQuietStep ==
    ASSUME Pay!OrderInv,
           \/ Pay!CloseDialog \/ Pay!OpenDialog \/ Pay!RechargeInfoAnswered \/ Pay!ShowTab \/ Pay!RetryPlans
           \/ Pay!SubscriptionInfoAnswered \/ Pay!FillRecharge \/ Pay!PickPlan \/ Pay!Back
    PROVE  Pay!OrderInv' /\ Pay!OfferedStep
<1>1. UNCHANGED <<c12, c13, c17>>
  BY DEF Pay!OpenDialog, Pay!Submitting, Pay!CloseDialog, Pay!RechargeInfoAnswered, Pay!ShowTab, Pay!RetryPlans,
     Pay!SubscriptionInfoAnswered, Pay!FillRecharge, Pay!PickPlan, Pay!Back
<1>2. c14' = Nil \/ c1' = Nil \/ UNCHANGED <<c1, c14>>
  BY DEF Pay!OpenDialog, Pay!NoLaunch, Pay!CloseDialog, Pay!Closed, Pay!RechargeInfoAnswered, Pay!ShowTab,
     Pay!RetryPlans, Pay!SubscriptionInfoAnswered, Pay!FillRecharge, Pay!PickPlan, Pay!Back
<1>3. Pay!LaunchPaysThisChannel'
  BY <1>1, <1>2 DEF Pay!OrderInv, Pay!LaunchPaysThisChannel, Pay!Open
<1> QED
  BY <1>1, <1>3 DEF Pay!OrderInv, Pay!IsOrder, Pay!OfferedStep

\* An order is placed when no other is under way, for what the form offers.
LEMMA PayPlaceStep ==
    ASSUME Pay!OrderInv, Pay!HandleSubmit \/ Pay!HandleSubscriptionSubmit
    PROVE  Pay!OrderInv' /\ Pay!OfferedStep
<1>1. PICK p, m : Pay!Place(p, m) /\ ~c12
                  /\ (p # Nil => p = c9 /\ m = c10 /\ Pay!CanSubmitSubscription)
  BY DEF Pay!HandleSubmit, Pay!HandleSubscriptionSubmit, Pay!Form
<1> DEFINE new == [ch |-> c1, plan |-> p, method |-> m, state |-> "sent"]
<1>2. c13 = {} /\ c13' = {new} /\ c12' = TRUE /\ UNCHANGED <<c1, c14, c17>>
  BY <1>1 DEF Pay!Place, Pay!OrderInv
<1>3. Pay!IsOrder(new) /\ new.plan = p /\ new.method = m
  BY DEF Pay!IsOrder
<1>4. Pay!LaunchPaysThisChannel'
  BY <1>2 DEF Pay!OrderInv, Pay!LaunchPaysThisChannel, Pay!Open
<1> HIDE DEF new
<1>5. Pay!OrderInv'
  BY <1>2, <1>3, <1>4 DEF Pay!OrderInv, Pay!IsOrder
<1>6. p # Nil => /\ p \in c8.plans /\ m \in c8.methods
                 /\ AllowedBy[p] # {} => m \in AllowedBy[p]
  BY <1>1 DEF Pay!CanSubmitSubscription, Pay!Available
<1> QED
  BY <1>2, <1>3, <1>5, <1>6 DEF Pay!OfferedStep

LEMMA PayHandledStep ==
    ASSUME Pay!OrderInv, Pay!OrderHandled
    PROVE  Pay!OrderInv' /\ Pay!OfferedStep
<1>1. PICK o \in c13, s \in {"redirect", "code", "failed"} : c13' = (c13 \ {o}) \cup {[o EXCEPT !.state = s]}
  BY DEF Pay!OrderHandled
<1> DEFINE d == [o EXCEPT !.state = s]
<1>2. o \in [ch : {o.ch}, plan : {o.plan}, method : {o.method}, state : {o.state}]
  BY DEF Pay!OrderInv, Pay!IsOrder
<1>3. d \in [ch : {o.ch}, plan : {o.plan}, method : {o.method}, state : {s}]
  BY <1>2
<1>4. Pay!IsOrder(d) /\ d.state # "sent"
  BY <1>3 DEF Pay!IsOrder
<1> HIDE DEF d
<1>5. c13' = {d} /\ UNCHANGED <<c1, c12, c14, c17>> /\ c12
  BY <1>1 DEF Pay!OrderHandled, Pay!OrderInv, d
<1>6. Pay!LaunchPaysThisChannel'
  BY <1>5 DEF Pay!OrderInv, Pay!LaunchPaysThisChannel, Pay!Open
<1> QED
  BY <1>4, <1>5, <1>6 DEF Pay!OrderInv, Pay!IsOrder, Pay!OfferedStep

LEMMA PayAnsweredStep ==
    ASSUME Pay!OrderInv, Pay!OrderAnswered
    PROVE  Pay!OrderInv' /\ Pay!OfferedStep
<1>1. PICK o \in c13 :
         /\ c13' = c13 \ {o}
         /\ IF o.state = "redirect" THEN Pay!Closed ELSE UNCHANGED <<c1, c11>>
         /\ c14' = IF o.state = "code" THEN o.ch ELSE c14
         /\ c17' = (c17 \/ o.ch # c1)
  BY DEF Pay!OrderAnswered
<1>2. c17' \in BOOLEAN /\ (~c17' => ~c17 /\ o.ch = c1)
  BY <1>1 DEF Pay!OrderInv
<1>3. c13' = {}
  BY <1>1 DEF Pay!OrderInv
<1>4. Pay!LaunchPaysThisChannel'
  BY <1>1, <1>2 DEF Pay!OrderInv, Pay!LaunchPaysThisChannel, Pay!Open, Pay!Closed
<1> QED
  BY <1>2, <1>3, <1>4 DEF Pay!OrderInv, Pay!OfferedStep

LEMMA PayStep ==
    ASSUME Pay!OrderInv, Pay!Next PROVE Pay!OrderInv' /\ Pay!OfferedStep
BY PayQuietStep, PayPlaceStep, PayHandledStep, PayAnsweredStep DEF Pay!Next

-----------------------------------------------------------------------------
(* The settings page and the application of the file (Settings) *)

LEMMA SettingsStart == Config!Init => Config!ApplyInv
<1> SUFFICES ASSUME Config!Init PROVE Config!ApplyInv
  OBVIOUS
<1>1. c1 \in Config!Config
  BY DEF Config!Init, Config!Default, Config!Config, Config!Auth, Config!Cron, Config!Number
<1>2. DOMAIN c5 = {1} /\ c4.scheduler = 1
  BY DEF Config!Init
<1> QED
  BY <1>1, <1>2 DEF Config!Init, Config!ApplyInv, Config!ApplyTypes, Config!OneApplication, Config!Applies, Config!Alone

LEMMA DefaultsKeepRest ==
    ASSUME NEW c \in Config!Config
    PROVE  Config!WithDefaults(c) \in Config!Config /\ Config!WithDefaults(c).rest = c.rest
BY DEF Config!WithDefaults, Config!Config, Config!Number

\* What is loaded is a configuration, and lacks the rest only if the file does or
\* cannot be seen.
LEMMA Loaded ==
    ASSUME Config!ApplyTypes
    PROVE  Config!LoadFile \in Config!Config /\ (Config!LoadFile.rest = "d" => c2 \/ c1.rest = "d")
<1>1. Config!Default \in Config!Config
  BY DEF Config!Default, Config!Config, Config!Auth, Config!Cron, Config!Number
<1> QED
  BY <1>1, DefaultsKeepRest DEF Config!LoadFile, Config!ApplyTypes

LEMMA NewCall ==
    ASSUME NEW op, NEW mine, NEW cfg \in Config!Config
    PROVE  Config!IsCall(Config!Call(op, mine, cfg)) /\ Config!Call(op, mine, cfg).op = op
           /\ Config!Call(op, mine, cfg).state = "sent"
BY DEF Config!Call, Config!IsCall

\* Steps that begin no application, and end only one that has stopped its scheduler or
\* has not started one.
LEMMA NoApplication ==
    ASSUME ~c12 => Config!OneApplication, UNCHANGED <<c4, c5, c12>>,
           \A c \in c10' \ c10 : c.op # "apply",
           \A c \in c10 \ c10' : c.op = "apply" => c.state \notin {"started", "stopping"}
    PROVE  ~c12' => Config!OneApplication'
<1> SUFFICES ASSUME ~c12 PROVE Config!OneApplication'
  OBVIOUS
<1>1. Config!OneApplication
  OBVIOUS
<1>2. \A c \in Config!Applies' : c \in Config!Applies /\ Config!Stage(c)'
  BY <1>1 DEF Config!OneApplication, Config!Applies, Config!Stage, Config!Alone
<1>3. Config!Applies' = {} => Config!Alone'
  <2>1. CASE Config!Applies = {}
    BY <1>1, <2>1 DEF Config!OneApplication, Config!Alone
  <2>2. ASSUME NEW c \in Config!Applies, Config!Applies' = {}
        PROVE  Config!Alone'
    <3>1. c.state \notin {"started", "stopping"} /\ Config!Stage(c)
      BY <1>1, <2>2 DEF Config!OneApplication, Config!Applies
    <3> QED
      BY <3>1 DEF Config!Stage, Config!Alone
  <2> QED
    BY <2>1, <2>2
<1> QED
  BY <1>1, <1>2, <1>3 DEF Config!OneApplication

\* A step of the only application.
LEMMA ApplicationMoves ==
    ASSUME ~c12 => Config!OneApplication, c12' = c12,
           NEW c \in c10, NEW d, d.op = c.op, c10' = (c10 \ {c}) \cup {d},
           c.op # "apply" => UNCHANGED <<c4, c5>>,
           c.op = "apply" /\ Config!Stage(c) => Config!Stage(d)'
    PROVE  ~c12' => Config!OneApplication'
<1> SUFFICES ASSUME ~c12 PROVE Config!OneApplication'
  OBVIOUS
<1>1. Config!OneApplication
  OBVIOUS
<1>2. CASE c.op # "apply"
  BY <1>2, NoApplication
<1>3. CASE c.op = "apply"
  <2>1. Config!Applies' = {d}
    BY <1>1, <1>3 DEF Config!OneApplication, Config!Applies
  <2>2. Config!Stage(d)'
    BY <1>1, <1>3 DEF Config!OneApplication, Config!Applies
  <2> QED
    BY <2>1, <2>2 DEF Config!OneApplication
<1> QED
  BY <1>2, <1>3

LEMMA CallMoves ==
    ASSUME Config!ApplyInv, c12' = c12, c1' \in Config!Config, c6' \in Config!Config,
           NEW c \in c10, NEW d, d.op = c.op, c10' = (c10 \ {c}) \cup {d},
           Config!IsCall(d), Config!KnowsItsLoss(d),
           c.op # "apply" => UNCHANGED <<c4, c5>>,
           c.op = "apply" /\ Config!Stage(c) => Config!Stage(d)'
    PROVE  Config!ApplyInv'
<1>1. ~c12' => Config!OneApplication'
  BY ApplicationMoves DEF Config!ApplyInv
<1>2. Config!ApplyTypes' /\ \A e \in c10' : Config!KnowsItsLoss(e)
  BY DEF Config!ApplyInv, Config!ApplyTypes, Config!IsCall
<1> QED
  BY <1>1, <1>2 DEF Config!ApplyInv, Config!KnowsItsLoss

\* The requests of the page that begin no application, and answers.
LEMMA PageMoves ==
    ASSUME Config!ApplyInv, UNCHANGED <<c1, c4, c5, c12>>, c6' \in Config!Config,
           \A c \in c10' \ c10 : c.op # "apply" /\ Config!IsCall(c) /\ Config!KnowsItsLoss(c),
           \A c \in c10 \ c10' : c.op = "apply" => c.state \notin {"started", "stopping"}
    PROVE  Config!ApplyInv'
<1>1. ~c12' => Config!OneApplication'
  BY NoApplication DEF Config!ApplyInv
<1>2. Config!ApplyTypes' /\ \A c \in c10' : Config!KnowsItsLoss(c)
  BY DEF Config!ApplyInv, Config!ApplyTypes, Config!IsCall
<1> QED
  BY <1>1, <1>2 DEF Config!ApplyInv, Config!KnowsItsLoss

LEMMA SettingsEdits ==
    ASSUME Config!ApplyInv,
           \/ \E v \in Config!Auth : Config!EditAuth(v)
           \/ \E v \in Config!Cron : Config!EditScheduler(v)
           \/ \E v \in {"d", "n"} : Config!EditApp(v) \/ Config!EditNotifications(v) \/ Config!EditProxy(v)
           \/ \E v \in Config!Number : Config!EditUpstream(v) \/ Config!EditGateway(v)
    PROVE  Config!ApplyInv'
<1>1. c6 \in Config!Config
  BY DEF Config!ApplyInv, Config!ApplyTypes
<1>2. PICK new \in Config!Config : Config!Edit(new)
  BY <1>1 DEF Config!EditAuth, Config!EditScheduler, Config!EditApp, Config!EditNotifications, Config!EditProxy,
     Config!EditUpstream, Config!EditGateway, Config!Config, Config!Number
<1>3. UNCHANGED <<c1, c4, c5, c10, c12>> /\ c6' = new
  BY <1>2 DEF Config!Edit, Config!Click
<1> QED
  BY <1>2, <1>3, PageMoves

LEMMA SettingsRequests ==
    ASSUME Config!ApplyInv,
           \/ Config!Poll \/ Config!HandleSave \/ Config!HandleApply
           \/ \E op \in {"save", "apply"} : Config!Other(op)
    PROVE  Config!ApplyInv'
<1>1. UNCHANGED <<c1, c4, c5, c6>> /\ c6 \in Config!Config
  BY DEF Config!Poll, Config!HandleSave, Config!HandleApply, Config!Other, Config!Click,
     Config!ApplyInv, Config!ApplyTypes
<1>2. Config!Default \in Config!Config
  BY DEF Config!Default, Config!Config, Config!Auth, Config!Cron, Config!Number
<1>3. PICK op \in {"get", "save", "apply"}, mine \in BOOLEAN, cfg \in Config!Config :
         /\ c10' \subseteq c10 \cup {Config!Call(op, mine, cfg)}
         /\ \A c \in c10 \ c10' : c.op = "get"
         /\ op # "apply" => c12' = c12
         /\ op = "apply" => c12' = (c12 \/ Config!Applies # {}) /\ Config!Call(op, mine, cfg) \in c10'
  <2>1. CASE Config!Poll
    BY <1>2, <2>1 DEF Config!Poll, Config!Superseded
  <2>2. CASE Config!HandleSave
    BY <1>1, <2>2 DEF Config!HandleSave
  <2>3. CASE Config!HandleApply
    BY <1>2, <2>3 DEF Config!HandleApply
  <2>4. ASSUME NEW op \in {"save", "apply"}, Config!Other(op)
        PROVE  \E cfg \in Config!Config :
                  /\ c10' = c10 \cup {Config!Call(op, FALSE, cfg)}
                  /\ op # "apply" => c12' = c12
                  /\ op = "apply" => c12' = (c12 \/ Config!Applies # {})
    <3>1. PICK n \in {"d", "n"} :
             c10' = c10 \cup {Config!Call(op, FALSE, [Config!Default EXCEPT !.net = n, !.auth = "n"])}
      BY <2>4 DEF Config!Other
    <3>2. [Config!Default EXCEPT !.net = n, !.auth = "n"] \in Config!Config
      BY <1>2 DEF Config!Config, Config!Auth, Config!Number
    <3>3. c12 \in BOOLEAN /\ c12' = (c12 \/ (op = "apply" /\ Config!Applies # {}))
      BY <2>4 DEF Config!Other, Config!ApplyInv, Config!ApplyTypes
    <3> QED
      BY <3>1, <3>2, <3>3
  <2> QED
    BY <2>1, <2>2, <2>3, <2>4
<1> DEFINE new == Config!Call(op, mine, cfg)
<1>4. Config!IsCall(new) /\ new.op = op /\ new.state = "sent" /\ Config!KnowsItsLoss(new)
  BY NewCall DEF Config!KnowsItsLoss
<1> HIDE DEF new
<1>5. c10' \subseteq c10 \cup {new} /\ (op = "apply" => new \in c10')
  BY <1>3 DEF new
<1>6. CASE op # "apply"
  BY <1>1, <1>3, <1>4, <1>5, <1>6, PageMoves
<1>7. CASE op = "apply"
  <2>1. c12' \in BOOLEAN /\ (~c12' => ~c12 /\ Config!Applies = {})
    BY <1>3, <1>7 DEF Config!ApplyInv, Config!ApplyTypes
  <2>2. ~c12' => Config!OneApplication'
    <3> SUFFICES ASSUME ~c12' PROVE Config!OneApplication'
      OBVIOUS
    <3>1. Config!Applies' = {new}
      BY <1>4, <1>5, <1>7, <2>1 DEF Config!Applies
    <3>2. Config!Alone'
      BY <1>1, <2>1 DEF Config!ApplyInv, Config!OneApplication, Config!Alone
    <3>3. Config!Stage(new)'
      BY <1>4, <3>2 DEF Config!Stage
    <3> QED
      BY <3>1, <3>3 DEF Config!OneApplication
  <2>3. Config!ApplyTypes' /\ \A c \in c10' : Config!KnowsItsLoss(c)
    BY <1>1, <1>4, <1>5, <2>1 DEF Config!ApplyInv, Config!ApplyTypes, Config!IsCall
  <2> QED
    BY <2>2, <2>3 DEF Config!ApplyInv, Config!KnowsItsLoss
<1> QED
  BY <1>6, <1>7

\* The page loses its requests to the server, which goes on with them.
LEMMA SettingsReopen ==
    ASSUME Config!ApplyInv, Config!Reopen
    PROVE  Config!ApplyInv'
<1> DEFINE Left(c) == [c EXCEPT !.mine = FALSE]
<1>1. ASSUME NEW c \in c10
      PROVE  /\ Config!IsCall(Left(c)) /\ Left(c).op = c.op
             /\ Config!KnowsItsLoss(Left(c))
             /\ Config!Stage(c) => Config!Stage(Left(c))
  <2>1. c \in [op : {c.op}, mine : {c.mine}, cfg : Config!Config, blind : {c.blind}, old : {c.old},
               new : {c.new}, state : {c.state}]
    BY DEF Config!ApplyInv, Config!ApplyTypes, Config!IsCall
  <2> DEFINE d == Left(c)
  <2>2. d \in [op : {c.op}, mine : {FALSE}, cfg : {c.cfg}, blind : {c.blind}, old : {c.old},
               new : {c.new}, state : {c.state}] /\ c.cfg \in Config!Config
    BY <2>1
  <2> HIDE DEF d
  <2>3. Config!KnowsItsLoss(c)
    BY DEF Config!ApplyInv
  <2>4. Config!IsCall(d) /\ d.op = c.op
    BY <2>2 DEF Config!IsCall
  <2>5. Config!KnowsItsLoss(d)
    BY <2>2, <2>3 DEF Config!KnowsItsLoss
  <2>6. Config!Stage(c) => Config!Stage(d)
    BY <2>2 DEF Config!Stage
  <2> QED
    BY <2>4, <2>5, <2>6 DEF d
<1> HIDE DEF Left
<1>2. UNCHANGED <<c1, c4, c5, c12>> /\ c10' = {Left(c) : c \in Config!Superseded}
  BY DEF Config!Reopen, Config!Click, Left
<1>3. c6' \in Config!Config
  BY Loaded DEF Config!Reopen, Config!LoadFile, Config!ApplyInv
<1>4. Config!ApplyTypes' /\ \A c \in c10' : Config!KnowsItsLoss(c)
  BY <1>1, <1>2, <1>3 DEF Config!ApplyInv, Config!ApplyTypes, Config!IsCall, Config!Superseded
<1>5. Config!Applies' = {Left(c) : c \in Config!Applies}
  BY <1>1, <1>2 DEF Config!Applies, Config!Superseded
<1>6. \A d : Config!Stage(d)' <=> Config!Stage(d)
  BY <1>2 DEF Config!Stage, Config!Alone
<1>7. ~c12' => Config!OneApplication'
  <2> SUFFICES ASSUME ~c12 PROVE Config!OneApplication'
    BY <1>2
  <2>1. Config!OneApplication
    BY DEF Config!ApplyInv
  <2>2. \A d \in Config!Applies' : Config!Stage(d)'
    BY <1>1, <1>5, <1>6, <2>1 DEF Config!OneApplication, Config!Applies
  <2>3. \A d, e \in Config!Applies' : d = e
    BY <1>5, <2>1 DEF Config!OneApplication
  <2>4. Config!Applies' = {} => Config!Alone'
    BY <1>2, <1>5, <2>1 DEF Config!OneApplication, Config!Alone
  <2> QED
    BY <2>2, <2>3, <2>4 DEF Config!OneApplication
<1> QED
  BY <1>4, <1>7 DEF Config!ApplyInv, Config!KnowsItsLoss

\* A save reads the rest from the file, and if that is gone, it is recorded.
LEMMA SettingsSaves ==
    ASSUME Config!ApplyInv, NEW c \in c10,
           \/ Config!GetConfig(c) \/ Config!LoadForSave(c) \/ Config!Truncate(c) \/ Config!Write(c)
    PROVE  Config!ApplyInv'
<1>1. c \in [op : {c.op}, mine : {c.mine}, cfg : Config!Config, blind : {c.blind}, old : {c.old},
             new : {c.new}, state : {c.state}]
      /\ c6 \in Config!Config /\ c1 \in Config!Config
  BY DEF Config!ApplyInv, Config!ApplyTypes, Config!IsCall
<1>2. Config!KnowsItsLoss(c)
  BY DEF Config!ApplyInv
<1>3. Config!LoadFile \in Config!Config /\ (Config!LoadFile.rest = "d" => c2 \/ c1.rest = "d")
  BY Loaded DEF Config!ApplyInv
<1>4. UNCHANGED <<c4, c5, c6, c12>> /\ c.op # "apply"
  BY DEF Config!GetConfig, Config!LoadForSave, Config!Truncate, Config!Write, Config!ServerOnly, Config!Runs
<1>5. ASSUME NEW d, d.op = c.op, Config!IsCall(d), Config!KnowsItsLoss(d), Config!Moves(c, d), c1' \in Config!Config
      PROVE  Config!ApplyInv'
  BY <1>1, <1>4, <1>5, CallMoves DEF Config!Moves
<1>6. CASE Config!GetConfig(c)
  <2> DEFINE d == [c EXCEPT !.state = "done", !.cfg = Config!LoadFile]
  <2>1. d \in [op : {c.op}, mine : {c.mine}, cfg : Config!Config, blind : {c.blind}, old : {c.old},
               new : {c.new}, state : {"done"}]
    BY <1>1, <1>3
  <2> HIDE DEF d
  <2>2. d.op = c.op /\ Config!IsCall(d) /\ Config!KnowsItsLoss(d)
    BY <2>1 DEF Config!IsCall, Config!KnowsItsLoss
  <2>3. Config!Moves(c, d) /\ c1' = c1
    BY <1>6 DEF Config!GetConfig, d
  <2> QED
    BY <1>1, <1>5, <2>2, <2>3
<1>7. CASE Config!LoadForSave(c)
  <2> DEFINE cfg == Config!WithDefaults([c.cfg EXCEPT !.rest = Config!LoadFile.rest])
             blind == c2 \/ c1.rest = "d"
             d == [c EXCEPT !.state = "merged", !.cfg = cfg, !.blind = blind]
  <2>1. [c.cfg EXCEPT !.rest = Config!LoadFile.rest] \in Config!Config
        /\ [c.cfg EXCEPT !.rest = Config!LoadFile.rest].rest = Config!LoadFile.rest
    BY <1>1, <1>3 DEF Config!Config
  <2>2. cfg \in Config!Config /\ (cfg.rest = "d" => blind)
    BY <1>3, <2>1, DefaultsKeepRest
  <2>3. Config!Moves(c, d) /\ c1' = c1
    BY <1>7 DEF Config!LoadForSave
  <2> HIDE DEF cfg, blind
  <2>4. d \in [op : {c.op}, mine : {c.mine}, cfg : {cfg}, blind : {blind}, old : {c.old},
               new : {c.new}, state : {"merged"}]
    BY <1>1
  <2> HIDE DEF d
  <2>5. d.op = c.op /\ Config!IsCall(d) /\ Config!KnowsItsLoss(d)
    BY <2>2, <2>4 DEF Config!IsCall, Config!KnowsItsLoss
  <2> QED
    BY <1>1, <1>5, <2>3, <2>5
<1>8. ASSUME NEW s \in {"writing", "done"}, c.op = "save", c.state \in {"merged", "writing"},
             Config!Moves(c, [c EXCEPT !.state = s]), c1' \in Config!Config
      PROVE  Config!ApplyInv'
  <2> DEFINE d == [c EXCEPT !.state = s]
  <2>1. d \in [op : {c.op}, mine : {c.mine}, cfg : {c.cfg}, blind : {c.blind}, old : {c.old},
               new : {c.new}, state : {s}]
    BY <1>1
  <2> HIDE DEF d
  <2>2. d.op = c.op /\ Config!IsCall(d) /\ Config!KnowsItsLoss(d)
    BY <1>1, <1>2, <1>8, <2>1 DEF Config!IsCall, Config!KnowsItsLoss
  <2>3. Config!Moves(c, d)
    BY <1>8 DEF d
  <2> QED
    BY <1>5, <1>8, <2>2, <2>3
<1>9. CASE Config!Truncate(c)
  BY <1>1, <1>8, <1>9 DEF Config!Truncate
<1>10. CASE Config!Write(c)
  BY <1>1, <1>8, <1>10 DEF Config!Write
<1> QED
  BY <1>6, <1>7, <1>9, <1>10

\* How far the application is, step by step.
LEMMA SettingsApplies ==
    ASSUME Config!ApplyInv, NEW c \in c10,
           \/ Config!ReadManager(c) \/ Config!LoadToApply(c) \/ Config!UpdateServices(c)
           \/ Config!StartScheduler(c) \/ Config!Publish(c) \/ Config!StopOld(c)
    PROVE  Config!ApplyInv'
<1>1. c \in [op : {c.op}, mine : {c.mine}, cfg : Config!Config, blind : {c.blind}, old : {c.old},
             new : {c.new}, state : {c.state}]
      /\ c6 \in Config!Config /\ c1 \in Config!Config
  BY DEF Config!ApplyInv, Config!ApplyTypes, Config!IsCall
<1>2. UNCHANGED <<c1, c6, c12>> /\ c.op = "apply"
  BY DEF Config!ReadManager, Config!LoadToApply, Config!UpdateServices, Config!StartScheduler, Config!Publish,
     Config!StopOld, Config!ServerOnly, Config!Runs
<1>3. ASSUME NEW old, NEW new, NEW cfg \in Config!Config, NEW s, NEW d, Config!Moves(c, d),
             d \in [op : {c.op}, mine : {c.mine}, cfg : {cfg}, blind : {c.blind}, old : {old}, new : {new}, state : {s}],
             Config!Stage(c) => Config!Stage(d)'
      PROVE  Config!ApplyInv'
  <2>1. d.op = c.op /\ Config!IsCall(d) /\ Config!KnowsItsLoss(d)
    BY <1>2, <1>3 DEF Config!IsCall, Config!KnowsItsLoss
  <2> QED
    BY <1>1, <1>2, <1>3, <2>1, CallMoves DEF Config!Moves
<1>4. CASE Config!ReadManager(c)
  <2>4. PICK old : old = c4.scheduler
    OBVIOUS
  <2> DEFINE d == [c EXCEPT !.state = "begun", !.old = old]
  <2>1. d \in [op : {c.op}, mine : {c.mine}, cfg : {c.cfg}, blind : {c.blind}, old : {old},
               new : {c.new}, state : {"begun"}]
    BY <1>1
  <2> HIDE DEF d
  <2>2. Config!Moves(c, d) /\ UNCHANGED <<c4, c5>> /\ c.state = "sent"
    BY <1>4, <2>4 DEF Config!ReadManager, Config!Runs, d
  <2>3. Config!Stage(c) => Config!Stage(d)'
    BY <2>1, <2>2, <2>4 DEF Config!Stage, Config!Alone
  <2> QED
    BY <1>1, <1>3, <2>1, <2>2, <2>3
<1>5. CASE Config!LoadToApply(c)
  <2>5. Config!LoadFile \in Config!Config
    BY Loaded DEF Config!ApplyInv
  <2>6. PICK cfg \in Config!Config : cfg = Config!LoadFile
    BY <2>5
  <2>1. PICK s \in {"refused", "loaded"} : s = IF Config!LoadFile.auth = "bad" THEN "refused" ELSE "loaded"
    OBVIOUS
  <2> DEFINE d == [c EXCEPT !.state = s, !.cfg = cfg]
  <2>2. Config!Moves(c, d) /\ UNCHANGED <<c4, c5>> /\ c.state = "begun"
    BY <1>5, <2>1, <2>6 DEF Config!LoadToApply, Config!Runs
  <2>3. d \in [op : {c.op}, mine : {c.mine}, cfg : {cfg}, blind : {c.blind}, old : {c.old},
               new : {c.new}, state : {s}]
    BY <1>1
  <2> HIDE DEF d
  <2>4. Config!Stage(c) => Config!Stage(d)'
    BY <2>1, <2>2, <2>3 DEF Config!Stage, Config!Alone
  <2> QED
    BY <1>3, <2>2, <2>3, <2>4
<1>6. CASE Config!UpdateServices(c)
  <2> DEFINE d == [c EXCEPT !.state = "serving"]
  <2>1. d \in [op : {c.op}, mine : {c.mine}, cfg : {c.cfg}, blind : {c.blind}, old : {c.old},
               new : {c.new}, state : {"serving"}]
    BY <1>1
  <2> HIDE DEF d
  <2>2. Config!Moves(c, d) /\ UNCHANGED <<c4, c5>> /\ c.state = "loaded"
    BY <1>6 DEF Config!UpdateServices, d
  <2>3. Config!Stage(c) => Config!Stage(d)'
    BY <2>1, <2>2 DEF Config!Stage, Config!Alone
  <2> QED
    BY <1>1, <1>3, <2>1, <2>2, <2>3
<1>7. CASE Config!StartScheduler(c)
  <2>1. CASE c.cfg.cron = "bad"
    <3> DEFINE d == [c EXCEPT !.state = "refused"]
    <3>1. d \in [op : {c.op}, mine : {c.mine}, cfg : {c.cfg}, blind : {c.blind}, old : {c.old},
                 new : {c.new}, state : {"refused"}]
      BY <1>1
    <3> HIDE DEF d
    <3>2. Config!Moves(c, d) /\ UNCHANGED <<c4, c5>> /\ c.state = "serving"
      BY <1>7, <2>1 DEF Config!StartScheduler, d
    <3>3. Config!Stage(c) => Config!Stage(d)'
      BY <3>1, <3>2 DEF Config!Stage, Config!Alone
    <3> QED
      BY <1>1, <1>3, <3>1, <3>2, <3>3
  <2>2. CASE c.cfg.cron # "bad"
    <3>1. PICK i \in (1..Bound.schedulers) \ DOMAIN c5 :
             /\ c5' = [j \in DOMAIN c5 \cup {i} |->
                          IF j = i THEN [cron |-> c.cfg.cron, net |-> c.cfg.net] ELSE c5[j]]
             /\ Config!Moves(c, [c EXCEPT !.state = "started", !.new = i])
      BY <1>7, <2>2 DEF Config!StartScheduler
    <3> DEFINE d == [c EXCEPT !.state = "started", !.new = i]
    <3>2. d \in [op : {c.op}, mine : {c.mine}, cfg : {c.cfg}, blind : {c.blind}, old : {c.old},
                 new : {i}, state : {"started"}]
      BY <1>1
    <3> HIDE DEF d
    <3>3. Config!Moves(c, d)
      BY <3>1 DEF d
    <3>4. c.state = "serving" /\ c4' = c4 /\ DOMAIN c5' = DOMAIN c5 \cup {i}
      BY <1>7, <3>1 DEF Config!StartScheduler
    <3>5. Config!Stage(c) => Config!Stage(d)'
      BY <3>1, <3>2, <3>4 DEF Config!Stage, Config!Alone
    <3> QED
      BY <1>1, <1>3, <3>2, <3>3, <3>5
  <2> QED
    BY <2>1, <2>2
<1>8. CASE Config!Publish(c)
  <2> DEFINE d == [c EXCEPT !.state = "stopping"]
  <2>1. d \in [op : {c.op}, mine : {c.mine}, cfg : {c.cfg}, blind : {c.blind}, old : {c.old},
               new : {c.new}, state : {"stopping"}]
    BY <1>1
  <2> HIDE DEF d
  <2>2. Config!Moves(c, d) /\ c5' = c5 /\ c.state = "started" /\ c4'.scheduler = c.new
    BY <1>8 DEF Config!Publish, d
  <2>3. Config!Stage(c) => Config!Stage(d)'
    BY <2>1, <2>2 DEF Config!Stage, Config!Alone
  <2> QED
    BY <1>1, <1>3, <2>1, <2>2, <2>3
<1>9. CASE Config!StopOld(c)
  <2> DEFINE d == [c EXCEPT !.state = "done"]
  <2>1. d \in [op : {c.op}, mine : {c.mine}, cfg : {c.cfg}, blind : {c.blind}, old : {c.old},
               new : {c.new}, state : {"done"}]
    BY <1>1
  <2> HIDE DEF d
  <2>2. Config!Moves(c, d) /\ c4' = c4 /\ c.state = "stopping" /\ DOMAIN c5' = DOMAIN c5 \ {c.old}
    BY <1>9 DEF Config!StopOld, d
  <2>3. Config!Stage(c) => Config!Stage(d)'
    BY <2>1, <2>2 DEF Config!Stage, Config!Alone
  <2> QED
    BY <1>1, <1>3, <2>1, <2>2, <2>3
<1> QED
  BY <1>4, <1>5, <1>6, <1>7, <1>8, <1>9

LEMMA SettingsAnswers ==
    ASSUME Config!ApplyInv, NEW c \in c10,
           \/ Config!QueryAnswered(c) \/ Config!SaveAnswered(c) \/ Config!ApplyAnswered(c)
           \/ Config!Refused(c) \/ Config!OthersAnswer(c) \/ Config!Lost(c)
    PROVE  Config!ApplyInv'
<1>1. c \in [op : {c.op}, mine : {c.mine}, cfg : Config!Config, blind : {c.blind}, old : {c.old},
             new : {c.new}, state : {c.state}]
      /\ c6 \in Config!Config
  BY DEF Config!ApplyInv, Config!ApplyTypes, Config!IsCall
<1>2. UNCHANGED <<c1, c4, c5, c12>>
  BY DEF Config!QueryAnswered, Config!SaveAnswered, Config!ApplyAnswered, Config!Refused, Config!OthersAnswer,
     Config!Lost, Config!Quiet, Config!Runs
<1>3. c6' \in Config!Config
  BY <1>1 DEF Config!QueryAnswered, Config!SaveAnswered, Config!ApplyAnswered, Config!Refused, Config!OthersAnswer,
     Config!Lost
<1>4. CASE Config!QueryAnswered(c) \/ Config!Refused(c) \/ Config!OthersAnswer(c)
  <2>1. c10' = c10 \ {c} /\ c.state \in {"done", "refused"}
    BY <1>4 DEF Config!QueryAnswered, Config!Refused, Config!OthersAnswer
  <2> QED
    BY <1>2, <1>3, <2>1, PageMoves
<1>5. CASE Config!SaveAnswered(c) \/ Config!ApplyAnswered(c)
  <2> DEFINE new == Config!Call("get", TRUE, Config!Default)
  <2>1. Config!Default \in Config!Config
    BY DEF Config!Default, Config!Config, Config!Auth, Config!Cron, Config!Number
  <2>2. Config!IsCall(new) /\ new.op = "get"
    BY <2>1, NewCall
  <2>3. c10' = (Config!Superseded \ {c}) \cup {new} /\ c.state = "done"
    BY <1>5 DEF Config!SaveAnswered, Config!ApplyAnswered
  <2> HIDE DEF new
  <2> QED
    BY <1>2, <1>3, <2>2, <2>3, PageMoves DEF Config!Superseded, Config!KnowsItsLoss
<1>6. CASE Config!Lost(c)
  <2>1. CASE c.op = "get" \/ c.state \in {"sent", "refused", "done"}
    <3>1. c10' = c10 \ {c}
      BY <1>6, <2>1 DEF Config!Lost
    <3> QED
      BY <1>2, <1>3, <2>1, <3>1, PageMoves
  <2>2. CASE ~(c.op = "get" \/ c.state \in {"sent", "refused", "done"})
    <3> DEFINE d == [c EXCEPT !.mine = FALSE]
    <3>1. d \in [op : {c.op}, mine : {FALSE}, cfg : {c.cfg}, blind : {c.blind}, old : {c.old},
                 new : {c.new}, state : {c.state}]
      BY <1>1
    <3> HIDE DEF d
    <3>2. c10' = (c10 \ {c}) \cup {d}
      BY <1>6, <2>2 DEF Config!Lost, d
    <3>3. Config!KnowsItsLoss(c)
      BY DEF Config!ApplyInv
    <3>4. d.op = c.op /\ Config!IsCall(d) /\ Config!KnowsItsLoss(d)
      BY <1>1, <3>1, <3>3 DEF Config!IsCall, Config!KnowsItsLoss
    <3>5. Config!Stage(c) => Config!Stage(d)'
      BY <1>2, <3>1 DEF Config!Stage, Config!Alone
    <3>6. c1 \in Config!Config
      BY DEF Config!ApplyInv, Config!ApplyTypes
    <3> QED
      BY <1>2, <1>3, <3>2, <3>4, <3>5, <3>6, CallMoves
  <2> QED
    BY <2>1, <2>2
<1> QED
  BY <1>4, <1>5, <1>6

LEMMA SettingsStep ==
    ASSUME Config!ApplyInv, Config!Next PROVE Config!ApplyInv'
BY SettingsEdits, SettingsRequests, SettingsReopen, SettingsSaves, SettingsApplies, SettingsAnswers DEF Config!Next

LEMMA SettingsKeepRest ==
    ASSUME Config!ApplyInv, Config!Next PROVE Config!RestStep
<1>1. c1' = c1 \/ \E c \in c10 : Config!Write(c)
  BY DEF Config!Next, Config!EditAuth, Config!EditScheduler, Config!EditApp, Config!EditNotifications,
     Config!EditProxy, Config!EditUpstream, Config!EditGateway, Config!Edit, Config!Click, Config!Poll,
     Config!HandleSave, Config!HandleApply, Config!Reopen, Config!Other, Config!GetConfig, Config!LoadForSave,
     Config!Truncate, Config!ReadManager, Config!LoadToApply, Config!UpdateServices, Config!StartScheduler,
     Config!Publish, Config!StopOld, Config!QueryAnswered, Config!SaveAnswered, Config!ApplyAnswered,
     Config!Refused, Config!Lost, Config!OthersAnswer, Config!Quiet
<1>2. CASE c1' = c1
  BY <1>2 DEF Config!RestStep
<1>3. ASSUME NEW c \in c10, Config!Write(c)
      PROVE  Config!RestStep
  BY <1>3 DEF Config!Write, Config!RestStep, Config!ApplyInv, Config!KnowsItsLoss
<1> QED
  BY <1>1, <1>2, <1>3

LEMMA SettingsOneScheduler == Config!ApplyInv => Config!OneScheduler
BY DEF Config!ApplyInv, Config!OneApplication, Config!OneScheduler, Config!Alone

\* Queries come and go, and nothing is saved or applied by them.
LEMMA KnownQueries ==
    ASSUME Config!KnownInv, UNCHANGED <<c1, c2, c3, c4, c5, c9, c12>>, c7 => c7', c8 => c8',
           \A c \in c10' \ c10 : c.op = "get" /\ c.mine /\ c.state # "refused",
           \A c \in c10 \ c10' : c.op = "get"
    PROVE  Config!KnownInv'
<1>1. ~c12' /\ Config!NoZero(c1')
  BY DEF Config!KnownInv
<1>2. /\ \A c \in c10' : c.op \in {"get", "save", "apply"} /\ c.mine /\ Config!OnTheWay(c)'
      /\ \A c \in c10' : (c.op = "save" => c7') /\ (c.op = "apply" => c8')
  BY DEF Config!KnownInv, Config!OnTheWay, Config!Honest
<1>3. \A c, d \in c10' : c.op # "get" /\ d.op # "get" => c = d
  BY DEF Config!KnownInv
<1>4. c2' => \E c \in c10' : c.op = "save" /\ c.state = "writing"
  BY DEF Config!KnownInv
<1>5. c9' \/ Config!Honest' \/ \E c \in c10' : c.op = "save" /\ c.state = "done"
  BY DEF Config!KnownInv, Config!Honest
<1> QED
  BY <1>1, <1>2, <1>3, <1>4, <1>5 DEF Config!KnownInv, Config!NoZero

\* The save or application that is under way is the only one, and moves.
LEMMA KnownMoves ==
    ASSUME Config!KnownInv, UNCHANGED <<c7, c8, c9, c12>>, Config!NoZero(c1'),
           NEW c \in c10, c.op # "get", NEW d, Config!Moves(c, d), d.op = c.op, d.mine = c.mine,
           Config!OnTheWay(d)',
           c2' => d.op = "save" /\ d.state = "writing",
           c9 \/ Config!Honest' \/ (d.op = "save" /\ d.state = "done")
    PROVE  Config!KnownInv'
<1>1. c10' = (c10 \ {c}) \cup {d} /\ \A e \in c10 \ {c} : e.op = "get" /\ e.state # "refused"
  BY DEF Config!Moves, Config!KnownInv, Config!OnTheWay
<1>2. /\ \A e \in c10' : e.op \in {"get", "save", "apply"} /\ e.mine /\ Config!OnTheWay(e)'
      /\ \A e \in c10' : (e.op = "save" => c7') /\ (e.op = "apply" => c8')
  BY <1>1 DEF Config!KnownInv, Config!OnTheWay
<1>3. \A e, f \in c10' : e.op # "get" /\ f.op # "get" => e = f
  BY <1>1
<1>4. c2' => \E e \in c10' : e.op = "save" /\ e.state = "writing"
  BY <1>1
<1>5. c9' \/ Config!Honest' \/ \E e \in c10' : e.op = "save" /\ e.state = "done"
  BY <1>1
<1>6. ~c12' /\ Config!NoZero(c1)'
  BY DEF Config!KnownInv, Config!NoZero
<1> QED
  BY <1>2, <1>3, <1>4, <1>5, <1>6 DEF Config!KnownInv

\* It ends, and nothing but queries is under way.
LEMMA KnownEnds ==
    ASSUME Config!KnownInv, UNCHANGED <<c1, c2, c3, c4, c5, c12>>,
           NEW c \in c10, c.op # "get", c.state # "writing", c \notin c10',
           \A e \in c10' \ c10 : e.op = "get" /\ e.mine /\ e.state # "refused",
           c9' \/ Config!Honest
    PROVE  Config!KnownInv'
<1>1. \A e \in c10' : e.op = "get" /\ e.mine /\ e.state # "refused"
  BY DEF Config!KnownInv, Config!OnTheWay
<1>2. ~c2' /\ ~c12' /\ Config!NoZero(c1)'
  BY DEF Config!KnownInv, Config!NoZero
<1>3. c9' \/ Config!Honest'
  BY DEF Config!Honest
<1>4. \A e \in c10' : Config!OnTheWay(e)'
  BY <1>1 DEF Config!OnTheWay
<1> QED
  BY <1>1, <1>2, <1>3, <1>4 DEF Config!KnownInv

LEMMA OwnCall ==
    ASSUME NEW op, NEW cfg, NEW q, q = Config!Call(op, TRUE, cfg)
    PROVE  q.op = op /\ q.mine /\ q.state = "sent"
BY DEF Config!Call

LEMMA KnownPage ==
    ASSUME Config!KnownInv, ~c11',
           \/ \E v \in Config!Auth : Config!EditAuth(v)
           \/ \E v \in Config!Cron : Config!EditScheduler(v)
           \/ \E v \in {"d", "n"} : Config!EditApp(v) \/ Config!EditNotifications(v) \/ Config!EditProxy(v)
           \/ \E v \in Config!Number : Config!EditUpstream(v) \/ Config!EditGateway(v)
           \/ Config!Poll \/ Config!HandleSave \/ Config!HandleApply \/ Config!Reopen
           \/ \E op \in {"save", "apply"} : Config!Other(op)
    PROVE  Config!KnownInv'
<1>1. ASSUME NEW new, Config!Edit(new)
      PROVE  Config!KnownInv'
  <2>1. UNCHANGED <<c1, c2, c3, c4, c5, c7, c8, c9, c10, c12>>
    BY <1>1 DEF Config!Edit, Config!Click
  <2> QED
    BY <2>1, KnownQueries
<1>2. CASE Config!Poll
  <2>1. PICK q : q = Config!Call("get", TRUE, Config!Default)
    OBVIOUS
  <2>2. q.op = "get" /\ q.mine /\ q.state # "refused"
    BY <2>1, OwnCall
  <2>3. UNCHANGED <<c1, c2, c3, c4, c5, c7, c8, c9, c12>> /\ c10' = Config!Superseded \cup {q}
    BY <1>2, <2>1 DEF Config!Poll, Config!Click
  <2> QED
    BY <2>2, <2>3, KnownQueries DEF Config!Superseded
<1>3. CASE Config!HandleSave \/ Config!HandleApply
  <2>1. PICK op \in {"save", "apply"} : \E q :
           /\ q.op = op /\ q.mine /\ q.state = "sent" /\ c10' = c10 \cup {q}
           /\ op = "save" => c7' /\ c12' = c12
           /\ op = "apply" => c8' /\ c12' = (c12 \/ Config!Applies # {})
    <3>1. ASSUME Config!HandleSave
          PROVE  \E q : q.op = "save" /\ q.mine /\ q.state = "sent" /\ c10' = c10 \cup {q}
      <4>1. PICK q : q = Config!Call("save", TRUE, c6)
        OBVIOUS
      <4>2. c10' = c10 \cup {q}
        BY <3>1, <4>1 DEF Config!HandleSave
      <4> QED
        BY <4>1, <4>2, OwnCall
    <3>2. ASSUME Config!HandleApply
          PROVE  \E q : q.op = "apply" /\ q.mine /\ q.state = "sent" /\ c10' = c10 \cup {q}
      <4>1. PICK q : q = Config!Call("apply", TRUE, Config!Default)
        OBVIOUS
      <4>2. c10' = c10 \cup {q}
        BY <3>2, <4>1 DEF Config!HandleApply
      <4> QED
        BY <4>1, <4>2, OwnCall
    <3>3. CASE Config!HandleSave
      BY <3>1, <3>3 DEF Config!HandleSave
    <3>4. CASE Config!HandleApply
      BY <3>2, <3>4 DEF Config!HandleApply
    <3> QED
      BY <1>3, <3>3, <3>4
  <2>9. PICK q :
           /\ q.op = op /\ q.mine /\ q.state = "sent" /\ c10' = c10 \cup {q}
           /\ op = "save" => c7' /\ c12' = c12
           /\ op = "apply" => c8' /\ c12' = (c12 \/ Config!Applies # {})
    BY <2>1
  <2>2. UNCHANGED <<c1, c2, c3, c4, c5, c9>> /\ ~c7 /\ ~c8
    BY <1>3 DEF Config!HandleSave, Config!HandleApply, Config!Click
  <2>3. \A c \in c10 : c.op = "get" /\ c.mine
    BY <2>2 DEF Config!KnownInv
  <2>4. Config!Applies = {}
    BY <2>3 DEF Config!Applies
  <2>5. ~c12' /\ ~c2' /\ Config!NoZero(c1)'
    <3>1. ~c12 /\ Config!NoZero(c1) /\ ~c2
      BY <2>3 DEF Config!KnownInv
    <3>2. ~c12'
      BY <2>4, <2>9, <3>1
    <3> QED
      BY <2>2, <3>1, <3>2 DEF Config!NoZero
  <2>6. c9' \/ Config!Honest'
    BY <2>2, <2>3 DEF Config!KnownInv, Config!Honest
  <2>7. \A c \in c10' : c.op \in {"get", "save", "apply"} /\ c.mine /\ Config!OnTheWay(c)'
    BY <2>3, <2>9 DEF Config!OnTheWay, Config!KnownInv
  <2>8. \A c \in c10' : (c.op = "save" => c7') /\ (c.op = "apply" => c8')
    BY <2>3, <2>9
  <2>10. \A c, d \in c10' : c.op # "get" /\ d.op # "get" => c = d
    BY <2>3, <2>9
  <2> QED
    BY <2>5, <2>6, <2>7, <2>8, <2>10 DEF Config!KnownInv
<1>4. ~Config!Reopen /\ \A op \in {"save", "apply"} : ~Config!Other(op)
  BY DEF Config!Reopen, Config!Other
<1> QED
  BY <1>1, <1>2, <1>3, <1>4 DEF Config!EditAuth, Config!EditScheduler, Config!EditApp, Config!EditNotifications,
     Config!EditProxy, Config!EditUpstream, Config!EditGateway

LEMMA DefaultsHaveNoZero ==
    ASSUME NEW c \in Config!Config
    PROVE  Config!NoZero(Config!WithDefaults(c)) /\ (Config!NoZero(c) => Config!WithDefaults(c) = c)
BY DEF Config!WithDefaults, Config!Config, Config!Number, Config!NoZero

\* A save leaves the file as WithDefaults does.
LEMMA KnownSaves ==
    ASSUME Config!ApplyInv, Config!KnownInv, NEW c \in c10,
           \/ Config!GetConfig(c) \/ Config!LoadForSave(c) \/ Config!Truncate(c) \/ Config!Write(c)
    PROVE  Config!KnownInv'
<1>1. c \in [op : {c.op}, mine : {c.mine}, cfg : Config!Config, blind : {c.blind}, old : {c.old},
             new : {c.new}, state : {c.state}] /\ c1 \in Config!Config
  BY DEF Config!ApplyInv, Config!ApplyTypes, Config!IsCall
<1>2. UNCHANGED <<c3, c4, c5, c7, c8, c9, c12>>
  BY DEF Config!GetConfig, Config!LoadForSave, Config!Truncate, Config!Write, Config!ServerOnly, Config!Runs
<1>3. c.mine /\ Config!OnTheWay(c) /\ Config!NoZero(c1)
  BY DEF Config!KnownInv
<1>4. CASE Config!GetConfig(c)
  <2>1. PICK cfg : cfg = Config!LoadFile
    OBVIOUS
  <2> DEFINE d == [c EXCEPT !.state = "done", !.cfg = cfg]
  <2>2. d \in [op : {c.op}, mine : {c.mine}, cfg : {cfg}, blind : {c.blind}, old : {c.old},
               new : {c.new}, state : {"done"}]
    BY <1>1
  <2>3. c10' = (c10 \ {c}) \cup {d} /\ c.op = "get" /\ UNCHANGED <<c1, c2>>
    BY <1>4, <2>1 DEF Config!GetConfig, Config!Moves
  <2> HIDE DEF d
  <2>4. d.op = "get" /\ d.mine /\ d.state = "done"
    BY <1>3, <2>2, <2>3
  <2> QED
    BY <1>2, <2>3, <2>4, KnownQueries
<1>5. ASSUME c.op = "save", NEW s \in {"merged", "writing", "done"}, NEW cfg, NEW blind, NEW d, Config!Moves(c, d),
             d \in [op : {c.op}, mine : {c.mine}, cfg : {cfg}, blind : {blind}, old : {c.old}, new : {c.new}, state : {s}],
             s # "done" => Config!NoZero(cfg) /\ c1' = c1,
             Config!NoZero(c1'), c.state # "done", c2' => s = "writing"
      PROVE  Config!KnownInv'
  <2>1. d.op = c.op /\ d.mine = c.mine /\ d.state = s /\ d.cfg = cfg
    BY <1>5
  <2>2. Config!OnTheWay(d)'
    BY <1>5, <2>1 DEF Config!OnTheWay, Config!NoZero
  <2>3. c9 \/ Config!Honest' \/ s = "done"
    <3>1. \A e \in c10 : e.op = "save" => e.state # "done"
      BY <1>5 DEF Config!KnownInv
    <3> QED
      BY <1>2, <1>5, <3>1 DEF Config!KnownInv, Config!Honest
  <2> QED
    BY <1>2, <1>5, <2>1, <2>2, <2>3, KnownMoves
<1>6. CASE Config!LoadForSave(c)
  <2>1. Config!LoadFile \in Config!Config
    BY Loaded DEF Config!ApplyInv
  <2>2. [c.cfg EXCEPT !.rest = Config!LoadFile.rest] \in Config!Config
    BY <1>1, <2>1 DEF Config!Config
  <2>3. PICK cfg, blind : cfg = Config!WithDefaults([c.cfg EXCEPT !.rest = Config!LoadFile.rest])
                          /\ blind = (c2 \/ c1.rest = "d")
    OBVIOUS
  <2>4. Config!NoZero(cfg)
    BY <2>2, <2>3, DefaultsHaveNoZero
  <2>5. PICK d : d = [c EXCEPT !.state = "merged", !.cfg = cfg, !.blind = blind]
    OBVIOUS
  <2>6. d \in [op : {c.op}, mine : {c.mine}, cfg : {cfg}, blind : {blind}, old : {c.old},
               new : {c.new}, state : {"merged"}]
    BY <1>1, <2>5
  <2>7. Config!Moves(c, d) /\ c.op = "save" /\ c.state = "sent" /\ UNCHANGED <<c1, c2>>
    BY <1>6, <2>3, <2>5 DEF Config!LoadForSave
  <2>8. ~c2
    BY <2>7 DEF Config!KnownInv
  <2> QED
    BY <1>3, <1>5, <2>4, <2>6, <2>7, <2>8
<1>7. ASSUME NEW s \in {"writing", "done"}, Config!Moves(c, [c EXCEPT !.state = s]), c.op = "save",
             c.state \in {"merged", "writing"},
             s = "writing" => c1' = c1, s = "done" => ~c2' /\ c1' = c.cfg
      PROVE  Config!KnownInv'
  <2>1. PICK d : d = [c EXCEPT !.state = s]
    OBVIOUS
  <2>2. d \in [op : {c.op}, mine : {c.mine}, cfg : {c.cfg}, blind : {c.blind}, old : {c.old},
               new : {c.new}, state : {s}]
    BY <1>1, <2>1
  <2>3. Config!NoZero(c.cfg)
    BY <1>3, <1>7 DEF Config!OnTheWay
  <2>4. Config!Moves(c, d) /\ c.state # "done"
    BY <1>7, <2>1
  <2>5. Config!NoZero(c1') /\ (s # "done" => c1' = c1) /\ (c2' => s = "writing")
    BY <1>3, <1>7, <2>3
  <2> QED
    BY <1>5, <1>7, <2>2, <2>3, <2>4, <2>5
<1>8. CASE Config!Truncate(c)
  BY <1>7, <1>8 DEF Config!Truncate
<1>9. CASE Config!Write(c)
  BY <1>7, <1>9 DEF Config!Write
<1> QED
  BY <1>4, <1>6, <1>8, <1>9

\* An application runs what is in the file, and does not end what was true before.
LEMMA KnownApplies ==
    ASSUME Config!ApplyInv, Config!KnownInv, NEW c \in c10,
           \/ Config!ReadManager(c) \/ Config!LoadToApply(c) \/ Config!UpdateServices(c)
           \/ Config!StartScheduler(c) \/ Config!Publish(c) \/ Config!StopOld(c)
    PROVE  Config!KnownInv'
<1>1. c \in [op : {c.op}, mine : {c.mine}, cfg : Config!Config, blind : {c.blind}, old : {c.old},
             new : {c.new}, state : {c.state}] /\ c1 \in Config!Config
  BY DEF Config!ApplyInv, Config!ApplyTypes, Config!IsCall
<1>2. UNCHANGED <<c1, c2, c7, c8, c9, c12>> /\ c.op = "apply"
  BY DEF Config!ReadManager, Config!LoadToApply, Config!UpdateServices, Config!StartScheduler, Config!Publish,
     Config!StopOld, Config!ServerOnly, Config!Runs
<1>3. c.mine /\ Config!OnTheWay(c) /\ Config!NoZero(c1) /\ ~c2 /\ (c9 \/ Config!Honest)
  BY <1>2 DEF Config!KnownInv
<1>4. Config!Stage(c)
  BY <1>2 DEF Config!ApplyInv, Config!KnownInv, Config!OneApplication, Config!Applies
<1>5. Config!LoadFile = c1
  BY <1>1, <1>3, DefaultsHaveNoZero DEF Config!LoadFile
<1>6. ASSUME NEW old, NEW new, NEW cfg, NEW s, NEW d, Config!Moves(c, d),
             d \in [op : {c.op}, mine : {c.mine}, cfg : {cfg}, blind : {c.blind}, old : {old}, new : {new}, state : {s}],
             s \in {"loaded", "serving", "started", "stopping"} => cfg = c1,
             s \in {"serving", "started"} => c3' = Config!Served(c1),
             s = "started" => c5'[new] = Config!Running(c1),
             s \in {"stopping", "done"} => Config!Honest',
             c9 \/ Config!Honest'
      PROVE  Config!KnownInv'
  <2>1. d.op = c.op /\ d.mine = c.mine /\ d.state = s /\ d.cfg = cfg /\ d.new = new
    BY <1>6
  <2>2. Config!OnTheWay(d)'
    BY <1>2, <1>6, <2>1 DEF Config!OnTheWay, Config!Served, Config!Running
  <2> QED
    BY <1>2, <1>3, <1>6, <2>1, <2>2, KnownMoves
<1>7. CASE Config!ReadManager(c)
  <2>1. PICK old : old = c4.scheduler
    OBVIOUS
  <2>2. PICK d : d = [c EXCEPT !.state = "begun", !.old = old]
    OBVIOUS
  <2>3. d \in [op : {c.op}, mine : {c.mine}, cfg : {c.cfg}, blind : {c.blind}, old : {old}, new : {c.new}, state : {"begun"}]
    BY <1>1, <2>2
  <2>4. Config!Moves(c, d) /\ UNCHANGED <<c3, c4, c5>>
    BY <1>7, <2>1, <2>2 DEF Config!ReadManager, Config!Runs
  <2>5. c9 \/ Config!Honest'
    BY <1>2, <1>3, <2>4 DEF Config!Honest
  <2> QED
    BY <1>6, <2>3, <2>4, <2>5
<1>8. CASE Config!LoadToApply(c)
  <2>1. PICK s \in {"refused", "loaded"} : s = IF c1.auth = "bad" THEN "refused" ELSE "loaded"
    OBVIOUS
  <2>2. PICK d : d = [c EXCEPT !.state = s, !.cfg = c1]
    OBVIOUS
  <2>3. d \in [op : {c.op}, mine : {c.mine}, cfg : {c1}, blind : {c.blind}, old : {c.old}, new : {c.new}, state : {s}]
    BY <1>1, <2>2
  <2>4. Config!Moves(c, d) /\ UNCHANGED <<c3, c4, c5>>
    BY <1>5, <1>8, <2>1, <2>2 DEF Config!LoadToApply, Config!Runs
  <2>5. c9 \/ Config!Honest'
    BY <1>2, <1>3, <2>4 DEF Config!Honest
  <2> QED
    BY <1>6, <2>3, <2>4, <2>5
<1>9. CASE Config!UpdateServices(c)
  <2>1. c.cfg = c1 /\ c3' = Config!Served(c1) /\ UNCHANGED <<c4, c5>>
    BY <1>2, <1>3, <1>9 DEF Config!UpdateServices, Config!OnTheWay
  <2>2. PICK d : d = [c EXCEPT !.state = "serving"]
    OBVIOUS
  <2>3. d \in [op : {c.op}, mine : {c.mine}, cfg : {c1}, blind : {c.blind}, old : {c.old}, new : {c.new}, state : {"serving"}]
    BY <1>1, <2>1, <2>2
  <2>4. Config!Moves(c, d)
    BY <1>9, <2>2 DEF Config!UpdateServices
  <2>5. c9 \/ Config!Honest'
    BY <1>2, <1>3, <2>1 DEF Config!Honest, Config!Served
  <2> QED
    BY <1>6, <2>1, <2>3, <2>4, <2>5
<1>10. CASE Config!StartScheduler(c)
  <2>1. c.cfg = c1 /\ c3 = Config!Served(c1) /\ DOMAIN c5 = {c4.scheduler} /\ UNCHANGED <<c3, c4>>
    BY <1>2, <1>3, <1>4, <1>10 DEF Config!StartScheduler, Config!OnTheWay, Config!Stage, Config!Alone
  <2>2. CASE c.cfg.cron = "bad"
    <3>1. PICK d : d = [c EXCEPT !.state = "refused"]
      OBVIOUS
    <3>2. d \in [op : {c.op}, mine : {c.mine}, cfg : {c.cfg}, blind : {c.blind}, old : {c.old}, new : {c.new}, state : {"refused"}]
      BY <1>1, <3>1
    <3>3. Config!Moves(c, d) /\ c5' = c5
      BY <1>10, <2>2, <3>1 DEF Config!StartScheduler
    <3>4. c9 \/ Config!Honest'
      BY <1>2, <1>3, <2>1, <3>3 DEF Config!Honest
    <3> QED
      BY <1>6, <3>2, <3>3, <3>4
  <2>3. CASE c.cfg.cron # "bad"
    <3>1. PICK i \in (1..Bound.schedulers) \ DOMAIN c5 :
             /\ c5' = [j \in DOMAIN c5 \cup {i} |->
                          IF j = i THEN [cron |-> c.cfg.cron, net |-> c.cfg.net] ELSE c5[j]]
             /\ Config!Moves(c, [c EXCEPT !.state = "started", !.new = i])
      BY <1>10, <2>3 DEF Config!StartScheduler
    <3>2. PICK d : d = [c EXCEPT !.state = "started", !.new = i]
      OBVIOUS
    <3>3. d \in [op : {c.op}, mine : {c.mine}, cfg : {c1}, blind : {c.blind}, old : {c.old}, new : {i}, state : {"started"}]
      BY <1>1, <2>1, <3>2
    <3>4. c5'[i] = Config!Running(c1) /\ c5'[c4.scheduler] = c5[c4.scheduler]
      BY <2>1, <3>1 DEF Config!Running
    <3>5. c9 \/ Config!Honest'
      BY <1>2, <1>3, <2>1, <3>4 DEF Config!Honest
    <3> QED
      BY <1>6, <2>1, <3>1, <3>2, <3>3, <3>4, <3>5
  <2> QED
    BY <2>2, <2>3
<1>11. CASE Config!Publish(c)
  <2>1. c.cfg = c1 /\ c3 = Config!Served(c1) /\ c5[c.new] = Config!Running(c1) /\ UNCHANGED <<c3, c5>>
        /\ c4' = [auth |-> c.cfg.auth, net |-> c.cfg.net, gw |-> c.cfg.gw, scheduler |-> c.new]
    BY <1>2, <1>3, <1>11 DEF Config!Publish, Config!OnTheWay
  <2>2. PICK d : d = [c EXCEPT !.state = "stopping"]
    OBVIOUS
  <2>3. d \in [op : {c.op}, mine : {c.mine}, cfg : {c1}, blind : {c.blind}, old : {c.old}, new : {c.new}, state : {"stopping"}]
    BY <1>1, <2>1, <2>2
  <2>4. Config!Moves(c, d)
    BY <1>11, <2>2 DEF Config!Publish
  <2>5. Config!Honest'
    BY <1>2, <2>1 DEF Config!Honest, Config!Running, Config!Served
  <2> QED
    BY <1>6, <2>3, <2>4, <2>5
<1>12. CASE Config!StopOld(c)
  <2>1. Config!Honest /\ UNCHANGED <<c3, c4>> /\ c5' = [j \in DOMAIN c5 \ {c.old} |-> c5[j]]
    BY <1>2, <1>3, <1>12 DEF Config!StopOld, Config!OnTheWay
  <2>2. DOMAIN c5 = {c.old, c4.scheduler} /\ c.old # c4.scheduler
    BY <1>4, <1>12 DEF Config!StopOld, Config!Stage
  <2>3. PICK d : d = [c EXCEPT !.state = "done"]
    OBVIOUS
  <2>4. d \in [op : {c.op}, mine : {c.mine}, cfg : {c.cfg}, blind : {c.blind}, old : {c.old}, new : {c.new}, state : {"done"}]
    BY <1>1, <2>3
  <2>5. Config!Moves(c, d)
    BY <1>12, <2>3 DEF Config!StopOld
  <2>6. Config!Honest'
    BY <1>2, <2>1, <2>2 DEF Config!Honest
  <2> QED
    BY <1>6, <2>4, <2>5, <2>6
<1> QED
  BY <1>7, <1>8, <1>9, <1>10, <1>11, <1>12

\* What has been saved is pending, and what has been applied is not.
LEMMA KnownAnswers ==
    ASSUME Config!KnownInv, ~c11', NEW c \in c10,
           \/ Config!QueryAnswered(c) \/ Config!SaveAnswered(c) \/ Config!ApplyAnswered(c)
           \/ Config!Refused(c) \/ Config!OthersAnswer(c) \/ Config!Lost(c)
    PROVE  Config!KnownInv'
<1>1. UNCHANGED <<c1, c2, c3, c4, c5, c12>>
  BY DEF Config!QueryAnswered, Config!SaveAnswered, Config!ApplyAnswered, Config!Refused, Config!OthersAnswer,
     Config!Lost, Config!Quiet, Config!Runs
<1>2. c.mine /\ Config!OnTheWay(c) /\ c.op \in {"get", "save", "apply"}
  BY DEF Config!KnownInv
<1>3. CASE Config!QueryAnswered(c)
  BY <1>1, <1>3, KnownQueries DEF Config!QueryAnswered
<1>4. CASE Config!SaveAnswered(c) \/ Config!ApplyAnswered(c)
  <2>1. PICK q : q = Config!Call("get", TRUE, Config!Default)
    OBVIOUS
  <2>2. q.op = "get" /\ q.mine /\ q.state = "sent"
    BY <2>1, OwnCall
  <2>3. c10' = (Config!Superseded \ {c}) \cup {q} /\ c.state = "done" /\ c.op # "get"
    BY <1>4, <2>1 DEF Config!SaveAnswered, Config!ApplyAnswered
  <2>4. c9' \/ Config!Honest
    BY <1>2, <1>4 DEF Config!SaveAnswered, Config!ApplyAnswered, Config!OnTheWay
  <2> QED
    BY <1>1, <2>2, <2>3, <2>4, KnownEnds DEF Config!Superseded
<1>5. CASE Config!Refused(c)
  <2>1. c.op = "apply" /\ c10' = c10 \ {c} /\ c9' = c9 /\ c.state = "refused"
    BY <1>2, <1>5 DEF Config!Refused, Config!OnTheWay
  <2>2. c9 \/ Config!Honest
    BY <2>1 DEF Config!KnownInv
  <2> QED
    BY <1>1, <2>1, <2>2, KnownEnds
<1>6. CASE Config!Lost(c)
  <2>1. c10' = c10 \ {c} /\ (c.op = "get" \/ c.state = "sent") /\ c9' = c9
    BY <1>6 DEF Config!Lost
  <2>2. CASE c.op = "get"
    <3>1. (c7 => c7') /\ (c8 => c8')
      BY <1>6, <2>2 DEF Config!Lost
    <3> QED
      BY <1>1, <2>1, <2>2, <3>1, KnownQueries
  <2>3. CASE c.op # "get"
    <3>1. c9 \/ Config!Honest
      BY <2>1, <2>3 DEF Config!KnownInv
    <3> QED
      BY <1>1, <2>1, <2>3, <3>1, KnownEnds
  <2> QED
    BY <2>2, <2>3
<1>7. ~Config!OthersAnswer(c)
  BY <1>2 DEF Config!OthersAnswer
<1> QED
  BY <1>3, <1>4, <1>5, <1>6, <1>7

LEMMA PendingStep ==
    ASSUME Config!ApplyInv, Config!PendingInv, Config!Next PROVE Config!PendingInv'
<1> SUFFICES ASSUME ~c11' PROVE Config!KnownInv'
  BY DEF Config!PendingInv
<1>1. ~c11
  BY DEF Config!Next, Config!EditAuth, Config!EditScheduler, Config!EditApp, Config!EditNotifications,
     Config!EditProxy, Config!EditUpstream, Config!EditGateway, Config!Edit, Config!Poll,
     Config!HandleSave, Config!HandleApply, Config!Reopen, Config!Other, Config!GetConfig, Config!LoadForSave,
     Config!Truncate, Config!Write, Config!ReadManager, Config!LoadToApply, Config!UpdateServices,
     Config!StartScheduler, Config!Publish, Config!StopOld, Config!QueryAnswered, Config!SaveAnswered,
     Config!ApplyAnswered, Config!Refused, Config!Lost, Config!OthersAnswer, Config!ServerOnly
<1>2. Config!KnownInv
  BY <1>1 DEF Config!PendingInv
<1> QED
  BY <1>2, KnownPage, KnownSaves, KnownApplies, KnownAnswers DEF Config!Next

LEMMA PendingStarts == Config!Init => Config!PendingInv
<1> SUFFICES ASSUME Config!Init PROVE Config!KnownInv
  BY DEF Config!PendingInv
<1>1. c1.net # "zero" /\ c1.gw # "zero"
  BY DEF Config!Init, Config!Default
<1>2. Config!Honest
  BY DEF Config!Init, Config!Honest, Config!Running
<1> QED
  BY <1>1, <1>2 DEF Config!Init, Config!KnownInv, Config!NoZero

LEMMA PendingIsKnown == Config!PendingInv => Config!PendingIsHonest
BY DEF Config!PendingInv, Config!KnownInv, Config!PendingIsHonest, Config!Honest, Config!Running

-----------------------------------------------------------------------------
(* The login of a channel *)

LEMMA LoginStart ==
    ASSUME ConsoleAssumption, Login!Init PROVE Login!LoginInv
<1>1. PICK s \in Sites, m \in {"password", "token"}, u \in Users :
         c1 = [there |-> TRUE, site |-> s, mode |-> m, user |-> u, gen |-> 0, refresh |-> m = "token"]
  BY DEF Login!Init
<1>2. c1 \in Login!Rows /\ c1.gen = 0 /\ c1.user = u /\ u \in Users
  BY <1>1 DEF Login!Rows
<1>3. Login!NoRow \in Login!Rows /\ Login!NoSession \in Login!Sessions /\ Login!ClosedForm \in Login!Forms
  BY <1>1 DEF Login!NoRow, Login!NoSession, Login!ClosedForm, Login!Rows, Login!Sessions, Login!Forms
<1>4. Login!Idle \in Login!Works /\ Login!NoEdit \in Login!Edits
  BY <1>3 DEF Login!Idle, Login!NoEdit, Login!Works, Login!Edits
<1>5. c2 = Login!NoSession /\ c3 = [v \in Users |-> 0] /\ c4 = [j \in Jobs |-> Login!Idle]
      /\ c6 = Login!ClosedForm /\ c7 = Login!NoEdit
  BY DEF Login!Init
<1>6. Login!LoginTypes
  BY <1>2, <1>3, <1>4, <1>5 DEF Login!LoginTypes
<1>7. \A j \in Jobs : Login!JobInv(j)
  BY <1>5 DEF Login!JobInv, Login!Idle
<1>8. Login!EditInv
  BY <1>5 DEF Login!EditInv, Login!NoEdit
<1>9. Login!TokenIsLatest /\ Login!SessionIsOfItsUser
  BY <1>2, <1>5 DEF Login!TokenIsLatest, Login!SessionIsOfItsUser
<1> QED
  BY <1>6, <1>7, <1>8, <1>9 DEF Login!LoginInv

\* The values of an empty row, session, form, job and handler.
LEMMA LoginBlanks ==
    ASSUME Login!LoginTypes
    PROVE  /\ Login!NoRow \in Login!Rows /\ ~Login!NoRow.there
           /\ Login!NoSession \in Login!Sessions /\ Login!ClosedForm \in Login!Forms
           /\ Login!Idle \in Login!Works /\ Login!Idle.pc = "idle"
           /\ Login!NoEdit \in Login!Edits /\ Login!NoEdit.op = "none" /\ Login!NoEdit.state = "none"
<1>1. c1.site \in Sites
  BY DEF Login!LoginTypes, Login!Rows
<1>2. Login!NoRow \in Login!Rows /\ ~Login!NoRow.there
  BY <1>1 DEF Login!NoRow, Login!Rows
<1>3. Login!NoSession \in Login!Sessions
  BY <1>2 DEF Login!NoSession, Login!Sessions, Login!Rows
<1>4. Login!ClosedForm \in Login!Forms
  BY <1>2 DEF Login!ClosedForm, Login!Forms, Login!Rows
<1> QED
  BY <1>2, <1>3, <1>4 DEF Login!Idle, Login!NoEdit, Login!Works, Login!Edits

\* The dialog on its own.
LEMMA LoginTyped ==
    ASSUME Login!LoginInv,
           \/ Login!OpenEdit \/ Login!TypeSite \/ Login!ToggleMode \/ Login!TypePassword \/ Login!TypeToken
           \/ Login!CloseForm
    PROVE  Login!LoginInv'
<1>1. UNCHANGED <<c1, c2, c3, c4, c5, c7, c10, c11>>
  BY DEF Login!OpenEdit, Login!TypeSite, Login!ToggleMode, Login!TypePassword, Login!TypeToken, Login!CloseForm,
     Login!Type, Login!formOnly
<1>2. c1 \in Login!Rows /\ c6 \in Login!Forms /\ Login!ClosedForm \in Login!Forms
  BY LoginBlanks DEF Login!LoginInv, Login!LoginTypes
<1>3. c6' \in Login!Forms
  <2>1. CASE Login!OpenEdit
    BY <1>2, <2>1 DEF Login!OpenEdit, Login!Forms, Login!Rows
  <2>2. CASE Login!TypeSite \/ Login!TypePassword
    BY <1>2, <2>2 DEF Login!TypeSite, Login!TypePassword, Login!Type, Login!Forms
  <2>3. CASE Login!ToggleMode
    <3>1. PICK m \in {"password", "token"} : c6' = [c6 EXCEPT !.mode = m, !.typed = Nil, !.refresh = FALSE]
      BY <2>3 DEF Login!ToggleMode, Login!Type
    <3> QED
      BY <1>2, <3>1 DEF Login!Forms
  <2>4. CASE Login!TypeToken
    <3>1. PICK u \in Users \cup {Nil}, r \in BOOLEAN : c6' = [c6 EXCEPT !.typed = u, !.refresh = r]
      BY <2>4 DEF Login!TypeToken, Login!Type
    <3> QED
      BY <1>2, <3>1 DEF Login!Forms
  <2>5. CASE Login!CloseForm
    BY <1>2, <2>5 DEF Login!CloseForm
  <2> QED
    BY <2>1, <2>2, <2>3, <2>4, <2>5
<1>4. Login!LoginTypes'
  BY <1>1, <1>3 DEF Login!LoginInv, Login!LoginTypes
<1>5. Login!EditInv' /\ \A j \in Jobs : Login!JobInv(j)'
  BY <1>1 DEF Login!LoginInv, Login!EditInv, Login!JobInv, Login!DropsSession, Login!Given
<1>6. Login!TokenIsLatest' /\ Login!SessionIsOfItsUser'
  BY <1>1 DEF Login!LoginInv, Login!TokenIsLatest, Login!SessionIsOfItsUser
<1> QED
  BY <1>4, <1>5, <1>6 DEF Login!LoginInv

\* The dialog sends its form, and the menu its request: nothing of the channel
\* has changed, so a form without a credential still has the row's mode.
LEMMA LoginAsked ==
    ASSUME Login!LoginInv, Login!HandleSubmit \/ Login!ClearLogin \/ Login!Delete
    PROVE  Login!LoginInv'
<1>1. UNCHANGED <<c1, c2, c3, c4, c5, c6, c10, c11>>
  BY DEF Login!HandleSubmit, Login!ClearLogin, Login!Delete, Login!ClickMenu
<1>2. /\ c6 \in Login!Forms /\ Login!ClosedForm \in Login!Forms /\ Login!NoRow \in Login!Rows
      /\ Login!NoEdit.state = "none"
  BY LoginBlanks DEF Login!LoginInv, Login!LoginTypes
<1>3. PICK op \in {"update", "clear", "delete"}, form \in Login!Forms :
         /\ c7' = [op |-> op, state |-> "sent", row |-> Login!NoRow, form |-> form]
         /\ op = "update" => Login!Submittable /\ form = c6
  BY <1>2 DEF Login!HandleSubmit, Login!ClearLogin, Login!Delete, Login!ClickMenu
<1>4. c7' \in Login!Edits /\ c7'.op = op /\ c7'.state = "sent" /\ c7'.form = form
  BY <1>2, <1>3 DEF Login!Edits
<1>5. op = "update" /\ form.typed = Nil => ~form.refresh /\ form.mode = c1.mode
  BY <1>3 DEF Login!Submittable
<1>6. Login!LoginTypes'
  BY <1>1, <1>4 DEF Login!LoginInv, Login!LoginTypes
<1>7. Login!NoEdit' = Login!NoEdit
  BY DEF Login!NoEdit, Login!NoRow, Login!ClosedForm
<1>8. Login!EditInv'
  BY <1>1, <1>2, <1>4, <1>5, <1>7 DEF Login!EditInv
<1>9. \A j \in Jobs : Login!JobInv(j)'
  BY <1>1 DEF Login!LoginInv, Login!JobInv
<1>10. Login!TokenIsLatest' /\ Login!SessionIsOfItsUser'
  BY <1>1 DEF Login!LoginInv, Login!TokenIsLatest, Login!SessionIsOfItsUser
<1> QED
  BY <1>6, <1>8, <1>9, <1>10 DEF Login!LoginInv

LEMMA LoginEditRead ==
    ASSUME Login!LoginInv, Login!EditRead
    PROVE  Login!LoginInv'
<1>1. UNCHANGED <<c1, c2, c3, c4, c5, c6, c10, c11>> /\ c7.state = "sent" /\ c7.op # "delete"
      /\ c7' = [c7 EXCEPT !.state = "read", !.row = c1]
  BY DEF Login!EditRead
<1>2. c7 \in Login!Edits /\ c1 \in Login!Rows /\ Login!NoEdit.state = "none" /\ Login!NoEdit' = Login!NoEdit
  BY LoginBlanks DEF Login!LoginInv, Login!LoginTypes, Login!NoEdit, Login!NoRow, Login!ClosedForm
<1>3. c7' \in [op : {c7.op}, state : {"read"}, row : {c1}, form : {c7.form}]
  BY <1>1, <1>2 DEF Login!Edits
<1>4. Login!LoginTypes'
  BY <1>1, <1>2, <1>3 DEF Login!LoginInv, Login!LoginTypes, Login!Edits
<1>5. Login!EditInv
  BY DEF Login!LoginInv
<1>6. Login!EditInv'
  BY <1>1, <1>2, <1>3, <1>5 DEF Login!EditInv
<1>7. \A j \in Jobs : Login!JobInv(j)'
  BY <1>1 DEF Login!LoginInv, Login!JobInv
<1>8. Login!TokenIsLatest' /\ Login!SessionIsOfItsUser'
  BY <1>1 DEF Login!LoginInv, Login!TokenIsLatest, Login!SessionIsOfItsUser
<1> QED
  BY <1>4, <1>6, <1>7, <1>8 DEF Login!LoginInv

LEMMA LoginEditDrops ==
    ASSUME Login!LoginInv, Login!EditDropsSession
    PROVE  Login!LoginInv'
<1>1. UNCHANGED <<c1, c3, c4, c5, c6, c10, c11>> /\ c7.state \in {"sent", "read"}
      /\ (c7.state = "sent" => c7.op = "delete")
      /\ c7' = [c7 EXCEPT !.state = "cleared"]
      /\ c2' = IF Login!DropsSession(c7) THEN Login!NoSession ELSE c2
  BY DEF Login!EditDropsSession
<1>2. c7 \in Login!Edits /\ c2 \in Login!Sessions /\ Login!NoSession \in Login!Sessions
      /\ Login!NoEdit.state = "none" /\ Login!NoEdit' = Login!NoEdit /\ Login!NoSession' = Login!NoSession
  BY LoginBlanks DEF Login!LoginInv, Login!LoginTypes, Login!NoEdit, Login!NoRow, Login!ClosedForm, Login!NoSession
<1>3. c7' \in [op : {c7.op}, state : {"cleared"}, row : {c7.row}, form : {c7.form}]
  BY <1>1, <1>2 DEF Login!Edits
<1>4. Login!LoginTypes'
  BY <1>1, <1>2, <1>3 DEF Login!LoginInv, Login!LoginTypes, Login!Edits
<1>5. Login!EditInv
  BY DEF Login!LoginInv
<1>6. c7'.op = c7.op /\ c7'.state = "cleared" /\ c7'.row = c7.row /\ c7'.form = c7.form
  BY <1>3
<1>7. Login!DropsSession(c7)' <=> Login!DropsSession(c7)
  BY <1>6 DEF Login!DropsSession, Login!Given
<1>8. Login!EditInv'
  BY <1>1, <1>2, <1>5, <1>6, <1>7 DEF Login!EditInv
<1>9. \A j \in Jobs : Login!JobInv(j)'
  BY <1>1 DEF Login!LoginInv, Login!JobInv
<1>10. Login!TokenIsLatest'
  BY <1>1 DEF Login!LoginInv, Login!TokenIsLatest
<1>11. Login!SessionIsOfItsUser'
  BY <1>1, <1>2 DEF Login!LoginInv, Login!SessionIsOfItsUser
<1> QED
  BY <1>4, <1>8, <1>9, <1>10, <1>11 DEF Login!LoginInv

\* What Update writes: the credential of the row it read, unless one was typed.
LEMMA LoginUpdated ==
    ASSUME c7 \in Login!Edits, c3 \in [Users -> Nat]
    PROVE  /\ Login!Updated(c7) \in Login!Rows
           /\ Login!Updated(c7).there = c7.row.there /\ Login!Updated(c7).mode = c7.form.mode
           /\ c7.op = "update" /\ c7.form.typed = Nil =>
                 /\ Login!Updated(c7).user = c7.row.user /\ Login!Updated(c7).refresh = c7.row.refresh
                 /\ Login!Updated(c7).gen = c7.row.gen
           /\ c7.op = "update" /\ c7.form.typed # Nil =>
                 Login!Updated(c7).user = c7.form.typed /\ Login!Updated(c7).gen = c3[c7.form.typed]
<1>1. c7.row \in [there : {c7.row.there}, site : Sites, mode : {"password", "token"}, user : {c7.row.user},
                  gen : {c7.row.gen}, refresh : {c7.row.refresh}]
      /\ c7.row \in Login!Rows
      /\ c7.form \in [open : BOOLEAN, site : Sites, mode : {"password", "token"},
                      typed : Users \cup {Nil}, refresh : BOOLEAN]
  BY DEF Login!Edits, Login!Rows, Login!Forms
<1> DEFINE new == [c7.row EXCEPT !.site = c7.form.site, !.mode = c7.form.mode]
<1>2. new \in [there : {c7.row.there}, site : {c7.form.site}, mode : {c7.form.mode}, user : {c7.row.user},
               gen : {c7.row.gen}, refresh : {c7.row.refresh}]
  BY <1>1
<1>3. Login!Updated(c7) = IF ~Login!Given(c7) THEN new
        ELSE [new EXCEPT !.user = c7.form.typed, !.refresh = c7.form.refresh,
                         !.gen = IF c7.form.typed = Nil THEN 0 ELSE c3[c7.form.typed]]
  BY DEF Login!Updated
<1> HIDE DEF new
<1>4. CASE ~Login!Given(c7)
  <2>1. Login!Updated(c7) = new
    BY <1>3, <1>4
  <2>2. new \in Login!Rows
    BY <1>1, <1>2 DEF Login!Rows
  <2> QED
    BY <1>2, <1>4, <2>1, <2>2 DEF Login!Given
<1>5. CASE Login!Given(c7)
  <2> DEFINE upd == [new EXCEPT !.user = c7.form.typed, !.refresh = c7.form.refresh, !.gen = c3[c7.form.typed]]
  <2>1. Login!Updated(c7) = upd /\ c7.form.typed # Nil
    BY <1>3, <1>5 DEF Login!Given
  <2>2. upd \in [there : {c7.row.there}, site : {c7.form.site}, mode : {c7.form.mode}, user : {c7.form.typed},
                 gen : {c3[c7.form.typed]}, refresh : {c7.form.refresh}]
    BY <1>2
  <2> HIDE DEF upd
  <2>3. c3[c7.form.typed] \in Nat
    BY <1>1, <2>1
  <2>4. upd \in Login!Rows
    BY <1>1, <2>2, <2>3 DEF Login!Rows
  <2> QED
    BY <2>1, <2>2, <2>4
<1> QED
  BY <1>4, <1>5

\* A save that ends while no job is at work.
LEMMA LoginEditSaves ==
    ASSUME Login!LoginInv, Login!EditSaves
    PROVE  Login!LoginInv'
<1>1. UNCHANGED <<c2, c3, c4, c5, c11>> /\ c7.state = "cleared" /\ c7' = Login!NoEdit
      /\ c10' = (c10 \/ Login!Busy) /\ c6' \in {c6, Login!ClosedForm}
  BY DEF Login!EditSaves
<1>2. c7 \in Login!Edits /\ c1 \in Login!Rows /\ c6 \in Login!Forms /\ c3 \in [Users -> Nat]
      /\ Login!NoRow \in Login!Rows /\ ~Login!NoRow.there /\ Login!ClosedForm \in Login!Forms
      /\ Login!NoEdit \in Login!Edits /\ Login!NoEdit.state = "none" /\ Login!NoEdit.op = "none"
  BY LoginBlanks DEF Login!LoginInv, Login!LoginTypes
<1>3. Login!NoEdit' = Login!NoEdit /\ Login!NoSession' = Login!NoSession
  BY DEF Login!NoEdit, Login!NoRow, Login!ClosedForm, Login!NoSession
<1>4. Login!EditInv
  BY DEF Login!LoginInv
<1>5. c7.op \in {"update", "clear", "delete"}
  BY <1>1, <1>2, <1>4 DEF Login!EditInv, Login!Edits
<1> DEFINE cleared == [c7.row EXCEPT !.user = Nil, !.refresh = FALSE]
<1>6. cleared \in Login!Rows /\ cleared.user = Nil
  BY <1>2 DEF Login!Edits, Login!Rows
<1> HIDE DEF cleared
<1>7. \/ c7.op = "update" /\ c1' = Login!Updated(c7)
      \/ c7.op = "delete" /\ c1' = Login!NoRow
      \/ c7.op = "clear" /\ c1' = cleared
      \/ c7.op = "clear" /\ c1' = c1
  BY <1>5 DEF Login!EditSaves, cleared
<1>8. c1' \in Login!Rows
  BY <1>2, <1>6, <1>7, LoginUpdated
<1>9. Login!LoginTypes'
  BY <1>1, <1>2, <1>8 DEF Login!LoginInv, Login!LoginTypes
<1>10. Login!EditInv'
  BY <1>1, <1>2, <1>3 DEF Login!EditInv, Login!DropsSession
<1>11. ~c10' => ~c10 /\ \A j \in Jobs : c4[j].pc = "idle"
  BY <1>1 DEF Login!Busy
<1>12. \A j \in Jobs : Login!JobInv(j)'
  BY <1>1, <1>11 DEF Login!LoginInv, Login!JobInv
<1>13. ~c10 /\ c7.op = "update" => c7.row = c1
  BY <1>1, <1>4 DEF Login!EditInv
<1>14. Login!SessionIsOfItsUser'
  <2> SUFFICES ASSUME c2 # Login!NoSession, ~c10'
               PROVE  c1'.there /\ c1'.mode = "password" /\ c2.user = c1'.user
    BY <1>1, <1>3 DEF Login!SessionIsOfItsUser
  <2>1. c7.op = "update" /\ c7.form.typed = Nil /\ c7.form.mode = c1.mode
    BY <1>1, <1>4, <1>5, <1>11 DEF Login!EditInv, Login!DropsSession, Login!Given
  <2>2. c1'.there = c1.there /\ c1'.mode = c1.mode /\ c1'.user = c1.user
    BY <1>2, <1>7, <1>11, <1>13, <2>1, LoginUpdated
  <2> QED
    BY <1>11, <2>2 DEF Login!LoginInv, Login!SessionIsOfItsUser
<1>15. Login!TokenIsLatest'
  <2> SUFFICES ASSUME ~c10', ~c11, c1'.there, c1'.mode = "token", c1'.refresh, c1'.user # Nil
               PROVE  c1'.gen = c3[c1'.user]
    BY <1>1, <1>8 DEF Login!TokenIsLatest, Login!Rows
  <2>1. CASE c7.op = "update" /\ c7.form.typed # Nil
    BY <1>2, <1>7, <2>1, LoginUpdated
  <2>2. CASE c7.op = "update" /\ c7.form.typed = Nil
    <3>1. c7.form.mode = c1.mode
      BY <1>4, <1>11, <2>2 DEF Login!EditInv
    <3>2. c1'.there = c1.there /\ c1'.mode = c1.mode /\ c1'.user = c1.user /\ c1'.refresh = c1.refresh
          /\ c1'.gen = c1.gen
      BY <1>2, <1>7, <1>11, <1>13, <2>2, <3>1, LoginUpdated
    <3> QED
      BY <1>11, <3>2 DEF Login!LoginInv, Login!TokenIsLatest
  <2>3. CASE c1' = c1
    BY <1>11, <2>3 DEF Login!LoginInv, Login!TokenIsLatest
  <2> QED
    BY <1>2, <1>6, <1>7, <2>1, <2>2, <2>3
<1> QED
  BY <1>9, <1>10, <1>12, <1>14, <1>15 DEF Login!LoginInv

LEMMA LoginEditFails ==
    ASSUME Login!LoginInv, Login!EditFails
    PROVE  Login!LoginInv'
<1>1. UNCHANGED <<c1, c2, c3, c4, c5, c6, c11>> /\ c7' = Login!NoEdit /\ (c10 => c10')
  BY DEF Login!EditFails
<1>2. Login!NoEdit \in Login!Edits /\ Login!NoEdit.state = "none" /\ Login!NoEdit.op = "none"
  BY LoginBlanks DEF Login!LoginInv
<1>3. Login!NoEdit' = Login!NoEdit /\ Login!NoSession' = Login!NoSession
  BY DEF Login!NoEdit, Login!NoRow, Login!ClosedForm, Login!NoSession
<1>4. Login!LoginTypes'
  BY <1>1, <1>2 DEF Login!LoginInv, Login!LoginTypes
<1>5. Login!EditInv'
  BY <1>1, <1>2, <1>3 DEF Login!EditInv
<1>6. \A j \in Jobs : Login!JobInv(j)'
  BY <1>1 DEF Login!LoginInv, Login!JobInv
<1>7. Login!TokenIsLatest' /\ Login!SessionIsOfItsUser'
  BY <1>1, <1>3 DEF Login!LoginInv, Login!TokenIsLatest, Login!SessionIsOfItsUser
<1> QED
  BY <1>4, <1>5, <1>6, <1>7 DEF Login!LoginInv

\* A step of one job that keeps what the others rely on: the lock that another
\* has, the tokens unless it has the lock itself, and the account of the row.
LEMMA LoginJobMoves ==
    ASSUME Login!LoginInv, NEW j \in Jobs, NEW w \in Login!Works,
           c4' = [c4 EXCEPT ![j] = w],
           c10 => c10',
           c5 \in {Login!NoJob, j} \/ c5' = c5,
           \A i \in Jobs : c5 = i /\ i # j => c5' = i,
           c3' # c3 => c5 = j,
           ~c10' => c1'.there = c1.there /\ c1'.mode = c1.mode /\ c1'.user = c1.user,
           w.pc \in {"check", "refresh", "saveToken"} => c5' = j,
           w.pc \in {"login", "saveSession"} => w.row.mode = "password",
           w.pc \in {"refresh", "saveToken"} => w.row.mode = "token",
           w.pc = "saveToken" => w.row.user = Nil \/ w.row.gen = c3'[w.row.user],
           w.pc # "idle" /\ ~c10' => Login!Follows(w, c1')
    PROVE  c4' \in [Jobs -> Login!Works] /\ \A i \in Jobs : Login!JobInv(i)'
<1>1. c4 \in [Jobs -> Login!Works] /\ \A i \in Jobs : Login!JobInv(i)
  BY DEF Login!LoginInv, Login!LoginTypes
<1>2. c4' \in [Jobs -> Login!Works] /\ c4'[j] = w
  BY <1>1
<1>3. Login!JobInv(j)'
  BY <1>2 DEF Login!JobInv, Login!Follows
<1>4. ASSUME NEW i \in Jobs, i # j
      PROVE  Login!JobInv(i)'
  <2>1. c4'[i] = c4[i]
    BY <1>1, <1>4
  <2>2. Login!JobInv(i)
    BY <1>1
  <2>3. c4[i].pc \in {"check", "refresh", "saveToken"} => c5 = i /\ c5' = i /\ c3' = c3
    BY <1>4, <2>2 DEF Login!JobInv
  <2>4. c4[i].pc # "idle" /\ ~c10' => Login!Follows(c4[i], c1')
    BY <2>2 DEF Login!JobInv, Login!Follows
  <2> QED
    BY <2>1, <2>2, <2>3, <2>4 DEF Login!JobInv, Login!Follows
<1> QED
  BY <1>2, <1>3, <1>4

\* A step of a job that changes neither the row nor the tokens, and the session
\* only by taking it away, or not at all.
LEMMA LoginQuietly ==
    ASSUME Login!LoginInv, UNCHANGED <<c1, c3, c6, c7, c10>>, c2' \in {c2, Login!NoSession},
           c11 => c11',
           c4' \in [Jobs -> Login!Works], \A i \in Jobs : Login!JobInv(i)',
           \/ c11'
           \/ \A i \in Jobs : c4[i].pc = "saveToken" => c4'[i].pc = "saveToken"
    PROVE  Login!LoginInv'
<1>1. Login!NoSession \in Login!Sessions /\ Login!NoSession' = Login!NoSession /\ Login!NoEdit' = Login!NoEdit
  BY LoginBlanks DEF Login!LoginInv, Login!NoEdit, Login!NoRow, Login!ClosedForm, Login!NoSession
<1>2. Login!LoginTypes'
  BY <1>1 DEF Login!LoginInv, Login!LoginTypes
<1>3. Login!EditInv
  BY DEF Login!LoginInv
<1>4. Login!EditInv'
  BY <1>1, <1>3 DEF Login!EditInv, Login!DropsSession, Login!Given
<1>5. Login!TokenIsLatest
  BY DEF Login!LoginInv
<1>6. Login!TokenIsLatest'
  BY <1>5 DEF Login!TokenIsLatest
<1>7. Login!SessionIsOfItsUser'
  BY <1>1 DEF Login!LoginInv, Login!SessionIsOfItsUser
<1> QED
  BY <1>2, <1>4, <1>6, <1>7 DEF Login!LoginInv

LEMMA LoginFinish ==
    ASSUME ConsoleAssumption, Login!LoginInv, NEW j \in Jobs, Login!Finish(j), UNCHANGED c3, c10 => c10',
           ~c10' => c1'.there = c1.there /\ c1'.mode = c1.mode /\ c1'.user = c1.user
    PROVE  /\ c4' \in [Jobs -> Login!Works] /\ \A i \in Jobs : Login!JobInv(i)'
           /\ \A i \in Jobs : i # j => c4'[i] = c4[i]
<1>1. Login!Idle \in Login!Works /\ Login!Idle.pc = "idle"
  BY LoginBlanks DEF Login!LoginInv
<1>2. c4' = [c4 EXCEPT ![j] = Login!Idle] /\ c5' = IF c5 = j THEN Login!NoJob ELSE c5
  BY DEF Login!Finish
<1>3. PICK w \in Login!Works : w = Login!Idle
  BY <1>1
<1>4. c4 \in [Jobs -> Login!Works]
  BY DEF Login!LoginInv, Login!LoginTypes
<1> QED
  BY <1>1, <1>2, <1>3, <1>4, LoginJobMoves

\* A job begins, and looks for a session: one that is stored and of a password is
\* the present account's.
LEMMA LoginBegins ==
    ASSUME ConsoleAssumption, Login!LoginInv, NEW j \in Jobs,
           Login!Start(j) \/ Login!EnsureSession(j) \/ Login!TestLogin(j)
    PROVE  Login!LoginInv'
<1>1. UNCHANGED <<c1, c2, c3, c6, c7, c10, c11>> /\ c4[j].pc \in {"idle", "read"}
  BY DEF Login!Start, Login!EnsureSession, Login!TestLogin, Login!Frame
<1>2. /\ c4 \in [Jobs -> Login!Works] /\ c1 \in Login!Rows /\ c2 \in Login!Sessions
      /\ \A i \in Jobs : Login!JobInv(i)
      /\ Login!Idle \in Login!Works
  BY LoginBlanks DEF Login!LoginInv, Login!LoginTypes
<1>3. c4[j] \in Login!Works /\ c4[j] \in [pc : {c4[j].pc}, row : {c4[j].row}, new : {c4[j].new}]
      /\ c4[j].row \in Login!Rows
  BY <1>2 DEF Login!Works
<1>4. ASSUME NEW w \in Login!Works, c4' = [c4 EXCEPT ![j] = w],
             c5 \in {Login!NoJob, j} \/ c5' = c5, \A i \in Jobs : c5 = i /\ i # j => c5' = i,
             w.pc \in {"read", "check", "login"},
             w.pc = "check" => c5' = j, w.pc = "login" => w.row.mode = "password",
             ~c10 => Login!Follows(w, c1)
      PROVE  Login!LoginInv'
  <2>1. c4' \in [Jobs -> Login!Works] /\ \A i \in Jobs : Login!JobInv(i)'
    BY <1>1, <1>4, LoginJobMoves
  <2>2. \A i \in Jobs : c4[i].pc = "saveToken" => c4'[i].pc = "saveToken"
    BY <1>1, <1>2, <1>4
  <2> QED
    BY <1>1, <2>1, <2>2, LoginQuietly
<1>5. CASE Login!Start(j)
  <2>1. PICK r \in Login!Rows : r = c1
    BY <1>2
  <2>2. PICK idle \in Login!Works : idle = Login!Idle
    BY <1>2
  <2>3. idle \in [pc : {idle.pc}, row : {idle.row}, new : Login!Sessions]
    BY <2>2 DEF Login!Works
  <2> DEFINE w == [idle EXCEPT !.pc = "read", !.row = r]
  <2>4. w \in [pc : {"read"}, row : {r}, new : Login!Sessions]
    BY <2>3
  <2>5. c4' = [c4 EXCEPT ![j] = w] /\ c5' = c5 /\ c1.there
    BY <1>5, <2>1, <2>2 DEF Login!Start
  <2> HIDE DEF w
  <2>6. w \in Login!Works
    BY <2>4 DEF Login!Works
  <2>7. Login!Follows(w, c1)
    BY <2>1, <2>4, <2>5 DEF Login!Follows
  <2> QED
    BY <1>4, <2>4, <2>5, <2>6, <2>7
<1>6. CASE Login!EnsureSession(j)
  <2>1. PICK pc \in {"login", "check"}, r \in Login!Rows, s \in Login!Sessions :
           /\ r = c4[j].row /\ s = c2
           /\ pc = IF c4[j].row.mode = "password" /\ c2 = Login!NoSession THEN "login" ELSE "check"
    BY <1>2, <1>3
  <2> DEFINE w == [pc |-> pc, row |-> r, new |-> s]
  <2>2. c4' = [c4 EXCEPT ![j] = w] /\ c5 = Login!NoJob /\ c5' = j /\ c4[j].pc = "read"
    BY <1>6, <2>1 DEF Login!EnsureSession
  <2>3. w \in Login!Works /\ w.pc = pc /\ w.row = r /\ w.new = s
    BY <2>1 DEF Login!Works
  <2> HIDE DEF w
  <2>4. ~c10 => Login!Follows(c4[j], c1)
    BY <1>2, <2>2 DEF Login!JobInv
  <2>5. ~c10 => Login!Follows(w, c1)
    BY <2>1, <2>3, <2>4 DEF Login!Follows, Login!LoginInv, Login!SessionIsOfItsUser
  <2>6. pc = "login" => r.mode = "password"
    BY <2>1
  <2>7. \A i \in Jobs : c5 # i
    BY <2>2 DEF ConsoleAssumption, Login!NoJob
  <2> QED
    BY <1>4, <2>2, <2>3, <2>5, <2>6, <2>7
<1>7. CASE Login!TestLogin(j)
  <2>1. PICK v \in Login!Works : v = c4[j]
    BY <1>3
  <2> DEFINE w == [v EXCEPT !.pc = "login"]
  <2>2. v \in [pc : {v.pc}, row : {v.row}, new : {v.new}]
    BY <1>3, <2>1
  <2>3. w \in [pc : {"login"}, row : {v.row}, new : {v.new}]
    BY <2>2
  <2>4. c4' = [c4 EXCEPT ![j] = w] /\ c5' = c5 /\ v.pc = "read" /\ v.row.mode = "password"
    BY <1>7, <2>1 DEF Login!TestLogin, Login!Goto
  <2> HIDE DEF w
  <2>5. w \in Login!Works
    BY <2>1, <2>3 DEF Login!Works
  <2>6. ~c10 => Login!Follows(v, c1)
    BY <1>2, <2>1, <2>4 DEF Login!JobInv
  <2>7. ~c10 => Login!Follows(w, c1)
    BY <2>3, <2>6 DEF Login!Follows
  <2> QED
    BY <1>4, <2>3, <2>4, <2>5, <2>7
<1> QED
  BY <1>5, <1>6, <1>7

\* A token is checked, a session too.
LEMMA LoginChecks ==
    ASSUME ConsoleAssumption, Login!LoginInv, NEW j \in Jobs, Login!Check(j)
    PROVE  Login!LoginInv'
<1>1. UNCHANGED <<c1, c2, c3, c6, c7, c10, c11>> /\ c4[j].pc = "check"
  BY DEF Login!Check, Login!Frame
<1>2. /\ c4 \in [Jobs -> Login!Works] /\ \A i \in Jobs : Login!JobInv(i)
  BY DEF Login!LoginInv, Login!LoginTypes
<1>3. CASE Login!Finish(j)
  <2>1. /\ c4' \in [Jobs -> Login!Works] /\ \A i \in Jobs : Login!JobInv(i)'
        /\ \A i \in Jobs : i # j => c4'[i] = c4[i]
    BY <1>1, <1>3, LoginFinish
  <2> QED
    BY <1>1, <2>1, LoginQuietly
<1>4. CASE ~Login!Finish(j)
  <2>1. PICK v \in Login!Works : v = c4[j]
    BY <1>2
  <2>2. PICK pc \in {"login", "saveSession", "refresh"} :
           /\ Login!Goto(j, pc) /\ c5' = c5
           /\ pc = "refresh" => v.row.mode = "token"
           /\ pc # "refresh" => v.row.mode = "password"
    BY <1>4, <2>1 DEF Login!Check
  <2> DEFINE w == [v EXCEPT !.pc = pc]
  <2>3. v \in [pc : {v.pc}, row : {v.row}, new : {v.new}]
    BY <2>1 DEF Login!Works
  <2>4. w \in [pc : {pc}, row : {v.row}, new : {v.new}]
    BY <2>3
  <2>5. c4' = [c4 EXCEPT ![j] = w]
    BY <2>1, <2>2 DEF Login!Goto
  <2> HIDE DEF w
  <2>6. w \in Login!Works
    BY <2>1, <2>4 DEF Login!Works
  <2>7. c5 = j /\ (~c10 => Login!Follows(v, c1)) /\ v.pc = "check"
    BY <1>1, <1>2, <2>1 DEF Login!JobInv
  <2>8. ~c10 => Login!Follows(w, c1)
    BY <2>4, <2>7 DEF Login!Follows
  <2>9. c4' \in [Jobs -> Login!Works] /\ \A i \in Jobs : Login!JobInv(i)'
    BY <1>1, <2>2, <2>4, <2>5, <2>6, <2>7, <2>8, LoginJobMoves
  <2>10. \A i \in Jobs : c4[i].pc = "saveToken" => c4'[i].pc = "saveToken"
    BY <1>1, <1>2, <2>5
  <2> QED
    BY <1>1, <2>9, <2>10, LoginQuietly
<1> QED
  BY <1>3, <1>4

\* The upstream gives out a new token to the job that has the lock.
LEMMA LoginRefreshes ==
    ASSUME ConsoleAssumption, Login!LoginInv, NEW j \in Jobs, Login!Refresh(j)
    PROVE  Login!LoginInv'
<1>1. UNCHANGED <<c1, c2, c6, c7, c10, c11>> /\ c4[j].pc = "refresh"
  BY DEF Login!Refresh, Login!Frame
<1>2. /\ c4 \in [Jobs -> Login!Works] /\ \A i \in Jobs : Login!JobInv(i) /\ c3 \in [Users -> Nat]
  BY DEF Login!LoginInv, Login!LoginTypes
<1>3. CASE Login!Finish(j) /\ c3' = c3
  <2>1. /\ c4' \in [Jobs -> Login!Works] /\ \A i \in Jobs : Login!JobInv(i)'
        /\ \A i \in Jobs : i # j => c4'[i] = c4[i]
    BY <1>1, <1>3, LoginFinish
  <2> QED
    BY <1>1, <1>3, <2>1, LoginQuietly
<1>4. CASE ~(Login!Finish(j) /\ c3' = c3)
  <2>1. PICK v \in Login!Works : v = c4[j]
    BY <1>2
  <2>2. /\ v.row.gen = c3[v.row.user] /\ c5' = c5
        /\ c3' = [c3 EXCEPT ![v.row.user] = @ + 1]
        /\ c4' = [c4 EXCEPT ![j] = [pc |-> "saveToken", row |-> [v.row EXCEPT !.gen = @ + 1], new |-> v.new]]
    BY <1>4, <2>1 DEF Login!Refresh
  <2> DEFINE r == [v.row EXCEPT !.gen = @ + 1]
             w == [pc |-> "saveToken", row |-> r, new |-> v.new]
  <2>3. v.row \in Login!Rows /\ v.new \in Login!Sessions
    BY DEF Login!Works
  <2>4. r \in Login!Rows /\ r.there = v.row.there /\ r.mode = v.row.mode /\ r.user = v.row.user
        /\ r.gen = v.row.gen + 1
    BY <2>3 DEF Login!Rows
  <2>5. c4' = [c4 EXCEPT ![j] = w]
    BY <2>2
  <2> HIDE DEF r
  <2>6. w \in Login!Works /\ w.pc = "saveToken" /\ w.row = r
    BY <2>3, <2>4 DEF Login!Works
  <2> HIDE DEF w
  <2>7. c5 = j /\ (~c10 => Login!Follows(v, c1)) /\ v.pc = "refresh" /\ v.row.mode = "token"
    BY <1>1, <1>2, <2>1 DEF Login!JobInv
  <2>8. ~c10 => Login!Follows(w, c1)
    BY <2>4, <2>6, <2>7 DEF Login!Follows
  <2>9. r.user \in Users \cup {Nil}
    BY <2>4 DEF Login!Rows
  <2>10. c3' \in [Users -> Nat] /\ (w.row.user = Nil \/ w.row.gen = c3'[w.row.user])
    <3> DEFINE u == v.row.user
    <3>1. c3' = [c3 EXCEPT ![u] = c3[u] + 1] /\ w.row.user = u /\ w.row.gen = c3[u] + 1 /\ u \in Users \cup {Nil}
      BY <2>2, <2>4, <2>6, <2>9
    <3> HIDE DEF u
    <3>2. CASE u \in Users
      <4>1. c3[u] + 1 \in Nat
        BY <1>2, <3>2
      <4> QED
        BY <1>2, <3>1, <3>2, <4>1
    <3>3. CASE u \notin Users
      <4>1. c3' = c3
        BY <1>2, <3>1, <3>3
      <4> QED
        BY <1>2, <3>1, <3>3, <4>1
    <3> QED
      BY <3>2, <3>3
  <2>17. w.row.mode = "token"
    BY <2>4, <2>6, <2>7
  <2>11. c4' \in [Jobs -> Login!Works] /\ \A i \in Jobs : Login!JobInv(i)'
    BY <1>1, <2>2, <2>5, <2>6, <2>7, <2>8, <2>10, <2>17, LoginJobMoves
  <2>12. c4'[j].pc = "saveToken"
    BY <1>2, <2>5, <2>6
  <2>13. Login!LoginTypes'
    BY <1>1, <2>10, <2>11 DEF Login!LoginInv, Login!LoginTypes
  <2>14. Login!NoSession' = Login!NoSession /\ Login!NoEdit' = Login!NoEdit
    BY DEF Login!NoEdit, Login!NoRow, Login!ClosedForm, Login!NoSession
  <2>15. Login!EditInv'
    BY <1>1, <2>14 DEF Login!LoginInv, Login!EditInv, Login!DropsSession, Login!Given
  <2>16. Login!TokenIsLatest' /\ Login!SessionIsOfItsUser'
    BY <1>1, <2>12, <2>14 DEF Login!LoginInv, Login!TokenIsLatest, Login!SessionIsOfItsUser
  <2> QED
    BY <2>11, <2>13, <2>15, <2>16 DEF Login!LoginInv
<1> QED
  BY <1>3, <1>4

\* It writes the row it read, with the new token; if a handler was at work, the
\* two have written across each other.
LEMMA LoginSavesToken ==
    ASSUME ConsoleAssumption, Login!LoginInv, NEW j \in Jobs, Login!SaveToken(j)
    PROVE  Login!LoginInv'
<1>1. UNCHANGED <<c2, c3, c6, c7>> /\ c4[j].pc = "saveToken" /\ Login!Finish(j)
  BY DEF Login!SaveToken, Login!Frame
<1>2. /\ c4 \in [Jobs -> Login!Works] /\ \A i \in Jobs : Login!JobInv(i) /\ c3 \in [Users -> Nat]
      /\ c7 \in Login!Edits
  BY DEF Login!LoginInv, Login!LoginTypes
<1>3. CASE c11' /\ UNCHANGED <<c1, c10>>
  <2>1. /\ c4' \in [Jobs -> Login!Works] /\ \A i \in Jobs : Login!JobInv(i)'
    BY <1>1, <1>3, LoginFinish
  <2> QED
    BY <1>1, <1>3, <2>1, LoginQuietly
<1>4. CASE ~(c11' /\ UNCHANGED <<c1, c10>>)
  <2>1. c1' = c4[j].row /\ c10' = (c10 \/ c7 # Login!NoEdit) /\ c11' = c11
    BY <1>4 DEF Login!SaveToken, Login!Persisted
  <2>2. c4[j].row \in Login!Rows
    BY <1>2 DEF Login!Works
  <2>3. Login!JobInv(j)
    BY <1>2
  <2>4. ~c10' => /\ ~c10 /\ c7 = Login!NoEdit
                 /\ c1.there /\ c1'.there /\ c1'.mode = c1.mode /\ c1'.user = c1.user
    BY <1>1, <2>1, <2>3 DEF Login!JobInv, Login!Follows
  <2>5. ~c10' => c1'.there = c1.there
    BY <1>2, <2>1, <2>2, <2>4 DEF Login!LoginInv, Login!LoginTypes, Login!Rows
  <2>6. c4' \in [Jobs -> Login!Works] /\ \A i \in Jobs : Login!JobInv(i)'
    BY <1>1, <2>1, <2>4, <2>5, LoginFinish
  <2>7. Login!LoginTypes'
    BY <1>1, <2>1, <2>2, <2>6 DEF Login!LoginInv, Login!LoginTypes
  <2>8. /\ Login!NoSession' = Login!NoSession /\ Login!NoEdit' = Login!NoEdit
        /\ Login!NoEdit.state = "none" /\ Login!NoEdit.op = "none"
    BY LoginBlanks DEF Login!LoginInv, Login!NoEdit, Login!NoRow, Login!ClosedForm, Login!NoSession
  <2>9. Login!EditInv
    BY DEF Login!LoginInv
  <2>10. Login!EditInv'
    BY <1>1, <2>4, <2>8, <2>9 DEF Login!EditInv
  <2>11. Login!TokenIsLatest'
    BY <1>1, <2>1, <2>3 DEF Login!TokenIsLatest, Login!JobInv
  <2>12. Login!SessionIsOfItsUser'
    BY <1>1, <2>4, <2>8 DEF Login!LoginInv, Login!SessionIsOfItsUser
  <2> QED
    BY <2>6, <2>7, <2>10, <2>11, <2>12 DEF Login!LoginInv
<1> QED
  BY <1>3, <1>4

\* A login makes a session of the account it read, and that is the row's as long
\* as no handler has written.
LEMMA LoginLogsIn ==
    ASSUME ConsoleAssumption, Login!LoginInv, NEW j \in Jobs, Login!Login(j)
    PROVE  Login!LoginInv'
<1>1. UNCHANGED <<c1, c3, c6, c7, c10, c11>> /\ c4[j].pc = "login"
  BY DEF Login!Login, Login!Frame
<1>2. /\ c4 \in [Jobs -> Login!Works] /\ \A i \in Jobs : Login!JobInv(i)
  BY DEF Login!LoginInv, Login!LoginTypes
<1>3. CASE c2' = Login!NoSession /\ Login!Finish(j)
  <2>1. /\ c4' \in [Jobs -> Login!Works] /\ \A i \in Jobs : Login!JobInv(i)'
        /\ \A i \in Jobs : i # j => c4'[i] = c4[i]
    BY <1>1, <1>3, LoginFinish
  <2> QED
    BY <1>1, <1>3, <2>1, LoginQuietly
<1>4. CASE ~(c2' = Login!NoSession /\ Login!Finish(j))
  <2>1. PICK v \in Login!Works : v = c4[j]
    BY <1>2
  <2>2. v.row \in Login!Rows
    BY DEF Login!Works
  <2>10. [site |-> v.row.site, user |-> v.row.user] \in Login!Sessions
    BY <2>2 DEF Login!Rows, Login!Sessions
  <2>3. PICK s \in Login!Sessions : s = [site |-> v.row.site, user |-> v.row.user]
    BY <2>10
  <2>11. s.user = v.row.user
    BY <2>3
  <2> DEFINE w == [pc |-> "saveSession", row |-> v.row, new |-> s]
  <2>4. c4' = [c4 EXCEPT ![j] = w] /\ c2' = c2 /\ c5' = c5
    BY <1>4, <2>1, <2>3 DEF Login!Login
  <2>5. w \in Login!Works /\ w.pc = "saveSession" /\ w.row = v.row /\ w.new = s
    BY <2>2, <2>3 DEF Login!Works
  <2> HIDE DEF w
  <2>6. (~c10 => Login!Follows(v, c1)) /\ v.pc = "login" /\ v.row.mode = "password"
    BY <1>1, <1>2, <2>1 DEF Login!JobInv
  <2>7. ~c10 => Login!Follows(w, c1)
    BY <2>5, <2>6, <2>11 DEF Login!Follows
  <2>8. c4' \in [Jobs -> Login!Works] /\ \A i \in Jobs : Login!JobInv(i)'
    BY <1>1, <2>4, <2>5, <2>6, <2>7, LoginJobMoves
  <2>9. \A i \in Jobs : c4[i].pc = "saveToken" => c4'[i].pc = "saveToken"
    BY <1>1, <1>2, <2>4
  <2> QED
    BY <1>1, <2>4, <2>8, <2>9, LoginQuietly
<1> QED
  BY <1>3, <1>4

LEMMA LoginSavesSession ==
    ASSUME ConsoleAssumption, Login!LoginInv, NEW j \in Jobs, Login!SaveSession(j)
    PROVE  Login!LoginInv'
<1>1. /\ UNCHANGED <<c1, c3, c6, c7, c11>> /\ c4[j].pc = "saveSession" /\ Login!Finish(j)
      /\ c2' = c4[j].new /\ c10' = (c10 \/ c7 # Login!NoEdit)
  BY DEF Login!SaveSession, Login!Frame
<1>2. /\ c4 \in [Jobs -> Login!Works] /\ Login!JobInv(j) /\ c7 \in Login!Edits
      /\ Login!EditInv
  BY DEF Login!LoginInv, Login!LoginTypes
<1>3. /\ c4' \in [Jobs -> Login!Works] /\ \A i \in Jobs : Login!JobInv(i)'
      /\ \A i \in Jobs : i # j => c4'[i] = c4[i]
  BY <1>1, LoginFinish
<1>4. Login!LoginTypes'
  BY <1>1, <1>2, <1>3 DEF Login!LoginInv, Login!LoginTypes, Login!Works
<1>5. /\ Login!NoSession' = Login!NoSession /\ Login!NoEdit' = Login!NoEdit
      /\ Login!NoEdit.state = "none" /\ Login!NoEdit.op = "none"
  BY LoginBlanks DEF Login!LoginInv, Login!NoEdit, Login!NoRow, Login!ClosedForm, Login!NoSession
<1>6. ~c10' => ~c10 /\ c7 = Login!NoEdit
  BY <1>1
<1>7. Login!EditInv'
  BY <1>1, <1>2, <1>5, <1>6 DEF Login!EditInv
<1>8. Login!TokenIsLatest
  BY DEF Login!LoginInv
<1>9. Login!TokenIsLatest'
  BY <1>1, <1>3, <1>6, <1>8 DEF Login!TokenIsLatest
<1>10. Login!SessionIsOfItsUser'
  BY <1>1, <1>2, <1>5, <1>6 DEF Login!SessionIsOfItsUser, Login!JobInv, Login!Follows
<1> QED
  BY <1>3, <1>4, <1>7, <1>9, <1>10 DEF Login!LoginInv

LEMMA LoginStep ==
    ASSUME ConsoleAssumption, Login!LoginInv, Login!Next PROVE Login!LoginInv'
BY LoginTyped, LoginAsked, LoginEditRead, LoginEditDrops, LoginEditSaves, LoginEditFails, LoginBegins, LoginChecks,
   LoginRefreshes, LoginSavesToken, LoginLogsIn, LoginSavesSession DEF Login!Next

\* Only the save of a dialog, and a job that ends, write the row.
LEMMA LoginKeepsCredential ==
    ASSUME Login!LoginInv, Login!Next PROVE Login!CredentialStep
<1>1. Login!EditSaves \/ c1' = c1 \/ c7' = c7
  BY DEF Login!Next, Login!OpenEdit, Login!TypeSite, Login!ToggleMode, Login!TypePassword, Login!TypeToken,
     Login!CloseForm, Login!Type, Login!formOnly, Login!HandleSubmit, Login!ClearLogin, Login!Delete,
     Login!ClickMenu, Login!EditRead, Login!EditDropsSession, Login!EditFails, Login!Start, Login!EnsureSession,
     Login!TestLogin, Login!Check, Login!Refresh, Login!SaveToken, Login!Login, Login!SaveSession, Login!Frame
<1>2. CASE c1' = c1
  BY <1>2 DEF Login!CredentialStep
<1>3. CASE c7' = c7
  BY <1>3 DEF Login!CredentialStep, Login!NoEdit
<1>4. CASE Login!EditSaves
  <2>1. c7 \in Login!Edits /\ c3 \in [Users -> Nat]
    BY DEF Login!LoginInv, Login!LoginTypes
  <2>2. c7.op = "update" => c1' = Login!Updated(c7)
    BY <1>4 DEF Login!EditSaves
  <2> QED
    BY <2>1, <2>2, LoginUpdated DEF Login!CredentialStep
<1> QED
  BY <1>1, <1>2, <1>3, <1>4

-----------------------------------------------------------------------------
(* The pages of a log (LogFeed) *)

\* The request for a page goes with its effect.
LEMMA OnePageStep ==
    ASSUME Feed!OnePage, Feed!Next PROVE Feed!OnePage'
<1>1. CASE Feed!Open \/ Feed!Close \/ Feed!LoadNextPage
  BY <1>1 DEF Feed!OnePage, Feed!Open, Feed!Close, Feed!LoadNextPage, Feed!Cleanup
<1>2. CASE Feed!Write \/ Feed!DeleteBefore
  <2>1. UNCHANGED <<c3, c7, c9>>
    BY <1>2 DEF Feed!Write, Feed!DeleteBefore, Feed!view
  <2> QED
    BY <2>1 DEF Feed!OnePage
<1>3. ASSUME NEW c \in c9, Feed!Answer(c) \/ Feed!Fail(c)
      PROVE  Feed!OnePage'
  BY <1>3 DEF Feed!OnePage, Feed!Answer, Feed!Fail
<1>4. ASSUME NEW c \in c9, Feed!Count(c) \/ Feed!Find(c)
      PROVE  Feed!OnePage'
  <2>1. PICK d : c9' = (c9 \ {c}) \cup {d}
    BY <1>4 DEF Feed!Count, Feed!Find
  <2>2. UNCHANGED <<c3, c7>>
    BY <1>4 DEF Feed!Count, Feed!Find, Feed!view
  <2> QED
    BY <2>1, <2>2 DEF Feed!OnePage
<1>5. ASSUME NEW ch \in Deleted, Feed!DeleteChannel(ch)
      PROVE  Feed!OnePage'
  <2>1. PICK n : c9' = {IF c.read >= 0 /\ c.page = 1 THEN [c EXCEPT !.gone = @ + n] ELSE c : c \in c9}
    BY <1>5 DEF Feed!DeleteChannel
  <2>2. UNCHANGED <<c3, c7>>
    BY <1>5 DEF Feed!DeleteChannel, Feed!view
  <2> DEFINE Marked(c) == IF c.read >= 0 /\ c.page = 1 THEN [c EXCEPT !.gone = @ + n] ELSE c
  <2>3. c9' = {Marked(c) : c \in c9}
    BY <2>1
  <2> HIDE DEF Marked
  <2> QED
    BY <2>2, <2>3 DEF Feed!OnePage
<1> QED
  BY <1>1, <1>2, <1>3, <1>4, <1>5 DEF Feed!Next

LEMMA PageIsShown == Feed!OnePage => Feed!LoadingIsExact
<1> SUFFICES ASSUME Feed!OnePage, c3 PROVE Feed!LoadingIsExact
  BY DEF Feed!LoadingIsExact
<1>1. Feed!Cardinality(c9) = Cardinality(c9)
  BY DEF Feed!Cardinality, Cardinality
<1>2. Cardinality(c9) = IF c7 THEN 1 ELSE 0
  BY OneOrNone DEF Feed!OnePage
<1> QED
  BY <1>1, <1>2 DEF Feed!LoadingIsExact

-----------------------------------------------------------------------------
(* Scans that overlap (RateScan) *)

LEMMA ScanRecord ==
    ASSUME Scan!ScanTypes, NEW s \in Scanners
    PROVE  /\ Scan!IsScan(c5[s]) /\ c5 \in [Scanners -> {c5[t] : t \in Scanners}]
           /\ c5[s] \in [pc : {c5[s].pc}, got : {c5[s].got}, had : {c5[s].had}, first : {c5[s].first},
                         want : {c5[s].want}, todo : {c5[s].todo}, group : {c5[s].group}, prev : {c5[s].prev},
                         batch : {c5[s].batch}]
BY DEF Scan!ScanTypes, Scan!IsScan

LEMMA ScanLists ==
    ASSUME Scan!ScanTypes, NEW s \in Scanners, Scan!List(s)
    PROVE  \E want \in {Keyed, Offered} : \E d :
             /\ c5' = [c5 EXCEPT ![s] = d]
             /\ d \in [pc : {"loop"}, got : {c5[s].got}, had : {Scan!RatioOf(c2)},
                       first : {Scan!RatioOf(c2) = Scan!Nothing}, want : {want},
                       todo : {{g \in Offered : c5[s].got[g] # 0}}, group : {c5[s].group}, prev : {c5[s].prev},
                       batch : {c5[s].batch}]
<1> DEFINE had == Scan!RatioOf(c2)
           first == (Scan!RatioOf(c2) = Scan!Nothing)
           todo == {g \in Offered : c5[s].got[g] # 0}
<1>1. PICK want \in {Keyed, Offered} :
         c5' = [c5 EXCEPT ![s].pc = "loop", ![s].want = want, ![s].had = had, ![s].first = first, ![s].todo = todo]
  BY DEF Scan!List
<1> HIDE DEF had, first, todo
<1> DEFINE d == [c5[s] EXCEPT !.pc = "loop", !.want = want, !.had = had, !.first = first, !.todo = todo]
<1>2. c5' = [c5 EXCEPT ![s] = d]
  BY <1>1, ScanRecord
<1>3. d \in [pc : {"loop"}, got : {c5[s].got}, had : {had}, first : {first}, want : {want},
             todo : {todo}, group : {c5[s].group}, prev : {c5[s].prev}, batch : {c5[s].batch}]
  BY ScanRecord
<1> QED
  BY <1>2, <1>3 DEF had, first, todo

\* The locals of one goroutine change, and at most one row.
LEMMA TypesMove ==
    ASSUME Scan!ScanTypes, {c1', c8', c9'} \subseteq [Offered -> Nat], c3' \in Nat,
           c2' = c2 \/ \E g \in Offered : \E r : c2' = [c2 EXCEPT ![g] = r] /\ Scan!IsRow(r),
           c5' = c5 \/ \E s \in Scanners : \E d : c5' = [c5 EXCEPT ![s] = d] /\ Scan!IsScan(d)
    PROVE  Scan!ScanTypes'
<1>1. c2' \in [Offered -> {c2'[g] : g \in Offered}] /\ \A g \in Offered : Scan!IsRow(c2'[g])
  BY DEF Scan!ScanTypes
<1>2. c5' \in [Scanners -> {c5'[s] : s \in Scanners}] /\ \A s \in Scanners : Scan!IsScan(c5'[s])
  BY DEF Scan!ScanTypes
<1> QED
  BY <1>1, <1>2 DEF Scan!ScanTypes, Scan!IsRow, Scan!IsScan

\* Rows stay as they are, or come to what the upstream has answered.
Onward == \A g \in Offered : c2'[g] = c2[g] \/ Scan!New(g)'

LEMMA SameDifferences ==
    ASSUME UNCHANGED <<c8, c9>>
    PROVE  Scan!Differences' = Scan!Differences /\ \A g : Scan!Difference(g)' = Scan!Difference(g)
BY DEF Scan!Differences, Scan!Difference

LEMMA OthersGoOn ==
    ASSUME UNCHANGED <<c8, c9>>, Onward, NEW e, Scan!IsScan(e), Scan!GoesOn(e)
    PROVE  Scan!GoesOn(e)'
<1>1. \A g \in Offered : Scan!New(g) => Scan!New(g)'
  BY DEF Onward, Scan!New
<1>2. e.pc = "write" => e.group \in Offered
  BY DEF Scan!IsScan
<1>3. e.pc = "write" /\ c2'[e.group].id # e.prev.id => c2[e.group].id # e.prev.id \/ Scan!New(e.group)'
  BY <1>2 DEF Onward
<1>4. Scan!Differences' = Scan!Differences
  BY SameDifferences
<1>5. \A g : Scan!Past(e, g)' <=> Scan!Past(e, g)
  BY DEF Scan!Past
<1> QED
  BY <1>1, <1>2, <1>3, <1>4, <1>5 DEF Scan!GoesOn

\* A scan takes a step and does not end with it.
LEMMA PeriodMoves ==
    ASSUME Scan!ScanTypes, Scan!PeriodInv, UNCHANGED <<c8, c9, c10>>, Onward,
           NEW s \in Scanners, NEW d, c5' = [c5 EXCEPT ![s] = d], Scan!GoesOn(d)', d.pc # "idle",
           \/ \A g \in Offered : c2'[g].ratio = 0 => c2[g].ratio = 0
           \/ \A g \in Offered : c9[g] # 0 => c2'[g].ratio # 0,
           \A g \in Keyed : c8 # Scan!Nothing /\ c8[g] # c9[g] /\ Scan!New(g)' => Scan!Noted(g)'
    PROVE  Scan!PeriodInv'
<1>1. c5'[s] = d /\ \A t \in Scanners : t # s => c5'[t] = c5[t]
  BY DEF Scan!ScanTypes
<1>2. \A g \in Offered : c2'[g].ratio \in {c8'[g], c9'[g]}
  BY DEF Scan!PeriodInv, Onward, Scan!New
<1>3. ASSUME NEW t \in Scanners PROVE Scan!GoesOn(c5[t])'
  <2>1. PICK e : e = c5'[t]
    OBVIOUS
  <2>2. Scan!GoesOn(e)'
    <3>1. CASE t = s
      BY <1>1, <2>1, <3>1
    <3>2. CASE t # s
      <4>1. Scan!IsScan(e) /\ Scan!GoesOn(e)
        BY <1>1, <2>1, <3>2 DEF Scan!ScanTypes, Scan!PeriodInv
      <4> QED
        BY <4>1, OthersGoOn
    <3> QED
      BY <3>1, <3>2
  <2> QED
    BY <2>1, <2>2 DEF Scan!GoesOn, Scan!InScan, Scan!Past
<1>4. c10' \subseteq Scan!Differences'
  BY SameDifferences DEF Scan!PeriodInv
<1>5. (\E g \in Offered : c8'[g] # 0 /\ c2'[g].ratio = 0) => \A g \in Offered : c9'[g] # 0 => c2'[g].ratio # 0
  <2>1. CASE \A g \in Offered : c9[g] # 0 => c2'[g].ratio # 0
    BY <2>1
  <2>2. CASE \A g \in Offered : c2'[g].ratio = 0 => c2[g].ratio = 0
    BY <2>2 DEF Scan!PeriodInv, Onward, Scan!New
  <2> QED
    BY <2>1, <2>2
<1>6. Scan!Nothing' = Scan!Nothing
  BY DEF Scan!Nothing
<1>7. Scan!Working' # {}
  BY <1>1 DEF Scan!Working, Scan!At
<1> QED
  BY <1>2, <1>3, <1>4, <1>5, <1>6, <1>7 DEF Scan!PeriodInv

\* What is noted stays noted, and an entry of the log comes into the batch.
LEMMA NotedStays ==
    ASSUME Scan!ScanTypes, UNCHANGED <<c8, c9, c10>>, NEW s \in Scanners, NEW d, c5' = [c5 EXCEPT ![s] = d],
           c5[s].batch \subseteq d.batch, NEW g, Scan!Noted(g),
           c5[s].pc = "log" /\ c5[s].group = g => Scan!Difference(g) \in d.batch
    PROVE  Scan!Noted(g)'
<1>1. c5'[s] = d /\ \A t \in Scanners : t # s => c5'[t] = c5[t]
  BY DEF Scan!ScanTypes
<1>2. Scan!Difference(g)' = Scan!Difference(g)
  BY SameDifferences
<1>3. CASE Scan!Difference(g) \in c10
  BY <1>2, <1>3 DEF Scan!Noted
<1>4. ASSUME NEW t \in Scanners, Scan!Difference(g) \in c5[t].batch \/ (c5[t].pc = "log" /\ c5[t].group = g)
      PROVE  Scan!Noted(g)'
  <2>1. Scan!Difference(g)' \in c5'[t].batch \/ (c5'[t].pc = "log" /\ c5'[t].group = g)
    BY <1>1, <1>2, <1>4
  <2> QED
    BY <2>1 DEF Scan!Noted
<1> QED
  BY <1>3, <1>4 DEF Scan!Noted

\* A scan that is to go on with rows as they are: what it takes for its group.
LEMMA ListStep ==
    ASSUME LogAssumption, Scan!ScanInv, NEW s \in Scanners, Scan!List(s)
    PROVE  Scan!ScanInv'
<1>1. PICK want \in {Keyed, Offered} : \E d :
             /\ c5' = [c5 EXCEPT ![s] = d]
             /\ d \in [pc : {"loop"}, got : {c5[s].got}, had : {Scan!RatioOf(c2)},
                       first : {Scan!RatioOf(c2) = Scan!Nothing}, want : {want},
                       todo : {{g \in Offered : c5[s].got[g] # 0}}, group : {c5[s].group}, prev : {c5[s].prev},
                       batch : {c5[s].batch}]
  BY ScanLists DEF Scan!ScanInv
<1>2. PICK d :
             /\ c5' = [c5 EXCEPT ![s] = d]
             /\ d \in [pc : {"loop"}, got : {c5[s].got}, had : {Scan!RatioOf(c2)},
                       first : {Scan!RatioOf(c2) = Scan!Nothing}, want : {want},
                       todo : {{g \in Offered : c5[s].got[g] # 0}}, group : {c5[s].group}, prev : {c5[s].prev},
                       batch : {c5[s].batch}]
  BY <1>1
<1>3. PICK c : c = c5[s]
  OBVIOUS
<1>4. /\ Scan!IsScan(c) /\ c.pc = "list" /\ c.batch = {}
      /\ UNCHANGED <<c1, c2, c3, c8, c9, c10, c11>>
  BY <1>3, ScanRecord DEF Scan!ScanInv, Scan!List, Scan!At, Scan!IsScan, Scan!Table, Scan!Witness
<1>5. Keyed \subseteq Offered
  BY DEF LogAssumption, Scan!ScanAssumption
<1> DEFINE had == Scan!RatioOf(c2)
<1>6. had \in [Offered -> Nat] /\ \A g \in Offered : had[g] = c2[g].ratio
  BY DEF Scan!ScanInv, Scan!ScanTypes, Scan!IsRow, Scan!RatioOf
<1> HIDE DEF had
<1>7. /\ d.pc = "loop" /\ d.got = c.got /\ d.had = had /\ d.first = (had = Scan!Nothing) /\ d.want = want
      /\ d.todo = {g \in Offered : c.got[g] # 0} /\ d.batch = {} /\ d.group = c.group /\ d.prev = c.prev
  BY <1>2, <1>3, <1>4 DEF had
<1>8. Scan!IsScan(d)
  <2>1. d \in [pc : {d.pc}, got : {d.got}, had : {d.had}, first : {d.first}, want : {d.want}, todo : {d.todo},
               group : {d.group}, prev : {d.prev}, batch : {d.batch}]
    BY <1>2
  <2>2. d.first \in BOOLEAN /\ d.todo \in SUBSET Offered /\ d.group \in Offered \cup {Nil}
    BY <1>4, <1>7 DEF Scan!IsScan
  <2> QED
    BY <1>4, <1>6, <1>7, <2>1, <2>2 DEF Scan!IsScan
<1>9. Scan!ScanTypes'
  BY <1>2, <1>4, <1>8, TypesMove DEF Scan!ScanInv, Scan!ScanTypes
<1>10. ASSUME ~c11 PROVE Scan!PeriodInv'
  <2>1. Scan!PeriodInv /\ Scan!ScanTypes
    BY <1>10 DEF Scan!ScanInv
  <2>2. Scan!GoesOn(c)
    BY <1>3, <2>1 DEF Scan!PeriodInv
  <2>3. c.got = c9
    BY <1>4, <2>2 DEF Scan!GoesOn
  <2>4. d.first /\ c8 # Scan!Nothing => c9 = Scan!Nothing
    <3> SUFFICES ASSUME d.first, c8 # Scan!Nothing PROVE c9 = Scan!Nothing
      OBVIOUS
    <3>1. \A g \in Offered : c2[g].ratio = 0
      <4>1. had = Scan!Nothing
        BY <1>7
      <4> QED
        BY <1>6, <4>1 DEF Scan!Nothing
    <3>2. PICK g \in Offered : c8[g] # 0
      BY <2>1 DEF Scan!ScanTypes, Scan!Nothing
    <3>3. \A h \in Offered : c9[h] = 0
      BY <2>1, <3>1, <3>2 DEF Scan!PeriodInv
    <3> QED
      BY <2>1, <3>3 DEF Scan!ScanTypes, Scan!Nothing
  <2>5. \A g \in Offered : d.had[g] \in {c8[g], c9[g]}
    BY <1>6, <1>7, <2>1 DEF Scan!PeriodInv
  <2>6. \A g \in Offered : Scan!Past(d, g) \/ (c9[g] = 0 /\ d.had[g] = 0) => Scan!New(g)
    BY <1>6, <1>7, <2>3 DEF Scan!Past, Scan!New
  <2>7. Keyed \subseteq d.want
    BY <1>5, <1>7
  <2>8. Scan!GoesOn(d)
    BY <1>7, <2>3, <2>4, <2>5, <2>6, <2>7 DEF Scan!GoesOn
  <2>9. Onward
    BY <1>4 DEF Onward
  <2>10. Scan!GoesOn(d)'
    BY <1>4, <1>8, <2>8, <2>9, OthersGoOn
  <2>11. \A g \in Keyed : c8 # Scan!Nothing /\ c8[g] # c9[g] /\ Scan!New(g)' => Scan!Noted(g)'
    <3> SUFFICES ASSUME NEW g \in Keyed, c8 # Scan!Nothing, c8[g] # c9[g], Scan!New(g)' PROVE Scan!Noted(g)'
      OBVIOUS
    <3>1. Scan!Noted(g)
      BY <1>4, <1>5, <2>1 DEF Scan!PeriodInv, Scan!New
    <3> QED
      BY <1>2, <1>3, <1>4, <1>7, <2>1, <3>1, NotedStays
  <2> QED
    BY <1>2, <1>4, <1>7, <2>1, <2>9, <2>10, <2>11, PeriodMoves
<1> QED
  BY <1>4, <1>9, <1>10 DEF Scan!ScanInv

\* Of a group it has to see to, the upsert reads the row.
LEMMA FindStep ==
    ASSUME LogAssumption, Scan!ScanInv, NEW s \in Scanners, NEW g \in Offered, Scan!Find(s, g)
    PROVE  Scan!ScanInv'
<1>1. PICK c : c = c5[s]
  OBVIOUS
<1>2. /\ Scan!IsScan(c) /\ c.pc = "loop" /\ g \in c.todo
      /\ UNCHANGED <<c1, c2, c3, c8, c9, c10, c11>>
      /\ c \in [pc : {c.pc}, got : {c.got}, had : {c.had}, first : {c.first}, want : {c.want}, todo : {c.todo},
                group : {c.group}, prev : {c.prev}, batch : {c.batch}]
  BY <1>1, ScanRecord DEF Scan!ScanInv, Scan!Find, Scan!At, Scan!Table, Scan!Witness
<1>3. PICK d : d = [c EXCEPT !.pc = "write", !.todo = c.todo \ {g}, !.group = g, !.prev = c2[g]]
  OBVIOUS
<1>4. d \in [pc : {"write"}, got : {c.got}, had : {c.had}, first : {c.first}, want : {c.want},
             todo : {c.todo \ {g}}, group : {g}, prev : {c2[g]}, batch : {c.batch}]
  BY <1>2, <1>3
<1>5. c5' = [c5 EXCEPT ![s] = d]
  BY <1>1, <1>3 DEF Scan!Find
<1>6. Scan!IsRow(c2[g])
  BY DEF Scan!ScanInv, Scan!ScanTypes
<1>7. Scan!IsScan(d)
  BY <1>2, <1>4, <1>6 DEF Scan!IsScan
<1>8. Scan!ScanTypes'
  BY <1>2, <1>5, <1>7, TypesMove DEF Scan!ScanInv, Scan!ScanTypes
<1>9. ASSUME ~c11 PROVE Scan!PeriodInv'
  <2>1. Scan!PeriodInv /\ Scan!ScanTypes
    BY <1>9 DEF Scan!ScanInv
  <2>2. Scan!GoesOn(c)
    BY <1>1, <2>1 DEF Scan!PeriodInv
  <2>3. \A h : Scan!Past(d, h) => Scan!Past(c, h)
    BY <1>2, <1>4 DEF Scan!Past
  <2>4. c2[g].ratio \in {c8[g], c9[g]}
    BY <2>1 DEF Scan!PeriodInv
  <2>5. Scan!GoesOn(d)
    BY <1>2, <1>4, <2>2, <2>3, <2>4 DEF Scan!GoesOn, Scan!InScan, Scan!New
  <2>6. Onward
    BY <1>2 DEF Onward
  <2>7. Scan!GoesOn(d)'
    BY <1>2, <1>7, <2>5, <2>6, OthersGoOn
  <2>8. \A h \in Keyed : c8 # Scan!Nothing /\ c8[h] # c9[h] /\ Scan!New(h)' => Scan!Noted(h)'
    <3> SUFFICES ASSUME NEW h \in Keyed, c8 # Scan!Nothing, c8[h] # c9[h], Scan!New(h)' PROVE Scan!Noted(h)'
      OBVIOUS
    <3>1. Scan!Noted(h)
      BY <1>2, <2>1 DEF Scan!PeriodInv, Scan!New
    <3> QED
      BY <1>1, <1>2, <1>4, <1>5, <2>1, <3>1, NotedStays
  <2> QED
    BY <1>2, <1>4, <1>5, <2>1, <2>6, <2>7, <2>8, PeriodMoves
<1> QED
  BY <1>2, <1>8, <1>9 DEF Scan!ScanInv

\* What is put into the batch, if anything, is a difference, and it is not left out
\* where there has been a row.
LEMMA ToldDifference ==
    ASSUME NEW c, NEW g \in Offered, Scan!GoesOn(c), Scan!InScan(c), c8[g] # c9[g], g \in Keyed => g \in c.want
    PROVE  /\ c8[g] = 0 => Scan!Difference(g) = Scan!Report("added", g, 0, c9[g])
           /\ c8[g] # 0 /\ c9[g] # 0 => Scan!Difference(g) = Scan!Report("changed", g, c8[g], c9[g])
           /\ c9[g] = 0 => Scan!Difference(g) = Scan!Report("removed", g, c8[g], 0)
           /\ \A k, o, n : Scan!Difference(g) = Scan!Report(k, g, o, n) =>
                 /\ Scan!Told(c, k, g, o, n) \subseteq Scan!Differences
                 /\ g \in Keyed /\ ~(c.first /\ k = "added") => Scan!Difference(g) \in Scan!Told(c, k, g, o, n)
<1>1. Scan!Difference(g) \in Scan!Differences
  BY DEF Scan!Differences
<1>2. /\ c8[g] = 0 => Scan!Difference(g) = Scan!Report("added", g, 0, c9[g])
      /\ c8[g] # 0 /\ c9[g] # 0 => Scan!Difference(g) = Scan!Report("changed", g, c8[g], c9[g])
      /\ c9[g] = 0 => Scan!Difference(g) = Scan!Report("removed", g, c8[g], 0)
  BY DEF Scan!Difference
<1> QED
  BY <1>1, <1>2 DEF Scan!Told

\* The change log's entry comes after the row.
LEMMA LogStep ==
    ASSUME LogAssumption, Scan!ScanInv, NEW s \in Scanners, Scan!Log(s)
    PROVE  Scan!ScanInv'
<1>1. PICK c : c = c5[s]
  OBVIOUS
<1> DEFINE told == Scan!Told(c, "changed", c.group, c.prev.ratio, c.got[c.group])
<1>2. /\ Scan!IsScan(c) /\ c.pc = "log"
      /\ UNCHANGED <<c1, c2, c3, c8, c9, c10, c11>>
      /\ c \in [pc : {c.pc}, got : {c.got}, had : {c.had}, first : {c.first}, want : {c.want}, todo : {c.todo},
                group : {c.group}, prev : {c.prev}, batch : {c.batch}]
  BY <1>1, ScanRecord DEF Scan!ScanInv, Scan!Log, Scan!Witness
<1>3. PICK d : d = [c EXCEPT !.pc = "loop", !.group = Nil, !.prev = Scan!NoRow, !.batch = c.batch \cup told]
  OBVIOUS
<1>5. c5' = [c5 EXCEPT ![s] = d]
  BY <1>1, <1>3 DEF Scan!Log
<1> HIDE DEF told
<1>4. d \in [pc : {"loop"}, got : {c.got}, had : {c.had}, first : {c.first}, want : {c.want},
             todo : {c.todo}, group : {Nil}, prev : {Scan!NoRow}, batch : {c.batch \cup told}]
  BY <1>2, <1>3
<1>7. Scan!IsScan(d)
  BY <1>2, <1>4 DEF Scan!IsScan
<1>8. Scan!ScanTypes'
  BY <1>2, <1>5, <1>7, TypesMove DEF Scan!ScanInv, Scan!ScanTypes
<1>9. ASSUME ~c11 PROVE Scan!PeriodInv'
  <2>1. Scan!PeriodInv /\ Scan!ScanTypes
    BY <1>9 DEF Scan!ScanInv
  <2>2. Scan!GoesOn(c)
    BY <1>1, <2>1 DEF Scan!PeriodInv
  <2>3. \A h : Scan!Past(d, h) => Scan!Past(c, h)
    BY <1>2, <1>4 DEF Scan!Past
  <2>4. PICK g \in Offered : g = c.group
    BY <1>2 DEF Scan!IsScan
  <2>5. /\ c.got[g] = c9[g] /\ c9[g] # 0 /\ c.prev.ratio = c8[g] /\ c8[g] # c9[g] /\ c8[g] # 0
        /\ Keyed \subseteq c.want /\ Scan!InScan(c)
    BY <1>2, <2>2, <2>4 DEF Scan!GoesOn, Scan!IsScan, Scan!InScan
  <2>6. told \subseteq Scan!Differences /\ (g \in Keyed => Scan!Difference(g) \in told)
    BY <2>2, <2>4, <2>5, ToldDifference DEF told
  <2>7. Scan!GoesOn(d)
    BY <1>2, <1>4, <2>2, <2>3, <2>6 DEF Scan!GoesOn, Scan!InScan, Scan!New
  <2>8. Onward
    BY <1>2 DEF Onward
  <2>9. Scan!GoesOn(d)'
    BY <1>2, <1>7, <2>7, <2>8, OthersGoOn
  <2>10. \A h \in Keyed : c8 # Scan!Nothing /\ c8[h] # c9[h] /\ Scan!New(h)' => Scan!Noted(h)'
    <3> SUFFICES ASSUME NEW h \in Keyed, c8 # Scan!Nothing, c8[h] # c9[h], Scan!New(h)' PROVE Scan!Noted(h)'
      OBVIOUS
    <3>1. Scan!Noted(h)
      BY <1>2, <2>1 DEF Scan!PeriodInv, Scan!New
    <3>2. c.pc = "log" /\ c.group = h => Scan!Difference(h) \in d.batch
      BY <1>4, <2>4, <2>6
    <3> QED
      BY <1>1, <1>2, <1>4, <1>5, <2>1, <3>1, <3>2, NotedStays
  <2> QED
    BY <1>2, <1>4, <1>5, <2>1, <2>8, <2>9, <2>10, PeriodMoves
<1> QED
  BY <1>2, <1>8, <1>9 DEF Scan!ScanInv

\* A scan deletes what it had listed when it is through with what is offered.
LEMMA DropStep ==
    ASSUME LogAssumption, Scan!ScanInv, NEW s \in Scanners, NEW g \in Offered, Scan!Drop(s, g)
    PROVE  Scan!ScanInv'
<1>1. PICK c : c = c5[s]
  OBVIOUS
<1> DEFINE told == Scan!Told(c, "removed", g, c.had[g], 0)
           had == [c.had EXCEPT ![g] = 0]
<1>2. /\ Scan!IsScan(c) /\ c.pc = "loop" /\ c.todo = {} /\ c.had[g] # 0 /\ c.got[g] = 0
      /\ UNCHANGED <<c1, c3, c8, c9, c10, c11>> /\ c2' = [c2 EXCEPT ![g] = Scan!NoRow]
      /\ c \in [pc : {c.pc}, got : {c.got}, had : {c.had}, first : {c.first}, want : {c.want}, todo : {c.todo},
                group : {c.group}, prev : {c.prev}, batch : {c.batch}]
  BY <1>1, ScanRecord DEF Scan!ScanInv, Scan!Drop, Scan!At, Scan!Leftover, Scan!Witness
<1>3. PICK d : d = [c EXCEPT !.had[g] = 0, !.batch = c.batch \cup told]
  OBVIOUS
<1>5. c5' = [c5 EXCEPT ![s] = d]
  BY <1>1, <1>3 DEF Scan!Drop
<1> HIDE DEF told
<1>4. d \in [pc : {"loop"}, got : {c.got}, had : {had}, first : {c.first}, want : {c.want},
             todo : {{}}, group : {c.group}, prev : {c.prev}, batch : {c.batch \cup told}]
  BY <1>2, <1>3
<1>6. had \in [Offered -> Nat] /\ had[g] = 0 /\ \A h \in Offered : h # g => had[h] = c.had[h]
  BY <1>2 DEF Scan!IsScan
<1> HIDE DEF had
<1>7. Scan!IsScan(d)
  BY <1>2, <1>4, <1>6 DEF Scan!IsScan
<1>10. Scan!IsRow(Scan!NoRow) /\ Scan!NoRow.ratio = 0
  BY DEF Scan!IsRow, Scan!NoRow
<1>8. Scan!ScanTypes'
  BY <1>2, <1>5, <1>7, <1>10, TypesMove DEF Scan!ScanInv, Scan!ScanTypes
<1>9. ASSUME ~c11 PROVE Scan!PeriodInv'
  <2>1. Scan!PeriodInv /\ Scan!ScanTypes
    BY <1>9 DEF Scan!ScanInv
  <2>2. Scan!GoesOn(c)
    BY <1>1, <2>1 DEF Scan!PeriodInv
  <2>4. c2' \in [Offered -> {c2'[h] : h \in Offered}] /\ c2'[g].ratio = 0 /\ \A h \in Offered : h # g => c2'[h] = c2[h]
    BY <1>2, <1>10, <2>1 DEF Scan!ScanTypes
  <2>5. /\ c9[g] = 0 /\ c.had[g] = c8[g] /\ c8[g] # c9[g]
        /\ Keyed \subseteq c.want /\ Scan!InScan(c)
    BY <1>2, <2>2 DEF Scan!GoesOn, Scan!InScan
  <2>6. told \subseteq Scan!Differences /\ (g \in Keyed => Scan!Difference(g) \in told)
    BY <2>2, <2>5, ToldDifference DEF told
  <2>8. Onward
    BY <1>2, <2>4, <2>5 DEF Onward, Scan!New
  <2>7. Scan!GoesOn(d)'
    <3>1. Scan!GoesOn(c)'
      BY <1>2, <2>2, <2>8, OthersGoOn
    <3>2. Scan!Differences' = Scan!Differences /\ Scan!New(g)'
      BY <1>2, <2>4, <2>5, SameDifferences DEF Scan!New
    <3>3. \A h : Scan!Past(d, h)' => Scan!Past(c, h)'
      BY <1>2, <1>4 DEF Scan!Past
    <3> QED
      BY <1>2, <1>4, <1>6, <2>5, <2>6, <3>1, <3>2, <3>3 DEF Scan!GoesOn, Scan!InScan
  <2>9. \A h \in Offered : c9[h] # 0 => c2'[h].ratio # 0
    BY <1>2, <2>2, <2>4, <2>5 DEF Scan!GoesOn, Scan!InScan, Scan!Past, Scan!New
  <2>10. \A h \in Keyed : c8 # Scan!Nothing /\ c8[h] # c9[h] /\ Scan!New(h)' => Scan!Noted(h)'
    <3> SUFFICES ASSUME NEW h \in Keyed, c8 # Scan!Nothing, c8[h] # c9[h], Scan!New(h)' PROVE Scan!Noted(h)'
      OBVIOUS
    <3>1. h \in Offered
      BY DEF LogAssumption, Scan!ScanAssumption
    <3>2. CASE h = g
      <4>1. Scan!Difference(h)' \in c5'[s].batch
        BY <1>2, <1>4, <1>5, <2>1, <2>6, <3>2, SameDifferences DEF Scan!ScanTypes
      <4> QED
        BY <4>1 DEF Scan!Noted
    <3>3. CASE h # g
      <4>1. Scan!Noted(h)
        BY <1>2, <2>1, <2>4, <3>1, <3>3 DEF Scan!PeriodInv, Scan!New
      <4> QED
        BY <1>1, <1>2, <1>4, <1>5, <2>1, <4>1, NotedStays
    <3> QED
      BY <3>2, <3>3
  <2> QED
    BY <1>2, <1>4, <1>5, <2>1, <2>7, <2>8, <2>9, <2>10, PeriodMoves
<1> QED
  BY <1>2, <1>8, <1>9 DEF Scan!ScanInv

\* A row that the scan finds changed since it read it, another scan has brought to
\* the same ratio; else this one does.
LEMMA WriteStep ==
    ASSUME LogAssumption, Scan!ScanInv, NEW s \in Scanners, Scan!Write(s)
    PROVE  Scan!ScanInv'
<1>1. PICK c : c = c5[s]
  OBVIOUS
<1>2. /\ Scan!IsScan(c) /\ c.pc = "write"
      /\ UNCHANGED <<c1, c8, c9, c10, c11>>
      /\ c \in [pc : {c.pc}, got : {c.got}, had : {c.had}, first : {c.first}, want : {c.want}, todo : {c.todo},
                group : {c.group}, prev : {c.prev}, batch : {c.batch}]
  BY <1>1, ScanRecord DEF Scan!ScanInv, Scan!Write, Scan!Witness
<1>3. PICK g \in Offered : g = c.group
  BY <1>2 DEF Scan!IsScan
<1>4. c.got[g] \in Nat /\ c.got[g] # 0 /\ Scan!IsRow(c.prev) /\ Scan!IsRow(c2[g]) /\ c3 \in Nat
      /\ c2 \in [Offered -> {c2[h] : h \in Offered}]
  BY <1>2, <1>3 DEF Scan!IsScan, Scan!ScanInv, Scan!ScanTypes
<1> DEFINE new == c.got[g]
           known == c.prev # Scan!NoRow
           written == c2[g].id \in {0, c.prev.id}
           differs == written /\ known /\ c.prev.ratio # new
           told == Scan!Told(c, "added", g, 0, new)
           made == [id |-> IF known THEN c.prev.id ELSE c3 + 1, ratio |-> new]
           pc == IF differs THEN "log" ELSE "loop"
           group == IF differs THEN g ELSE Nil
           prev == IF differs THEN c.prev ELSE Scan!NoRow
           batch == IF written /\ ~known THEN c.batch \cup told ELSE c.batch
<1>5. c5' = [c5 EXCEPT ![s].pc = pc, ![s].group = group, ![s].prev = prev, ![s].batch = batch]
  BY <1>1, <1>3 DEF Scan!Write
<1>6. IF written THEN c2' = [c2 EXCEPT ![g] = made] /\ c3' = IF known THEN c3 ELSE c3 + 1
                 ELSE UNCHANGED <<c2, c3>>
  BY <1>1, <1>3 DEF Scan!Write, Scan!Table
<1>7. known <=> c.prev.id # 0
  BY <1>4 DEF Scan!IsRow, Scan!NoRow
<1>8. Scan!IsRow(made) /\ made.ratio = new
  BY <1>4, <1>7 DEF Scan!IsRow
<1> HIDE DEF pc, group, prev, batch
<1>9. PICK d : d = [c EXCEPT !.pc = pc, !.group = group, !.prev = prev, !.batch = batch]
  OBVIOUS
<1>10. c5' = [c5 EXCEPT ![s] = d]
  BY <1>1, <1>5, <1>9
<1>11. d \in [pc : {pc}, got : {c.got}, had : {c.had}, first : {c.first}, want : {c.want},
              todo : {c.todo}, group : {group}, prev : {prev}, batch : {batch}]
  BY <1>2, <1>9
<1>12. pc \in {"log", "loop"} /\ group \in Offered \cup {Nil} /\ (pc = "log" => group = g /\ prev = c.prev /\ differs)
       /\ (differs => pc = "log")
  BY DEF pc, group, prev
<1> HIDE DEF known, written, differs, told, made, new
<1>13. Scan!IsScan(d)
  BY <1>2, <1>3, <1>4, <1>11, <1>12 DEF Scan!IsScan, new
<1>14. c3' \in Nat
  BY <1>4, <1>6
<1>15. Scan!ScanTypes'
  BY <1>2, <1>6, <1>8, <1>10, <1>13, <1>14, TypesMove DEF Scan!ScanInv, Scan!ScanTypes
<1>16. ASSUME ~c11 PROVE Scan!PeriodInv'
  <2>1. Scan!PeriodInv /\ Scan!ScanTypes
    BY <1>16 DEF Scan!ScanInv
  <2>2. Scan!GoesOn(c)
    BY <1>1, <2>1 DEF Scan!PeriodInv
  <2>3. /\ c.got = c9 /\ new = c9[g] /\ c9[g] # 0 /\ c.prev.ratio \in {c8[g], c9[g]}
        /\ (c.prev.ratio = c9[g] \/ c2[g].id # c.prev.id => Scan!New(g))
        /\ Keyed \subseteq c.want /\ Scan!InScan(c)
        /\ (c.first /\ c8 # Scan!Nothing => c9 = Scan!Nothing)
    BY <1>2, <1>3, <1>4, <2>2 DEF Scan!GoesOn, Scan!InScan, new
  <2>4. written \/ Scan!New(g)
    BY <2>3 DEF written
  <2>5. /\ c2' \in [Offered -> {c2'[h] : h \in Offered}] /\ Scan!New(g)'
        /\ \A h \in Offered : h # g => c2'[h] = c2[h]
    BY <1>2, <1>4, <1>6, <1>8, <2>3, <2>4 DEF Scan!New
  <2>6. Onward
    BY <2>5 DEF Onward
  <2>7. written /\ ~known => c8[g] = 0 /\ c8[g] # c9[g]
    BY <1>4, <1>7, <2>3 DEF written, Scan!IsRow, Scan!New
  <2>8. written /\ ~known => told \subseteq Scan!Differences
                             /\ (g \in Keyed /\ c8 # Scan!Nothing => Scan!Difference(g) \in told)
    <3> SUFFICES ASSUME written, ~known
                 PROVE  told \subseteq Scan!Differences
                        /\ (g \in Keyed /\ c8 # Scan!Nothing => Scan!Difference(g) \in told)
      OBVIOUS
    <3>1. c9 # Scan!Nothing
      BY <2>3 DEF Scan!Nothing
    <3>2. Scan!Difference(g) = Scan!Report("added", g, 0, c9[g])
      BY <2>2, <2>3, <2>7, ToldDifference
    <3> QED
      BY <2>2, <2>3, <2>7, <3>1, <3>2, ToldDifference DEF told
  <2>9. batch \subseteq Scan!Differences /\ c.batch \subseteq batch
    BY <2>2, <2>8 DEF batch, Scan!GoesOn
  <2>10. Scan!GoesOn(d)'
    <3>1. Scan!GoesOn(c)'
      BY <1>2, <2>2, <2>6, OthersGoOn
    <3>2. Scan!Differences' = Scan!Differences
      BY <1>2, SameDifferences
    <3>3. \A h : Scan!Past(d, h)' => Scan!Past(c, h)' \/ h = g
      BY <1>2, <1>3, <1>11 DEF Scan!Past
    <3>4. pc = "log" => c.prev.ratio = c8[g] /\ c.prev.ratio # c9[g] /\ c.prev.ratio # 0
      BY <1>4, <1>7, <1>12, <2>3 DEF differs, Scan!IsRow
    <3>5. c8' = c8 /\ c9' = c9
      BY <1>2
    <3>6. /\ Keyed \subseteq d.want
          /\ d.first /\ c8' # Scan!Nothing' => c9' = Scan!Nothing'
          /\ \A h \in Offered : d.had[h] \in {c8'[h], c9'[h]}
      BY <1>2, <1>11, <3>1 DEF Scan!GoesOn, Scan!InScan
    <3>7. \A h \in Offered : Scan!Past(d, h)' \/ (c9'[h] = 0 /\ d.had[h] = 0) => Scan!New(h)'
      <4>1. d.had = c.had
        BY <1>11
      <4> QED
        BY <1>2, <2>5, <3>1, <3>3, <4>1 DEF Scan!GoesOn, Scan!InScan
    <3>8. d.got = c9' /\ d.batch \subseteq Scan!Differences'
      BY <1>11, <2>3, <2>9, <3>2, <3>5
    <3>9. d.pc # "write" /\ d.pc \in {"log", "loop"}
      BY <1>11, <1>12
    <3>10. d.pc = "log" => d.prev.ratio = c8'[d.group] /\ d.prev.ratio # c9'[d.group] /\ d.prev.ratio # 0
      BY <1>11, <1>12, <3>4, <3>5
    <3> QED
      BY <3>6, <3>7, <3>8, <3>9, <3>10 DEF Scan!GoesOn
  <2>11. \A h \in Offered : c2'[h].ratio = 0 => c2[h].ratio = 0
    BY <1>2, <2>3, <2>5 DEF Scan!New
  <2>12. \A h \in Keyed : c8 # Scan!Nothing /\ c8[h] # c9[h] /\ Scan!New(h)' => Scan!Noted(h)'
    <3> SUFFICES ASSUME NEW h \in Keyed, c8 # Scan!Nothing, c8[h] # c9[h], Scan!New(h)' PROVE Scan!Noted(h)'
      OBVIOUS
    <3>1. h \in Offered
      BY DEF LogAssumption, Scan!ScanAssumption
    <3>2. c5'[s] = d
      BY <1>10, <2>1 DEF Scan!ScanTypes
    <3>3. CASE Scan!Noted(h)
      BY <1>1, <1>2, <1>10, <1>11, <2>1, <2>9, <3>3, NotedStays
    <3>4. CASE ~Scan!Noted(h)
      <4>1. ~Scan!New(h)
        BY <2>1, <3>4 DEF Scan!PeriodInv
      <4>2. h = g
        BY <1>2, <2>5, <3>1, <4>1 DEF Scan!New
      <4>3. written /\ (known => differs)
        BY <2>3, <2>4, <4>1, <4>2 DEF differs
      <4>4. CASE known
        BY <1>11, <1>12, <3>2, <4>2, <4>3, <4>4 DEF Scan!Noted, group
      <4>5. CASE ~known
        <5>1. Scan!Difference(h)' \in c5'[s].batch
          BY <1>2, <1>11, <2>8, <3>2, <4>2, <4>3, <4>5, SameDifferences DEF batch
        <5> QED
          BY <5>1 DEF Scan!Noted
      <4> QED
        BY <4>4, <4>5
    <3> QED
      BY <3>3, <3>4
  <2>13. d.pc # "idle"
    BY <1>11, <1>12
  <2> QED
    BY <1>2, <1>10, <2>1, <2>6, <2>10, <2>11, <2>12, <2>13, PeriodMoves
<1> QED
  BY <1>2, <1>15, <1>16 DEF Scan!ScanInv

LEMMA IdleScan ==
    /\ Scan!IsScan(Scan!Idle) /\ Scan!Idle.pc = "idle" /\ Scan!Idle.batch = {}
    /\ Scan!Nothing \in [Offered -> Nat] /\ Scan!Nothing' = Scan!Nothing
BY DEF Scan!IsScan, Scan!Idle, Scan!Nothing

\* A scan that ends is past every group, and hands over its batch.
LEMMA FinishStep ==
    ASSUME LogAssumption, Scan!ScanInv, NEW s \in Scanners, Scan!Finish(s)
    PROVE  Scan!ScanInv'
<1>1. PICK c : c = c5[s]
  OBVIOUS
<1>2. PICK d : d = Scan!Idle
  OBVIOUS
<1>3. /\ Scan!IsScan(c) /\ c.pc = "loop" /\ c.todo = {}
      /\ UNCHANGED <<c1, c2, c3, c8, c9, c11>>
      /\ c10' = c10 \cup c.batch /\ c5' = [c5 EXCEPT ![s] = d]
      /\ \A g \in Offered : c.had[g] = 0 \/ c.got[g] # 0
  BY <1>1, <1>2, ScanRecord DEF Scan!ScanInv, Scan!Finish, Scan!At, Scan!Table, Scan!Leftover
<1>4. Scan!IsScan(d) /\ d.pc = "idle" /\ d.batch = {}
  BY <1>2, IdleScan
<1>5. Scan!ScanTypes'
  BY <1>3, <1>4, TypesMove DEF Scan!ScanInv, Scan!ScanTypes
<1>6. ASSUME ~c11 PROVE Scan!PeriodInv'
  <2>1. Scan!PeriodInv /\ Scan!ScanTypes
    BY <1>6 DEF Scan!ScanInv
  <2>2. Scan!GoesOn(c)
    BY <1>1, <2>1 DEF Scan!PeriodInv
  <2>3. \A g \in Offered : Scan!New(g)
    BY <1>3, <2>2 DEF Scan!GoesOn, Scan!InScan, Scan!Past
  <2>4. c5'[s] = d /\ \A t \in Scanners : t # s => c5'[t] = c5[t]
    BY <1>3, <2>1 DEF Scan!ScanTypes
  <2>5. Onward
    BY <1>3 DEF Onward
  <2>6. ASSUME NEW t \in Scanners PROVE Scan!GoesOn(c5[t])'
    <3>1. PICK e : e = c5'[t]
      OBVIOUS
    <3>2. Scan!GoesOn(e)'
      <4>1. CASE t = s
        BY <1>4, <2>4, <3>1, <4>1 DEF Scan!GoesOn, Scan!InScan
      <4>2. CASE t # s
        <5>1. Scan!IsScan(e) /\ Scan!GoesOn(e)
          BY <2>1, <2>4, <3>1, <4>2 DEF Scan!ScanTypes, Scan!PeriodInv
        <5> QED
          BY <1>3, <2>5, <5>1, OthersGoOn
      <4> QED
        BY <4>1, <4>2
    <3> QED
      BY <3>1, <3>2 DEF Scan!GoesOn, Scan!InScan, Scan!Past
  <2>7. c10' \subseteq Scan!Differences'
    BY <1>3, <2>1, <2>2, SameDifferences DEF Scan!PeriodInv, Scan!GoesOn
  <2>8. \A g \in Keyed : c8 # Scan!Nothing /\ c8[g] # c9[g] => Scan!Noted(g)'
    <3> SUFFICES ASSUME NEW g \in Keyed, c8 # Scan!Nothing, c8[g] # c9[g] PROVE Scan!Noted(g)'
      OBVIOUS
    <3>1. Scan!Noted(g)
      BY <2>1, <2>3 DEF Scan!PeriodInv, LogAssumption, Scan!ScanAssumption
    <3>2. Scan!Difference(g)' = Scan!Difference(g)
      BY <1>3, SameDifferences
    <3>3. CASE Scan!Difference(g) \in c10'
      BY <3>2, <3>3 DEF Scan!Noted
    <3>4. CASE Scan!Difference(g) \notin c10'
      <4>1. PICK t \in Scanners : Scan!Difference(g) \in c5[t].batch \/ (c5[t].pc = "log" /\ c5[t].group = g)
        BY <1>3, <3>1, <3>4 DEF Scan!Noted
      <4>2. t # s
        BY <1>1, <1>3, <3>4, <4>1
      <4> QED
        BY <2>4, <3>2, <4>1, <4>2 DEF Scan!Noted
    <3> QED
      BY <3>3, <3>4
  <2> QED
    BY <1>3, <2>1, <2>3, <2>6, <2>7, <2>8, IdleScan DEF Scan!PeriodInv, Scan!New
<1> QED
  BY <1>3, <1>5, <1>6 DEF Scan!ScanInv

\* The first of several scans opens the period, where no row is on its way; another
\* one is told the same, or the period is mixed.
LEMMA FetchStep ==
    ASSUME LogAssumption, Scan!ScanInv, NEW s \in Scanners, Scan!Fetch(s)
    PROVE  Scan!ScanInv'
<1>1. PICK d : d = [Scan!Idle EXCEPT !.pc = "list", !.got = c1]
  OBVIOUS
<1>2. /\ d \in [pc : {"list"}, got : {c1}, had : {Scan!Nothing}, first : {FALSE}, want : {{}}, todo : {{}},
                group : {Nil}, prev : {Scan!NoRow}, batch : {{}}]
  BY <1>1 DEF Scan!Idle
<1>3. /\ UNCHANGED <<c1, c2, c3>> /\ c5[s].pc = "idle" /\ c5' = [c5 EXCEPT ![s] = d] /\ c1 \in [Offered -> Nat]
  BY <1>1 DEF Scan!Fetch, Scan!At, Scan!Table, Scan!ScanInv, Scan!ScanTypes
<1>4. Scan!IsScan(d)
  BY <1>2, <1>3, IdleScan DEF Scan!IsScan
<1>5. CASE Scan!Working = {}
  <2>1. c8' = Scan!RatioOf(c2) /\ c9' = c1 /\ c10' = {} /\ ~c11'
    BY <1>5 DEF Scan!Fetch
  <2>2. c8' \in [Offered -> Nat] /\ \A g \in Offered : c8'[g] = c2[g].ratio
    BY <2>1 DEF Scan!ScanInv, Scan!ScanTypes, Scan!IsRow, Scan!RatioOf
  <2>3. Scan!ScanTypes'
    BY <1>3, <1>4, <2>1, <2>2, TypesMove DEF Scan!ScanInv, Scan!ScanTypes
  <2>4. c5'[s] = d /\ \A t \in Scanners : t # s => c5'[t] = c5[t] /\ c5[t].pc = "idle" /\ Scan!IsScan(c5[t])
    BY <1>3, <1>5 DEF Scan!ScanInv, Scan!ScanTypes, Scan!Working, Scan!At
  <2>5. ASSUME NEW t \in Scanners PROVE Scan!GoesOn(c5[t])'
    <3>1. PICK e : e = c5'[t]
      OBVIOUS
    <3>2. e.pc \in {"idle", "list"} /\ e.batch = {} /\ (e.pc = "list" => e.got = c9')
      BY <1>2, <2>1, <2>4, <3>1, IdleScan DEF Scan!IsScan
    <3> QED
      BY <3>1, <3>2 DEF Scan!GoesOn, Scan!InScan
  <2>6. Scan!Working' # {}
    BY <1>2, <2>4 DEF Scan!Working, Scan!At
  <2>7. Keyed \subseteq Offered
    BY DEF LogAssumption, Scan!ScanAssumption
  <2>8. Scan!PeriodInv'
    BY <1>3, <2>1, <2>2, <2>5, <2>6, <2>7 DEF Scan!PeriodInv, Scan!New
  <2> QED
    BY <2>3, <2>8 DEF Scan!ScanInv
<1>6. CASE Scan!Working # {}
  <2>1. UNCHANGED <<c8, c9, c10>> /\ c11' = (c11 \/ c9 # c1)
    BY <1>6 DEF Scan!Fetch
  <2>2. Scan!ScanTypes'
    BY <1>3, <1>4, <2>1, TypesMove DEF Scan!ScanInv, Scan!ScanTypes
  <2>3. ASSUME ~c11' PROVE Scan!PeriodInv'
    <3>1. Scan!PeriodInv /\ Scan!ScanTypes /\ c9 = c1
      BY <2>1, <2>3 DEF Scan!ScanInv
    <3>2. Scan!GoesOn(d)'
      BY <1>2, <2>1, <3>1 DEF Scan!GoesOn, Scan!InScan
    <3>3. Onward
      BY <1>3 DEF Onward
    <3>4. Scan!IsScan(c5[s])
      BY <3>1 DEF Scan!ScanTypes
    <3>5. c5[s].batch = {}
      BY <1>3, <3>4, IdleScan DEF Scan!IsScan
    <3>6. \A h \in Keyed : c8 # Scan!Nothing /\ c8[h] # c9[h] /\ Scan!New(h)' => Scan!Noted(h)'
      <4> SUFFICES ASSUME NEW h \in Keyed, c8 # Scan!Nothing, c8[h] # c9[h], Scan!New(h)' PROVE Scan!Noted(h)'
        OBVIOUS
      <4>1. Scan!Noted(h)
        BY <1>3, <2>1, <3>1 DEF Scan!PeriodInv, Scan!New
      <4> QED
        BY <1>3, <2>1, <3>1, <3>5, <4>1, NotedStays
    <3> QED
      BY <1>2, <1>3, <2>1, <3>1, <3>2, <3>3, <3>6, PeriodMoves
  <2> QED
    BY <2>2, <2>3 DEF Scan!ScanInv
<1> QED
  BY <1>5, <1>6

\* The invariant is about the rows, the goroutines and the witnesses.
LEMMA ScanRest ==
    ASSUME Scan!ScanInv, UNCHANGED <<c2, c3, c5, c8, c9, c10, c11>>, c1' \in [Offered -> Nat]
    PROVE  Scan!ScanInv'
BY DEF Scan!ScanInv, Scan!ScanTypes, Scan!PeriodInv, Scan!New, Scan!Noted, Scan!Difference, Scan!Differences,
       Scan!GoesOn, Scan!InScan, Scan!Past, Scan!Working, Scan!At, Scan!IsScan, Scan!IsRow, Scan!Nothing

LEMMA ScanStep ==
    ASSUME LogAssumption, Scan!ScanInv, Scan!Next
    PROVE  Scan!ScanInv'
<1>1. ASSUME NEW s \in Scanners, Scan!ScanStep(s) PROVE Scan!ScanInv'
  BY <1>1, FetchStep, ListStep, WriteStep, LogStep, FinishStep, FindStep, DropStep DEF Scan!ScanStep
<1>2. ASSUME NEW g \in Offered, NEW r \in Ratios \cup {0}, Scan!Move(g, r) PROVE Scan!ScanInv'
  <2>1. r \in Nat
    BY DEF LogAssumption, Scan!ScanAssumption
  <2>2. c1' \in [Offered -> Nat] /\ UNCHANGED <<c2, c3, c5, c8, c9, c10, c11>>
    BY <1>2, <2>1 DEF Scan!Move, Scan!Table, Scan!Witness, Scan!ScanInv, Scan!ScanTypes
  <2> QED
    BY <2>2, ScanRest
<1>3. CASE Scan!Crash
  <2>1. c11' /\ UNCHANGED <<c1, c2, c3, c8, c9>> /\ c5' = [s \in Scanners |-> Scan!Idle]
    BY <1>3 DEF Scan!Crash, Scan!Table
  <2>2. c5' \in [Scanners -> {c5'[s] : s \in Scanners}] /\ \A s \in Scanners : Scan!IsScan(c5'[s])
    BY <2>1, IdleScan
  <2>3. Scan!ScanTypes'
    BY <2>1, <2>2 DEF Scan!ScanInv, Scan!ScanTypes, Scan!IsScan, Scan!IsRow
  <2> QED
    BY <2>1, <2>3 DEF Scan!ScanInv
<1> QED
  BY <1>1, <1>2, <1>3 DEF Scan!Next

LEMMA ScanStarts ==
    ASSUME LogAssumption, Scan!Init
    PROVE  Scan!ScanInv
<1>1. c1 \in [Offered -> Nat] /\ \A g \in Offered : c1[g] \in Nat
  <2>1. c1 \in [Offered -> Ratios \cup {0}]
    BY DEF Scan!Init
  <2>2. Ratios \cup {0} \subseteq Nat
    BY DEF LogAssumption, Scan!ScanAssumption
  <2> QED
    BY <2>1, <2>2
<1>2. c2 \in [Offered -> {c2[g] : g \in Offered}] /\ (\A g \in Offered : Scan!IsRow(c2[g])) /\ c3 \in Nat
  BY <1>1 DEF Scan!Init, Scan!IsRow, Scan!NoRow
<1>3. c8 \in [Offered -> Nat] /\ c9 = c8 /\ (\A g \in Offered : c8[g] = c2[g].ratio) /\ c10 = {}
  BY <1>2 DEF Scan!Init, Scan!RatioOf, Scan!IsRow
<1>4. c5 = [s \in Scanners |-> Scan!Idle]
  BY DEF Scan!Init
<1>5. Scan!ScanTypes
  BY <1>1, <1>2, <1>3, <1>4, IdleScan DEF Scan!ScanTypes
<1>6. \A s \in Scanners : Scan!GoesOn(c5[s])
  BY <1>4, IdleScan DEF Scan!GoesOn, Scan!InScan
<1>7. Keyed \subseteq Offered
  BY DEF LogAssumption, Scan!ScanAssumption
<1>8. Scan!PeriodInv
  BY <1>3, <1>6, <1>7 DEF Scan!PeriodInv, Scan!New
<1> QED
  BY <1>5, <1>8 DEF Scan!ScanInv

\* When all scans have ended, all rows are new, and what is noted has been heard.
LEMMA ReportIsDifference ==
    ASSUME LogAssumption, Scan!ScanInv
    PROVE  Scan!QuietReportIsDifference
<1> SUFFICES ASSUME Scan!Working = {}, ~c11
             PROVE  /\ c10 \subseteq Scan!Differences
                    /\ c8 # Scan!Nothing => {n \in Scan!Differences : n.group \in Keyed} \subseteq c10
  BY DEF Scan!QuietReportIsDifference, Scan!Quiet, Scan!Differences, Scan!Difference
<1>1. Scan!PeriodInv /\ Scan!ScanTypes
  BY DEF Scan!ScanInv
<1>2. \A g \in Keyed : c8 # Scan!Nothing /\ c8[g] # c9[g] => Scan!Noted(g)
  BY <1>1 DEF Scan!PeriodInv, LogAssumption, Scan!ScanAssumption
<1>3. \A s \in Scanners : c5[s].pc = "idle" /\ c5[s].batch = {}
  <2> SUFFICES ASSUME NEW s \in Scanners PROVE c5[s].pc = "idle" /\ c5[s].batch = {}
    OBVIOUS
  <2>1. c5[s].pc = "idle" /\ Scan!IsScan(c5[s])
    BY <1>1 DEF Scan!Working, Scan!At, Scan!ScanTypes
  <2> QED
    BY <2>1, IdleScan DEF Scan!IsScan
<1>4. \A g \in Keyed : c8 # Scan!Nothing /\ c8[g] # c9[g] => Scan!Difference(g) \in c10
  BY <1>2, <1>3 DEF Scan!Noted
<1>5. \A g : Scan!Difference(g).group = g
  BY DEF Scan!Difference, Scan!Report
<1>6. ASSUME c8 # Scan!Nothing, NEW n \in Scan!Differences, n.group \in Keyed
      PROVE  n \in c10
  <2>1. PICK g \in Offered : n = Scan!Difference(g) /\ c8[g] # c9[g]
    BY DEF Scan!Differences
  <2> QED
    BY <1>4, <1>5, <1>6, <2>1
<1> QED
  BY <1>1, <1>6 DEF Scan!PeriodInv

-----------------------------------------------------------------------------
(* The parts together *)

\* Each part has its own invariant, and the parts share no state.
PartInv ==
    /\ part = "settings" => Config!ApplyInv
    /\ part = "notify" => Notify!CallInv
    /\ part = "keys" => Keys!TargetInv
    /\ part = "login" => Login!LoginInv
    /\ part = "pay" => Pay!OrderInv
    /\ part = "sync" => Sync!StripInv
    /\ part = "lists" => Lists!SaveInv
    /\ part = "auth" => Auth!TokenInv
    /\ part = "redeem" => Code!TypedInv

LEMMA PartsStart == MCInit => PartInv
BY ConsoleAssumption, SettingsStart, NotifyStarts, KeysStart, LoginStart, PayStarts, SyncStarts, ListsStart,
   AuthStarts, CodeStarts DEF MCInit, PartInv

LEMMA PartsStep ==
    ASSUME PartInv, MCNext PROVE PartInv'
<1>1. part' = part
  BY DEF MCNext
<1>2. CASE part = "settings"
  BY <1>1, <1>2, SettingsStep DEF MCNext, PartInv
<1>3. CASE part = "notify"
  BY <1>1, <1>3, NotifyStep DEF MCNext, PartInv
<1>4. CASE part = "keys"
  BY <1>1, <1>4, KeysStep DEF MCNext, PartInv
<1>5. CASE part = "login"
  BY <1>1, <1>5, ConsoleAssumption, LoginStep DEF MCNext, PartInv
<1>6. CASE part = "pay"
  BY <1>1, <1>6, PayStep DEF MCNext, PartInv
<1>7. CASE part = "sync"
  BY <1>1, <1>7, SyncStep DEF MCNext, PartInv
<1>8. CASE part = "lists"
  BY <1>1, <1>8, ListsStep DEF MCNext, PartInv
<1>9. CASE part = "auth"
  BY <1>1, <1>9, AuthStep DEF MCNext, PartInv
<1>10. CASE part = "redeem"
  BY <1>1, <1>10, CodeStep DEF MCNext, PartInv
<1> QED
  BY <1>1, <1>2, <1>3, <1>4, <1>5, <1>6, <1>7, <1>8, <1>9, <1>10 DEF PartInv

LEMMA PartsRest ==
    ASSUME PartInv, UNCHANGED allVars PROVE PartInv'
<1>1. UNCHANGED part
  BY DEF allVars
<1>2. CASE part = "settings"
  BY <1>2, <1>1 DEF allVars, PartInv, Config!ApplyInv, Config!ApplyTypes, Config!KnowsItsLoss,
     Config!OneApplication, Config!Applies, Config!Alone, Config!Stage, Config!IsCall
<1>3. CASE part = "notify"
  BY <1>3, <1>1 DEF allVars, PartInv, Notify!CallInv
<1>4. CASE part = "keys"
  BY <1>4, <1>1 DEF allVars, PartInv, Keys!TargetInv, Keys!TargetTypes, Keys!OneWrite, Keys!TargetIsChecked,
     Keys!SecretIsThisChannels, Keys!Open
<1>5. CASE part = "login"
  BY <1>5, <1>1 DEF allVars, PartInv, Login!LoginInv, Login!LoginTypes, Login!EditInv, Login!JobInv,
     Login!TokenIsLatest, Login!SessionIsOfItsUser
<1>6. CASE part = "pay"
  BY <1>6, <1>1 DEF allVars, PartInv, Pay!OrderInv, Pay!LaunchPaysThisChannel, Pay!Open, Pay!IsOrder
<1>7. CASE part = "sync"
  BY <1>7, <1>1 DEF allVars, PartInv, Sync!StripInv, Sync!StripTypes
<1>8. CASE part = "lists"
  BY <1>8, <1>1 DEF allVars, PartInv, Lists!SaveInv, Lists!SaveTypes, Lists!OneSave, Lists!SaveIsCurrent
<1>9. CASE part = "auth"
  BY <1>9, <1>1 DEF allVars, PartInv, Auth!TokenInv
<1>10. CASE part = "redeem"
  BY <1>10, <1>1 DEF allVars, PartInv, Code!TypedInv
<1> QED
  BY <1>1, <1>2, <1>3, <1>4, <1>5, <1>6, <1>7, <1>8, <1>9, <1>10 DEF PartInv

LEMMA PartsKept == MCSpec => []PartInv
<1>1. PartInv /\ [MCNext]_allVars => PartInv'
  BY PartsStep, PartsRest
<1> QED
  BY PartsStart, <1>1, PTL DEF MCSpec

\* Secrets and payments stay with the channel and the user they were made for, a
\* token that can be refreshed is the last one the upstream gave out, orders are
\* placed one at a time, and one scheduler runs, unless two wrote across each other:
\* ApiKeys, ChannelLogin, Recharge, Settings.
THEOREM SecretsStayWithTheirOwner == MCSpec => []OwnAndOnly
<1>1. PartInv => OwnAndOnly
  BY OneOrder, SettingsOneScheduler DEF PartInv, OwnAndOnly, Keys!TargetInv, Login!LoginInv, Pay!OrderInv
<1> QED
  BY PartsKept, <1>1, PTL

LEMMA RequestsAreTyped ==
    ASSUME PartInv, [MCNext]_allVars PROVE RequestStep
<1>1. CASE UNCHANGED allVars
  BY <1>1 DEF allVars, RequestStep, Notify!ConfigStep, Login!CredentialStep, Lists!KeyStep, Keys!TargetStep,
     Pay!OfferedStep, Code!SentAsTyped
<1>2. CASE MCNext
  <2>1. part = "notify" => Notify!ConfigStep
    BY <1>2, NotifyStep DEF MCNext, PartInv
  <2>2. part = "login" => Login!CredentialStep
    BY <1>2, LoginKeepsCredential DEF MCNext, PartInv
  <2>3. part = "lists" => Lists!KeyStep
    BY <1>2, ListsKeyStep DEF MCNext, PartInv
  <2>4. part = "keys" => Keys!TargetStep
    BY <1>2, KeysStep DEF MCNext, PartInv
  <2>5. part = "pay" => Pay!OfferedStep
    BY <1>2, PayStep DEF MCNext, PartInv
  <2>6. part = "redeem" => Code!SentAsTyped
    BY <1>2, CodeSentAsTyped DEF MCNext, PartInv
  <2> QED
    BY <2>1, <2>2, <2>3, <2>4, <2>5, <2>6 DEF RequestStep
<1> QED
  BY <1>1, <1>2

\* A stored secret changes only when its user has typed another one, and a request
\* that costs money or moves a key names what the dialog had offered and validated:
\* NotifyForm, ChannelLogin, ServiceLists, ApiKeys, Recharge, Redeem.
THEOREM SecretsChangeOnlyAsTyped == MCSpec => OnlyAsTyped
<1>1. PartInv /\ [MCNext]_allVars => [RequestStep]_allVars
  BY RequestsAreTyped
<1> QED
  BY PartsKept, <1>1, PTL DEF MCSpec, OnlyAsTyped

LEMMA OthersAreKept ==
    ASSUME PartInv, [MCNext]_allVars PROVE KeptStep
<1>1. CASE UNCHANGED allVars
  BY <1>1 DEF allVars, KeptStep, Config!RestStep, Sync!FailureKept, Auth!LiveTokenStep
<1>2. CASE MCNext
  <2>1. part = "settings" => Config!RestStep
    BY <1>2, SettingsKeepRest DEF MCNext, PartInv
  <2>2. part = "sync" => Sync!FailureKept
    BY <1>2, SyncKeepsFailure DEF MCNext, PartInv
  <2>3. part = "auth" => Auth!LiveTokenStep
    BY <1>2, AuthKeepsLiveToken DEF MCNext, PartInv
  <2> QED
    BY <2>1, <2>2, <2>3 DEF KeptStep
<1> QED
  BY <1>1, <1>2

\* What nobody has touched survives the steps of others: the sections of the
\* configuration that a save does not edit, a failure on a channel's strip, and a
\* session that is still accepted: Settings, ChannelSync, AuthSession.
THEOREM UntouchedSurvives == MCSpec => UntouchedIsKept
<1>1. PartInv /\ [MCNext]_allVars => [KeptStep]_allVars
  BY OthersAreKept
<1> QED
  BY PartsKept, <1>1, PTL DEF MCSpec, UntouchedIsKept

\* What the flags of the parts stand for, with what carries that from step to step.
FlagInv ==
    /\ part = "settings" => Config!PendingInv
    /\ part = "sync" => Sync!ShownInv
    /\ part = "lists" => Lists!BusyNamesACall
    /\ part = "fetch" => Fetch!WakeInv
    /\ part = "again" => Again!WakeInv
    /\ part = "scan" => Scan!ScanInv
    /\ part = "feed" => Feed!OnePage
    /\ part = "redeem" => Code!OneCode

LEMMA FlagsStart == MCInit => FlagInv
<1> SUFFICES ASSUME MCInit PROVE FlagInv
  OBVIOUS
<1>1. part = "settings" => Config!PendingInv
  BY PendingStarts DEF MCInit
<1>2. part = "sync" => Sync!ShownInv
  <2> SUFFICES ASSUME Sync!Init PROVE Sync!ShownInv
    BY DEF MCInit
  <2>1. ~Sync!Closed.live
    BY FreshIsStrip
  <2>2. c5 = [k \in Channels \cup {All} |-> Sync!Closed] /\ ~c4.running
    BY DEF Sync!Init
  <2>3. \A c \in Channels : ~c2[c].running
    BY DEF Sync!Init, Sync!NoStrip, Sync!Fresh
  <2> QED
    BY <2>1, <2>2, <2>3 DEF Sync!ShownInv
<1>3. part = "lists" => Lists!BusyNamesACall
  BY DEF MCInit, Lists!Init, Lists!BusyNamesACall, Lists!None
<1>4. part = "fetch" => Fetch!WakeInv
  BY Fetch!WakeStarts DEF MCInit
<1>5. part = "again" => Again!WakeInv
  BY Again!WakeStarts DEF MCInit
<1>6. part = "scan" => Scan!ScanInv
  BY LogAssumption, ScanStarts DEF MCInit
<1>7. part = "feed" => Feed!OnePage
  BY DEF MCInit, Feed!Init, Feed!OnePage
<1>8. part = "redeem" => Code!OneCode
  BY DEF MCInit, Code!Init, Code!OneCode
<1> QED
  BY <1>1, <1>2, <1>3, <1>4, <1>5, <1>6, <1>7, <1>8 DEF FlagInv

LEMMA FlagsStep ==
    ASSUME PartInv, FlagInv, MCNext PROVE FlagInv'
<1>1. part' = part
  BY DEF MCNext
<1>2. CASE part = "settings"
  BY <1>1, <1>2, PendingStep DEF MCNext, FlagInv, PartInv
<1>3. CASE part = "sync"
  BY <1>1, <1>3, ShownStep DEF MCNext, FlagInv, PartInv
<1>4. CASE part = "lists"
  BY <1>1, <1>4, ListsBusyStep DEF MCNext, FlagInv, PartInv
<1>5. CASE part = "fetch"
  BY <1>1, <1>5, Fetch!WakeStep DEF MCNext, FlagInv
<1>6. CASE part = "again"
  BY <1>1, <1>6, Again!WakeStep DEF MCNext, FlagInv
<1>7. CASE part = "scan"
  BY <1>1, <1>7, LogAssumption, ScanStep DEF MCNext, FlagInv
<1>8. CASE part = "feed"
  BY <1>1, <1>8, OnePageStep DEF MCNext, FlagInv
<1>9. CASE part = "redeem"
  BY <1>1, <1>9, OneCodeStep DEF MCNext, FlagInv
<1> QED
  BY <1>1, <1>2, <1>3, <1>4, <1>5, <1>6, <1>7, <1>8, <1>9 DEF FlagInv

LEMMA FlagsRest ==
    ASSUME FlagInv, UNCHANGED allVars PROVE FlagInv'
<1>1. UNCHANGED part
  BY DEF allVars
<1>2. CASE part = "settings"
  BY <1>1, <1>2 DEF allVars, FlagInv, Config!PendingInv, Config!KnownInv, Config!NoZero, Config!Honest,
     Config!Running, Config!OnTheWay
<1>3. CASE part = "sync"
  BY <1>1, <1>3 DEF allVars, FlagInv, Sync!ShownInv
<1>4. CASE part = "lists"
  BY <1>1, <1>4 DEF allVars, FlagInv, Lists!BusyNamesACall
<1>5. CASE part = "fetch"
  BY <1>1, <1>5 DEF allVars, FlagInv, Fetch!WakeInv, Fetch!WaitsForSomething, Fetch!Waits, Fetch!Mounted,
     Fetch!KeyOf
<1>6. CASE part = "again"
  BY <1>1, <1>6 DEF allVars, FlagInv, Again!WakeInv, Again!WaitsForSomething, Again!Waits, Again!Mounted,
     Again!KeyOf
<1>7. CASE part = "scan"
  <2>1. UNCHANGED <<c1, c2, c3, c5, c8, c9, c10, c11>>
    BY DEF allVars
  <2>2. Scan!ScanInv /\ c1' \in [Offered -> Nat]
    BY <1>7, <2>1 DEF FlagInv, Scan!ScanInv, Scan!ScanTypes
  <2>3. Scan!ScanInv'
    BY <2>1, <2>2, ScanRest
  <2> QED
    BY <1>1, <1>7, <2>3 DEF FlagInv
<1>8. CASE part = "feed"
  BY <1>1, <1>8 DEF allVars, FlagInv, Feed!OnePage
<1>9. CASE part = "redeem"
  BY <1>1, <1>9 DEF allVars, FlagInv, Code!OneCode
<1> QED
  BY <1>1, <1>2, <1>3, <1>4, <1>5, <1>6, <1>7, <1>8, <1>9 DEF FlagInv

\* A page that says "working", "waiting" or "not applied yet" has a call, a request or
\* a difference to wait for, what is under way says so, and what overlapping scans
\* report is what has changed: Settings, ServiceLists, SharedFetch, ChannelSync,
\* RateScan, LogFeed, Redeem.
THEOREM FlagsSayWhatIsUnderWay == MCSpec => []FlagsAreExact
<1>1. PartInv /\ FlagInv /\ [MCNext]_allVars => FlagInv'
  BY FlagsStep, FlagsRest
<1>2. PartInv /\ FlagInv => FlagsAreExact
  BY LogAssumption, PendingIsKnown, StreamIsShown, ReportIsDifference, PageIsShown, CodeIsShown
     DEF PartInv, FlagInv, FlagsAreExact, Fetch!WakeInv, Again!WakeInv
<1> QED
  BY PartsKept, FlagsStart, <1>1, <1>2, PTL DEF MCSpec
=============================================================================
