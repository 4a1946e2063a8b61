-------------------------------- MODULE WsBridge --------------------------------
(***************************************************************************)
(* A Responses session over WebSocket (backend/gateway/runtime_ws.go): the *)
(* client's first message selects a route, the gateway dials its upstream, *)
(* and a loop forwards messages both ways until the upstream says how the  *)
(* response ended.  Two goroutines read the connections into channels; the *)
(* loop selects among them in any order.  A client that leaves does not    *)
(* end the session, for the sake of the bill.  Nothing bounds its time.    *)
(*                                                                         *)
(* Abstractions: a message is what the loop tells apart:                   *)
(*   note   a text that ends nothing         bin  not a text               *)
(*   done   completed, done or incomplete    fail failed or cancelled      *)
(*   error  response.failed from the gateway itself                        *)
(* and the client's are create, which a system prompt may be injected      *)
(* into, other texts, and bin.                                             *)
(***************************************************************************)
EXTENDS Naturals, FiniteSets, Sequences, SequencesExt

CONSTANTS
    ChanSize,    \* capacity of upMessages, 32 in the code
    MaxSaid,     \* bound: messages of the upstream
    MaxTurns     \* bound: messages of the client after the first

BridgeAssumption == ChanSize \in Nat \ {0} /\ MaxSaid \in Nat /\ MaxTurns \in Nat

VARIABLES
    pc,       \* "first", "dial", "select", "end"
    gone,     \* clientDisconnected
    listen,   \* clientCh is not nil
    upq, clq, \* upMessages, clientMessages
    reader,   \* the goroutines: "off", "read", "put", "end", and what they hold
    here,     \* the client has not closed its connection
    up,       \* nor the upstream
    said,     \* witness: the upstream's messages
    turns,    \* the client's messages so far
    body,     \* texts of the upstream the loop has read, for the bill
    got,      \* what the client has received
    row,      \* usage rows of the session
    noted,    \* NoteSuccessForPauseError was called
    crossed   \* witness: a write to the upstream failed, or an injection did

loop == <<pc, gone, listen, body, got, row, noted, crossed>>
net == <<here, up, said, turns>>
vars == <<loop, upq, clq, reader, net>>

Said == {"note", "bin", "done", "fail"}
Turn == {"create", "text", "bin"}
Row == [ok : BOOLEAN, texts : 0..MaxSaid]

TypeOK ==
    /\ pc \in {"first", "dial", "select", "end"}
    /\ {gone, listen, here, up, noted, crossed} \subseteq BOOLEAN
    /\ upq \in Seq(Said \cup {"broken"}) /\ Len(upq) <= ChanSize
    /\ clq \in Seq(Turn \cup {"broken"}) /\ Len(clq) <= 1
    /\ reader \in [{"up", "client"} -> [pc : {"off", "read", "put", "end"},
                                       item : Said \cup Turn \cup {"none", "broken"}]]
    /\ said \in Seq(Said) /\ turns \in 0..MaxTurns /\ body \in 0..MaxSaid
    /\ got \in Seq(Said \cup {"error"}) /\ row \in Seq(Row)

Init ==
    /\ pc = "first" /\ gone = FALSE /\ listen = TRUE
    /\ upq = <<>> /\ clq = <<>>
    /\ reader = [r \in {"up", "client"} |-> [pc |-> "off", item |-> "none"]]
    /\ here = TRUE /\ up = TRUE /\ said = <<>> /\ turns = 0
    /\ body = 0 /\ got = <<>> /\ row = <<>> /\ noted = FALSE /\ crossed = FALSE

-----------------------------------------------------------------------------
(* Up to the loop *)

\* writeWSResponsesFailed, and any other write to the client: it may fail, or be
\* lost, if the client has left.
Writes(m) == {Append(got, m)} \cup (IF here THEN {} ELSE {got})

\* The session ends before there is anything to bill; a client that closes without
\* a first message is told nothing.
Refused(tells) ==
    /\ pc' = "end"
    /\ got' \in IF tells THEN Writes("error") ELSE {got}
    /\ UNCHANGED <<gone, listen, body, row, noted, crossed, upq, clq, reader, net>>

\* The first message: not a response.create, or no native route for its model, or
\* on to the upstream of the first route that has one.
First ==
    /\ pc = "first"
    /\ \/ ~here /\ Refused(FALSE)
       \/ Refused(TRUE)
       \/ pc' = "dial" /\ UNCHANGED <<gone, listen, body, got, row, noted, crossed, upq, clq, reader, net>>

\* Dial and the first write.  There is no second route: a failure ends the session.
Dial ==
    /\ pc = "dial"
    /\ \/ Refused(TRUE)
       \/ /\ up /\ pc' = "select"
          /\ reader' = [r \in {"up", "client"} |-> [pc |-> "read", item |-> "none"]]
          /\ UNCHANGED <<gone, listen, body, got, row, noted, crossed, upq, clq, net>>

-----------------------------------------------------------------------------
(* forwardResponsesWebSocket *)

\* recordWSResponsesUsage.
Recorded(ok, texts) == row' = Append(row, [ok |-> ok, texts |-> texts])

\* The loop returns with response.failed, which the client gets unless it has gone.
Breaks(texts) ==
    /\ pc' = "end" /\ Recorded(FALSE, texts)
    /\ got' \in IF gone THEN {got} ELSE Writes("error")
    /\ UNCHANGED <<gone, listen, body, noted>>

\* A message of the client: injected, rewritten and written to the upstream.  A
\* write to an upstream that has closed may go into a buffer.  The channels are
\* closed after an error only, and nobody receives from them afterwards.
ClientMessage ==
    /\ pc = "select" /\ listen /\ clq # <<>>
    /\ clq' = Tail(clq)
    /\ LET m == Head(clq) IN
       \/ /\ m = "broken"
          /\ gone' = TRUE /\ listen' = FALSE
          /\ UNCHANGED <<pc, body, got, row, noted, crossed>>
       \/ m # "broken" /\ UNCHANGED loop
       \/ m = "create" /\ crossed' = TRUE /\ Breaks(body)
       \/ m \in {"create", "text"} /\ ~up /\ crossed' = TRUE /\ Breaks(body)
    /\ UNCHANGED <<upq, reader, net>>

\* Which messages of the upstream the bill is made of.
Counted_WhileHere(m) == m # "bin" /\ ~gone
Counted(m) == m # "bin"

\* The client gets the message, or has gone.
Passed(m) ==
    \/ gone /\ UNCHANGED <<gone, got>>
    \/ ~gone /\ got' = Append(got, m) /\ UNCHANGED gone
    \/ ~gone /\ ~here /\ UNCHANGED got /\ gone' = (m # "bin")

\* wsResponsesTerminal: what a terminal message says.
Success_AnyEnd(m) == m \in {"done", "fail"}
Success(m) == m = "done"

\* Variant: a terminal message is recorded before it is passed on, and the loop returns.
Forward_EndsFirst(m) ==
    LET texts == IF Counted(m) THEN body + 1 ELSE body IN
    /\ body' = texts
    /\ IF m \in {"done", "fail"}
       THEN pc' = "end" /\ Recorded(Success(m), texts) /\ noted' = Success(m) /\ UNCHANGED <<gone, got>>
       ELSE Passed(m) /\ UNCHANGED <<pc, row, noted>>
    /\ UNCHANGED <<listen, crossed>>

\* A message of the upstream is passed on; a terminal one ends the session.
Forward(m) ==
    LET texts == IF Counted(m) THEN body + 1 ELSE body IN
    /\ body' = texts /\ Passed(m)
    /\ IF m \in {"done", "fail"}
       THEN pc' = "end" /\ Recorded(Success(m), texts) /\ noted' = Success(m)
       ELSE UNCHANGED <<pc, row, noted>>
    /\ UNCHANGED <<listen, crossed>>

UpMessage ==
    /\ pc = "select" /\ upq # <<>>
    /\ upq' = Tail(upq)
    /\ IF Head(upq) = "broken" THEN Breaks(body) /\ UNCHANGED crossed ELSE Forward(Head(upq))
    /\ UNCHANGED <<clq, reader, net>>

Select == ClientMessage \/ UpMessage

-----------------------------------------------------------------------------
(* wsReadLoop, twice *)

Holds(r, p, item) == reader' = [reader EXCEPT ![r] = [pc |-> p, item |-> item]]

\* The upstream says something.
UpSays ==
    /\ reader["up"].pc = "read" /\ up /\ pc # "end" /\ Len(said) < MaxSaid
    /\ \E m \in Said : Holds("up", "put", m) /\ said' = Append(said, m)
    /\ UNCHANGED <<loop, upq, clq, here, up, turns>>

\* The client says something.
ClientSays ==
    /\ reader["client"].pc = "read" /\ here /\ pc # "end" /\ turns < MaxTurns
    /\ \E m \in Turn : Holds("client", "put", m)
    /\ turns' = turns + 1
    /\ UNCHANGED <<loop, upq, clq, here, up, said>>

\* A read fails: the connection is closed, by its other side or by the loop, whose
\* return cancels the context as well.
ReadFails(r) ==
    /\ reader[r].pc = "read"
    /\ pc = "end" \/ (IF r = "up" THEN ~up ELSE ~here)
    /\ Holds(r, "put", "broken")
    /\ UNCHANGED <<loop, upq, clq, net>>

Handed(r) == Holds(r, IF reader[r].item = "broken" THEN "end" ELSE "read", "none")

\* Variant: the reader does not listen to the context.
Put_Blocks(r) ==
    /\ reader[r].pc = "put"
    /\ \/ r = "up" /\ Len(upq) < ChanSize /\ upq' = Append(upq, reader[r].item) /\ UNCHANGED clq
       \/ r = "client" /\ clq = <<>> /\ clq' = <<reader[r].item>> /\ UNCHANGED upq
    /\ Handed(r)
    /\ UNCHANGED <<loop, net>>

\* Into the channel, or home once the loop has returned.
Put(r) ==
    /\ reader[r].pc = "put"
    /\ \/ /\ r = "up" /\ Len(upq) < ChanSize /\ upq' = Append(upq, reader[r].item)
          /\ Handed(r) /\ UNCHANGED clq
       \/ /\ r = "client" /\ clq = <<>> /\ clq' = <<reader[r].item>>
          /\ Handed(r) /\ UNCHANGED upq
       \/ pc = "end" /\ Holds(r, "end", "none") /\ UNCHANGED <<upq, clq>>
    /\ UNCHANGED <<loop, net>>

ClientLeaves == here /\ here' = FALSE /\ UNCHANGED <<loop, upq, clq, reader, up, said, turns>>
UpCloses == up /\ up' = FALSE /\ UNCHANGED <<loop, upq, clq, reader, here, said, turns>>

-----------------------------------------------------------------------------
Over == pc = "end" /\ UNCHANGED vars

Next ==
    \/ First \/ Dial \/ Select \/ UpSays \/ ClientSays
    \/ \E r \in {"up", "client"} : ReadFails(r) \/ Put(r)
    \/ ClientLeaves \/ UpCloses \/ Over

Spec == Init /\ [][Next]_vars

\* Goroutines that can run do run, and a write to either side returns.  Nothing is
\* assumed of what the client and the upstream say, or whether.
Fairness ==
    /\ WF_vars(Dial) /\ WF_vars(Select)
    /\ \A r \in {"up", "client"} : WF_vars(ReadFails(r)) /\ WF_vars(Put(r))

-----------------------------------------------------------------------------
(* Properties *)

Terminal == {"done", "fail", "error"}

\* A client that stays is told exactly once how its response ended, last of all,
\* and before that has got everything the upstream said, in order.
ToldOnceAndAll ==
    /\ \A i \in 1..Len(got) : got[i] \in Terminal => i = Len(got)
    /\ pc = "end" /\ here => got # <<>> /\ Last(got) \in Terminal
    /\ here => \A i \in 1..Len(got) : got[i] = "error" \/ (i <= Len(said) /\ got[i] = said[i])

\* What the upstream said up to the end of the response.
Response ==
    LET ends == {i \in 1..Len(said) : said[i] \in Terminal}
    IN {i \in 1..Len(said) : \A j \in ends : i <= j}

\* A session that has reached its upstream leaves one usage row, and its bill is
\* for every text of the response, whether the client stayed or not, unless a write
\* to the upstream has failed.
OneRowOfAll ==
    LET texts == Cardinality({i \in Response : said[i] # "bin"}) IN
    /\ Len(row) = (IF pc = "end" /\ reader["up"].pc # "off" THEN 1 ELSE 0)
    /\ row # <<>> => IF crossed THEN row[1].texts <= texts ELSE row[1].texts = texts

\* A response is recorded as a success, and noted for the route's recovery, if the
\* upstream has completed it, and only then; but for a message of the client that
\* met the upstream's closing before the loop had read the end.
VerdictIsUpstreams ==
    row # <<>> =>
        /\ row[1].ok = (~crossed /\ \E i \in Response : said[i] = "done")
        /\ noted = row[1].ok

\* Once the upstream has ended, by a message or by closing, so does the session,
\* whatever the client does.
SessionEnds == (pc = "select" /\ ~up) ~> (pc = "end")

\* And its readers with it, one of them perhaps before a full channel.
ReadersEnd == pc = "end" ~> \A r \in {"up", "client"} : reader[r].pc \in {"off", "end"}
=============================================================================
