---------------------------- MODULE MCStreamAttempt ----------------------------
(***************************************************************************)
(* The two loops that forward a stream to a client, one run for both: an   *)
(* attempt over HTTP and a session over WebSocket.  The initial state      *)
(* chooses which runs, and the other stays where it is.                    *)
(***************************************************************************)
EXTENDS StreamAttempt

CONSTANTS UpSize, MaxSaid, MaxTurns   \* WsBridge

VARIABLES
    part,                                                \* which loop runs
    stage, gone, listen, upq, clq, reader, stays, up,    \* WsBridge
    said, turns, body, got, row, noted, crossed

Bridge == INSTANCE WsBridge WITH ChanSize <- UpSize, pc <- stage, here <- stays

ASSUME StreamAssumption /\ Bridge!BridgeAssumption

bridgeVars == <<stage, gone, listen, upq, clq, reader, stays, up, said, turns, body, got,
                row, noted, crossed>>
allVars == <<part, vars, bridgeVars>>

AttemptIdle == Init /\ mode = [converted |-> FALSE, armed |-> FALSE] /\ here

MCInit ==
    \/ part = "attempt" /\ Init /\ Bridge!Init
    \/ part = "bridge" /\ AttemptIdle /\ Bridge!Init

MCNext ==
    /\ UNCHANGED part
    /\ \/ part = "attempt" /\ Next /\ UNCHANGED bridgeVars
       \/ part = "bridge" /\ Bridge!Next /\ UNCHANGED vars

\* The fairness of either loop, as its module states and explains it.
MCSpec ==
    /\ MCInit /\ [][MCNext]_allVars
    /\ WF_vars(part = "attempt" /\ Expire)
    /\ WF_vars(part = "attempt" /\ Headers /\ late)
    /\ WF_vars(part = "attempt" /\ Select)
    /\ WF_vars(part = "attempt" /\ Put)
    /\ WF_vars(part = "attempt" /\ ScanCanceled)
    /\ WF_bridgeVars(part = "bridge" /\ Bridge!Dial)
    /\ WF_bridgeVars(part = "bridge" /\ Bridge!Select)
    /\ \A r \in {"up", "client"} :
          /\ WF_bridgeVars(part = "bridge" /\ Bridge!ReadFails(r))
          /\ WF_bridgeVars(part = "bridge" /\ Bridge!Put(r))

\* The properties, as the modules of the parts state and explain them.
TypesOK == TypeOK /\ Bridge!TypeOK

\* A session's client is told once how it ended, its bill is one row for all the
\* upstream has said, and a success is one the upstream has reported.
SessionIsSound == Bridge!ToldOnceAndAll /\ Bridge!OneRowOfAll /\ Bridge!VerdictIsUpstreams

\* No goroutine is left behind: an attempt ends, a session ends with its upstream,
\* and the readers with either.
LoopsEnd ==
    /\ part = "attempt" => GoroutinesEnd
    /\ Bridge!SessionEnds /\ Bridge!ReadersEnd
=============================================================================
