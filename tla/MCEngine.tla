------------------------------ MODULE MCEngine ------------------------------
(***************************************************************************)
(* The parts of the engine beside the order manager: approvals, the entry  *)
(* block, the bars of a live run, a replay and a split one; and the        *)
(* monitor outside.  They share no state, so a behaviour of all of them is *)
(* a behaviour of each: one runs while the others rest.                    *)
(***************************************************************************)
EXTENDS Approvals, EntryGate, LiveBars, MCReplay, Chunks, Heartbeat

CONSTANTS i1, i2           \* the intents

VARIABLE part              \* the part that runs

MCStarts == {4, 5}

(* Three sessions to split, after one of warm-up; bars are missing within  *)
(* windows, at their edges, for a session.                                 *)
MCHistories == {(0..15) \ gap : gap \in {{}, 4..7, 8..11, {4}, {7}, {8}, {9, 10}, {11, 12}}}

(* A run that is well, one that reconnects, one that failed, one that ended.*)
MCHealths ==
  {[ok |-> TRUE, error |-> h = "failed", running |-> h \in {"well", "reconnecting"},
    connected |-> h = "well"] : h \in {"well", "reconnecting", "failed", "ended"}}

Runs(name, step, vars) == IF part = name THEN step ELSE UNCHANGED vars

(* The monitor at rest: stopped, its loops over.                            *)
MonitorOver ==
  /\ endpoint = Unreachable /\ streamUp = FALSE /\ stopping = TRUE
  /\ healthPc = "done" /\ answer = NoAnswer /\ healthFailures = 0 /\ lastHealth = NoAnswer
  /\ streamPc = "done" /\ streamFailures = 0
  /\ alerts = {}

(* A part at rest has one initial state, in which none of its fair steps   *)
(* can be taken: fairness owes it nothing.                                 *)
EngineInit ==
  /\ part \in {"approvals", "gate", "live", "replay", "chunks", "monitor"}
  /\ ApprovalInit
  /\ GateInit /\ (part # "gate" => foreign = 0 /\ ~strange)
  /\ LiveInit /\ (part # "live" => begin = Min(Starts) /\ offline = {})
  /\ ReplayInit /\ (part # "replay" => pFirst /\ corpus = [i \in Instruments |-> AllMinutes])
  /\ ChunksInit /\ (part # "chunks" => first = Min(Firsts) /\ history = 0..15)
  /\ IF part = "monitor" THEN HeartbeatInit ELSE MonitorOver

EngineNext ==
  /\ part' = part
  /\ Runs("approvals", ApprovalNext, approvalVars)
  /\ Runs("gate", GateNext, gateVars)
  /\ Runs("live", LiveNext, liveVars)
  /\ Runs("replay", ReplayNext, replayVars)
  /\ Runs("chunks", ChunksNext, chunkVars)
  /\ Runs("monitor", HeartbeatNext, heartbeatVars)

EngineSpec ==
  /\ EngineInit
  /\ [][EngineNext]_<<part, approvalVars, gateVars, liveVars, replayVars, chunkVars,
                       heartbeatVars>>
  /\ ApprovalFairness /\ GateFairness /\ HeartbeatFairness
=============================================================================
