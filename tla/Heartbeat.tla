------------------------------ MODULE Heartbeat ------------------------------
(***************************************************************************)
(* tools/heartbeat_monitor.py: a process beside the trading runtime that   *)
(* polls its health endpoint and keeps its event stream connected, in two  *)
(* asyncio tasks that share the alerts and a stop event.  A request runs   *)
(* in a thread, so the stream's task runs while it waits.                  *)
(*                                                                         *)
(* The endpoint and the stream fail and recover on their own.  Failures    *)
(* are counted up to FailureThreshold: the code only compares with it.     *)
(***************************************************************************)
EXTENDS Integers

CONSTANTS
  Healths,           \* what the endpoint may answer
  FailureThreshold,  \* failure_threshold
  ExpectRunning,     \* expect_running
  ExpectConnected,   \* expect_connected
  Unreachable,       \* in place of an answer: the request raises
  NoAnswer           \* no answer yet

ASSUME HeartbeatConstants ==
  /\ Healths \subseteq [ok : BOOLEAN, error : BOOLEAN, running : BOOLEAN, connected : BOOLEAN]
  /\ FailureThreshold \in Nat \ {0}
  /\ ExpectRunning \in BOOLEAN /\ ExpectConnected \in BOOLEAN
  /\ Unreachable \notin Healths /\ NoAnswer \notin Healths /\ Unreachable # NoAnswer

VARIABLES
  endpoint,          \* what a request would get: an answer or Unreachable
  streamUp,          \* does the event stream accept and keep connections
  stopping,          \* _stop
  healthPc, answer,  \* health_loop, and what its thread got
  healthFailures,    \* consecutive_health_failures
  lastHealth,        \* last_health
  streamPc,          \* websocket_loop
  streamFailures,    \* consecutive_ws_failures
  alerts             \* the codes of active_alerts

healthLoop == <<healthPc, answer, healthFailures, lastHealth>>
streamLoop == <<streamPc, streamFailures>>
world == <<endpoint, streamUp, stopping>>
heartbeatVars == <<world, healthLoop, streamLoop, alerts>>

HealthCodes == {"api_status_unhealthy", "engine_error", "engine_not_running",
                "engine_not_connected"}

(* evaluate_health.                                                         *)
EvaluateHealth(h) ==
  {c \in HealthCodes :
     \/ c = "api_status_unhealthy" /\ ~h.ok
     \/ c = "engine_error" /\ h.error
     \/ c = "engine_not_running" /\ ExpectRunning /\ ~h.running
     \/ c = "engine_not_connected" /\ ExpectConnected /\ h.running /\ ~h.connected}

(* AlertEmitter: an alert is active under its code, once.                   *)
EmitOnce(active, codes) == active \cup codes
Resolve(active, codes) == active \ codes

OneMore(failures) == IF failures < FailureThreshold THEN failures + 1 ELSE failures
Reached(failures, code) == IF failures = FailureThreshold THEN {code} ELSE {}

HeartbeatInit ==
  /\ endpoint \in Healths \cup {Unreachable} /\ streamUp \in BOOLEAN /\ stopping = FALSE
  /\ healthPc = "ask" /\ answer = NoAnswer /\ healthFailures = 0 /\ lastHealth = NoAnswer
  /\ streamPc = "connect" /\ streamFailures = 0
  /\ alerts = {}

-----------------------------------------------------------------------------
(* check_health_once in health_loop. *)

AskHealth ==
  /\ healthPc = "ask"
  /\ healthPc' = IF stopping THEN "done" ELSE "asking"
  /\ UNCHANGED <<world, answer, healthFailures, lastHealth, streamLoop, alerts>>

(* The endpoint's answer, or an exception at once or after the timeout.     *)
RequestReturns ==
  /\ healthPc = "asking" /\ answer' = endpoint /\ healthPc' = "asked"
  /\ UNCHANGED <<world, healthFailures, lastHealth, streamLoop, alerts>>

RequestFails ==
  /\ healthPc = "asked" /\ answer = Unreachable
  /\ healthFailures' = OneMore(healthFailures)
  /\ alerts' = EmitOnce(alerts, Reached(healthFailures', "api_health_unreachable"))
  /\ healthPc' = "sleep" /\ answer' = NoAnswer
  /\ UNCHANGED <<world, lastHealth, streamLoop>>

(* Faulty variant: only the codes of the answer are gone through.           *)
TellHealthKeeping(h) ==
  EmitOnce(Resolve(alerts, {"api_health_unreachable"}), EvaluateHealth(h))
(* The codes of the answer are raised, the others resolved.                 *)
TellHealth(h) ==
  Resolve(EmitOnce(Resolve(alerts, {"api_health_unreachable"}), EvaluateHealth(h)),
          HealthCodes \ EvaluateHealth(h))

RequestAnswered ==
  /\ healthPc = "asked" /\ answer # Unreachable
  /\ healthFailures' = 0 /\ lastHealth' = answer
  /\ alerts' = TellHealth(answer)
  /\ healthPc' = "sleep" /\ answer' = NoAnswer
  /\ UNCHANGED <<world, streamLoop>>

(* The interval is over, or the stop event is set.                          *)
HealthWakes ==
  /\ healthPc = "sleep" /\ healthPc' = "ask"
  /\ UNCHANGED <<world, answer, healthFailures, lastHealth, streamLoop, alerts>>

HealthLoop == AskHealth \/ RequestReturns \/ RequestFails \/ RequestAnswered \/ HealthWakes

-----------------------------------------------------------------------------
(* websocket_loop. *)

StreamFailed ==
  /\ streamFailures' = OneMore(streamFailures)
  /\ alerts' = EmitOnce(alerts, Reached(streamFailures', "websocket_disconnected"))
  /\ streamPc' = "delay"
  /\ UNCHANGED <<world, healthLoop>>

StartConnecting ==
  /\ streamPc = "connect"
  /\ streamPc' = IF stopping THEN "done" ELSE "connecting"
  /\ UNCHANGED <<world, healthLoop, streamFailures, alerts>>

Connects ==
  /\ streamPc = "connecting" /\ streamUp
  /\ streamPc' = "open" /\ streamFailures' = 0
  /\ alerts' = Resolve(alerts, {"websocket_disconnected"})
  /\ UNCHANGED <<world, healthLoop>>

ConnectFails == streamPc = "connecting" /\ ~streamUp /\ StreamFailed

(* A receive raises, or a ping after a silence is not answered.             *)
ConnectionLost == streamPc = "open" /\ ~streamUp /\ StreamFailed

(* The stop event is looked at after each event and ping.                   *)
StreamStops ==
  /\ streamPc = "open" /\ stopping /\ streamPc' = "done"
  /\ UNCHANGED <<world, healthLoop, streamFailures, alerts>>

(* Faulty variant: the first exception ends the task.                       *)
StreamGivesUp ==
  /\ streamPc = "delay" /\ streamPc' = "done"
  /\ UNCHANGED <<world, healthLoop, streamFailures, alerts>>
(* The delay is over, or the stop event is set.                             *)
StreamWakes ==
  /\ streamPc = "delay" /\ streamPc' = "connect"
  /\ UNCHANGED <<world, healthLoop, streamFailures, alerts>>

StreamLoop ==
  StartConnecting \/ Connects \/ ConnectFails \/ ConnectionLost \/ StreamStops \/ StreamWakes

-----------------------------------------------------------------------------
(* Beside the monitor: the runtime, the network, and SIGINT or SIGTERM. *)

EndpointChanges ==
  /\ endpoint' \in (Healths \cup {Unreachable}) \ {endpoint}
  /\ UNCHANGED <<streamUp, stopping, healthLoop, streamLoop, alerts>>

StreamChanges ==
  /\ streamUp' = ~streamUp
  /\ UNCHANGED <<endpoint, stopping, healthLoop, streamLoop, alerts>>

Signal ==
  /\ ~stopping /\ stopping' = TRUE
  /\ UNCHANGED <<endpoint, streamUp, healthLoop, streamLoop, alerts>>

HeartbeatNext == HealthLoop \/ StreamLoop \/ EndpointChanges \/ StreamChanges \/ Signal

(* Requests, pings, sleeps end: each has a timeout.                         *)
HeartbeatFairness == WF_heartbeatVars(HealthLoop) /\ WF_heartbeatVars(StreamLoop)

HeartbeatSpec == HeartbeatInit /\ [][HeartbeatNext]_heartbeatVars /\ HeartbeatFairness

-----------------------------------------------------------------------------
(* Properties. *)

(* What the agent reads in the status file is what the monitor knows: the  *)
(* failures counted and the last answer, whichever task wrote last.        *)
AlertsTold ==
  /\ "api_health_unreachable" \in alerts <=> healthFailures = FailureThreshold
  /\ "websocket_disconnected" \in alerts <=> streamFailures = FailureThreshold
  /\ alerts \cap HealthCodes = IF lastHealth = NoAnswer THEN {} ELSE EvaluateHealth(lastHealth)

(* As long as the monitor is not stopped, an endpoint or a stream that     *)
(* stays away is told for good; and when they stay, so is the truth about  *)
(* the engine, with no alert of the outage left.                           *)
OutageTold ==
  []~stopping =>
    /\ <>[](endpoint = Unreachable) => <>[]("api_health_unreachable" \in alerts)
    /\ <>[]~streamUp => <>[]("websocket_disconnected" \in alerts)
    /\ <>[]streamUp => <>[]("websocket_disconnected" \notin alerts)
    /\ \A h \in Healths :
         <>[](endpoint = h) => <>[](alerts \ {"websocket_disconnected"} = EvaluateHealth(h))
=============================================================================
