----------------------------- MODULE EngineProofs ----------------------------
(***************************************************************************)
(* Proofs about the parts of the engine that share nothing with the order  *)
(* manager: the approvals, the entry block and the monitor beside it.      *)
(***************************************************************************)
EXTENDS Approvals, EntryGate, Heartbeat, TLAPS

-----------------------------------------------------------------------------
(* Approvals. *)

LEMMA ApprovalInitInv == ApprovalInit => ApprovalInv
BY ApprovalConstants
   DEF ApprovalInit, ApprovalInv, ApprovalTypeOK, OneOrderPerApproval, ApprovalLeft, OnceUndecided,
       NothingTaken, ItemStatuses

(* Every step keeps the types.                                              *)
LEMMA ApprovalNextType == ApprovalTypeOK /\ ApprovalNext => ApprovalTypeOK'
<1> SUFFICES ASSUME ApprovalTypeOK, ApprovalNext PROVE ApprovalTypeOK'
  OBVIOUS
<1> USE ApprovalConstants DEF ApprovalTypeOK, ItemStatuses, NothingTaken, store
<1>1. ASSUME NEW i \in Intents, Emit(i) PROVE ApprovalTypeOK'
  BY <1>1 DEF Emit
<1>2. ASSUME NEW i \in Intents, Approve(i) PROVE ApprovalTypeOK'
  BY <1>2 DEF Approve
<1>3. ASSUME NEW i \in Intents, Reject(i) PROVE ApprovalTypeOK'
  BY <1>3 DEF Reject
<1>4. CASE SubmitApproved
  BY <1>4 DEF SubmitApproved
<1>5. CASE SubmitIntent
  BY <1>5 DEF SubmitIntent
<1>6. CASE TakeIntent
  <2> DEFINE i == Head(queue)
  <2>1. i \in Intents /\ queue' \in Seq(Intents)
    BY <1>6 DEF TakeIntent
  <2>2. items' \in [Intents -> ItemStatuses]
    BY <1>6, <2>1 DEF TakeIntent, Requested
  <2>3. drain' = NothingTaken \/ drain' = [pc |-> "cleared", intent |-> i]
    BY <1>6 DEF TakeIntent
  <2>4. drain' \in [pc : {"cleared", "sent"}, intent : Intents] \cup {NothingTaken}
    BY <2>1, <2>3
  <2> QED
    BY <1>6, <2>1, <2>2, <2>4 DEF TakeIntent
<1>7. CASE DropIntent
  BY <1>7 DEF DropIntent
<1>8. CASE SendIntent
  <2>1. drain \in [pc : {"cleared", "sent"}, intent : Intents]
    BY <1>8 DEF SendIntent
  <2>2. drain' \in [pc : {"cleared", "sent"}, intent : Intents]
    BY <1>8, <2>1 DEF SendIntent
  <2>3. ordersSent' \in [Intents -> Nat]
    BY <1>8, <2>1 DEF SendIntent
  <2> QED
    BY <1>8, <2>2, <2>3 DEF SendIntent
<1>9. ASSUME NEW accepted \in BOOLEAN, MarkSubmitted(accepted) PROVE ApprovalTypeOK'
  BY <1>9 DEF MarkSubmitted
<1> QED
  BY <1>1, <1>2, <1>3, <1>4, <1>5, <1>6, <1>7, <1>8, <1>9 DEF ApprovalNext, Operator, DrainSignals

(* Every step keeps what the approvals bound.                               *)
SentApproved == \A i \in NeedsApproval : ordersSent[i] <= approvals[i]

LEMMA NextApprovals ==
  ApprovalInv /\ ApprovalNext => SentApproved' /\ ApprovalLeft'
<1> DEFINE Goal == SentApproved' /\ ApprovalLeft'
<1> SUFFICES ASSUME ApprovalInv, ApprovalNext PROVE Goal
  OBVIOUS
<1> USE ApprovalConstants
    DEF ApprovalInv, ApprovalTypeOK, ItemStatuses, NothingTaken, OneOrderPerApproval, SentApproved,
        ApprovalLeft, store
<1>1. ASSUME NEW i \in Intents, Emit(i) PROVE Goal
  BY <1>1 DEF Emit
<1>2. ASSUME NEW i \in Intents, Approve(i) PROVE Goal
  BY <1>2 DEF Approve
<1>3. ASSUME NEW i \in Intents, Reject(i) PROVE Goal
  BY <1>3 DEF Reject
<1>4. CASE SubmitApproved
  BY <1>4 DEF SubmitApproved
<1>5. CASE SubmitIntent
  BY <1>5 DEF SubmitIntent
<1>6. CASE TakeIntent
  <2> DEFINE i == Head(queue)
  <2>1. i \in Intents
    BY <1>6 DEF TakeIntent
  <2>2. CASE i \in NeedsApproval
    <3>1. /\ items' = [items EXCEPT ![i] = Requested(i)]
          /\ drain' = IF Requested(i) = "approved"
                      THEN [pc |-> "cleared", intent |-> i] ELSE NothingTaken
          /\ drain = NothingTaken /\ UNCHANGED <<ordersSent, approvals, verdict>>
      BY <1>6, <2>2 DEF TakeIntent
    <3>2. \A j \in NeedsApproval : items'[j] = "approved" <=> items[j] = "approved"
      BY <2>1, <3>1 DEF Requested
    <3>3. drain' # NothingTaken => items[i] = "approved" /\ drain' = [pc |-> "cleared", intent |-> i]
      BY <3>1 DEF Requested
    <3> QED
      BY <3>1, <3>2, <3>3
  <2>3. CASE i \notin NeedsApproval
    <3>1. /\ drain' = [pc |-> "cleared", intent |-> i]
          /\ drain = NothingTaken /\ UNCHANGED <<items, ordersSent, approvals, verdict>>
      BY <1>6, <2>3 DEF TakeIntent
    <3> QED
      BY <3>1, <2>3
  <2> QED
    BY <2>2, <2>3
<1>7. CASE DropIntent
  BY <1>7 DEF DropIntent
<1>8. CASE SendIntent
  BY <1>8 DEF SendIntent
<1>9. ASSUME NEW accepted \in BOOLEAN, MarkSubmitted(accepted) PROVE Goal
  BY <1>9 DEF MarkSubmitted
<1> QED
  BY <1>1, <1>2, <1>3, <1>4, <1>5, <1>6, <1>7, <1>8, <1>9 DEF ApprovalNext, Operator, DrainSignals

(* A step that does not approve leaves a decided intent decided.            *)
LEMMA NextUndecided == ApprovalTypeOK /\ OnceUndecided /\ ApprovalNext => OnceUndecided'
<1> SUFFICES ASSUME ApprovalTypeOK, OnceUndecided, ApprovalNext PROVE OnceUndecided'
  OBVIOUS
<1> USE ApprovalConstants DEF ApprovalTypeOK, ItemStatuses, OnceUndecided, store
<1>1. ASSUME NEW i \in Intents, Approve(i) PROVE OnceUndecided'
  BY <1>1 DEF Approve
<1>2. ASSUME UNCHANGED <<approvals, again>>,
             \A i \in Intents : items'[i] = items[i] \/ items'[i] \in {"rejected", "submitted"}
                                \/ (items[i] = "none" /\ items'[i] = "pending")
      PROVE  OnceUndecided'
  BY <1>2
<1>3. ASSUME NEW i \in Intents, Reject(i) PROVE OnceUndecided'
  BY <1>2, <1>3 DEF Reject
<1>4. CASE TakeIntent
  BY <1>2, <1>4 DEF TakeIntent, Requested
<1>5. ASSUME NEW accepted \in BOOLEAN, MarkSubmitted(accepted) PROVE OnceUndecided'
  BY <1>2, <1>5 DEF MarkSubmitted
<1>6. CASE SubmitApproved \/ SubmitIntent \/ DropIntent \/ SendIntent \/ \E i \in Intents : Emit(i)
  BY <1>2, <1>6 DEF SubmitApproved, SubmitIntent, DropIntent, SendIntent, Emit
<1> QED
  BY <1>1, <1>3, <1>4, <1>5, <1>6 DEF ApprovalNext, Operator, DrainSignals

(* Where the docs' rule was kept, an intent was approved at most once.      *)
LEMMA NextOneOrder ==
  ASSUME ApprovalTypeOK', SentApproved', OnceUndecided' PROVE OneOrderPerApproval'
<1> SUFFICES ASSUME NEW i \in NeedsApproval
             PROVE  ordersSent'[i] <= approvals'[i] /\ (i \notin again' => ordersSent'[i] <= 1)
  BY DEF OneOrderPerApproval
<1>1. i \in Intents /\ ordersSent'[i] \in Nat /\ approvals'[i] \in Nat
  BY ApprovalConstants DEF ApprovalTypeOK
<1>2. ordersSent'[i] <= approvals'[i]
  BY DEF SentApproved
<1>3. i \notin again' => approvals'[i] <= 1
  BY <1>1 DEF OnceUndecided
<1> QED
  BY <1>1, <1>2, <1>3

(* The inductive invariant holds for any intents and any bounds.            *)
THEOREM ApprovalsInductive == ApprovalSpec => []ApprovalInv
<1>1. ApprovalInv /\ [ApprovalNext]_approvalVars => ApprovalInv'
  <2> SUFFICES ASSUME ApprovalInv, [ApprovalNext]_approvalVars PROVE ApprovalInv'
    OBVIOUS
  <2>1. CASE ApprovalNext
    BY <2>1, ApprovalNextType, NextApprovals, NextUndecided, NextOneOrder DEF ApprovalInv
  <2>2. CASE UNCHANGED approvalVars
    BY <2>2 DEF approvalVars, ApprovalInv, ApprovalTypeOK, OneOrderPerApproval, ApprovalLeft,
       OnceUndecided, store
  <2> QED
    BY <2>1, <2>2
<1> QED
  BY <1>1, ApprovalInitInv, PTL DEF ApprovalSpec

(* Each approval leads to at most one order, and an intent to one in all    *)
(* unless it was approved after a submission or a rejection, however often  *)
(* the strategy emits it and however the operator's requests interleave.    *)
THEOREM AtMostOneOrderPerApproval == ApprovalSpec => []OneOrderPerApproval
BY ApprovalsInductive, PTL DEF ApprovalInv

(* A submission is cleared only while the operator's last word is approval. *)
THEOREM TheLastWordCounts == ApprovalSpec => LastWordCounts
<1>1. ASSUME ApprovalInv, [ApprovalNext]_approvalVars, NEW i \in NeedsApproval,
             drain = NothingTaken, drain' = [pc |-> "cleared", intent |-> i]
      PROVE  verdict[i] = "approve"
  <2>1. CASE TakeIntent
    BY <2>1, <1>1, ApprovalConstants
       DEF TakeIntent, Requested, ApprovalInv, ApprovalLeft, NothingTaken
  <2>2. drain' # drain
    BY <1>1 DEF NothingTaken
  <2>3. drain.pc = "idle"
    BY <1>1 DEF NothingTaken
  <2> QED
    BY <2>1, <2>2, <2>3, <1>1
       DEF ApprovalNext, Operator, DrainSignals, Emit, Approve, Reject, SubmitApproved, SubmitIntent,
           DropIntent, SendIntent, MarkSubmitted, approvalVars
<1>2. ApprovalInv /\ [ApprovalNext]_approvalVars =>
        [\A i \in NeedsApproval :
           drain = NothingTaken /\ drain' = [pc |-> "cleared", intent |-> i]
             => verdict[i] = "approve"]_approvalVars
  BY <1>1
<1> QED
  BY <1>2, ApprovalsInductive, PTL DEF ApprovalSpec, LastWordCounts

-----------------------------------------------------------------------------
(* The heartbeat monitor. *)

(* What the monitor's two tasks share.  AlertsTold speaks of the failures   *)
(* and the last answer only, so their types are all it needs.               *)
HeartbeatInv ==
  /\ healthFailures \in 0..FailureThreshold /\ streamFailures \in 0..FailureThreshold
  /\ endpoint \in Healths \cup {Unreachable}
  /\ lastHealth \in Healths \cup {NoAnswer}
  /\ answer \in Healths \cup {Unreachable, NoAnswer}
  /\ healthPc = "asked" => answer # NoAnswer
  /\ AlertsTold

LEMMA OneMoreFailure ==
  ASSUME NEW n \in 0..FailureThreshold
  PROVE  /\ OneMore(n) \in 0..FailureThreshold
         /\ n = FailureThreshold => OneMore(n) = FailureThreshold
BY HeartbeatConstants DEF OneMore

(* A count that ends a request or a connection, and the alert it may raise. *)
LEMMA FailureTold ==
  ASSUME NEW n \in 0..FailureThreshold, NEW code,
         code \in alerts <=> n = FailureThreshold,
         alerts' = EmitOnce(alerts, Reached(OneMore(n), code))
  PROVE  /\ code \in alerts' <=> OneMore(n) = FailureThreshold
         /\ \A other : other # code => (other \in alerts' <=> other \in alerts)
<1>1. n = FailureThreshold => OneMore(n) = FailureThreshold BY OneMoreFailure
<1>2. alerts' = alerts \cup (IF OneMore(n) = FailureThreshold THEN {code} ELSE {})
  BY DEF EmitOnce, Reached
<1> QED BY <1>1, <1>2

(* An answer raises the codes it shows and resolves every other.            *)
LEMMA AnswerTold ==
  ASSUME NEW h, alerts' = TellHealth(h)
  PROVE  /\ "api_health_unreachable" \notin alerts'
         /\ alerts' \cap HealthCodes = EvaluateHealth(h)
         /\ "websocket_disconnected" \in alerts' <=> "websocket_disconnected" \in alerts
<1>1. EvaluateHealth(h) \subseteq HealthCodes BY DEF EvaluateHealth
<1>2. /\ "api_health_unreachable" \notin HealthCodes
      /\ "websocket_disconnected" \notin HealthCodes
  BY DEF HealthCodes
<1>3. alerts' = ((alerts \ {"api_health_unreachable"}) \cup EvaluateHealth(h))
                  \ (HealthCodes \ EvaluateHealth(h))
  BY DEF TellHealth, Resolve, EmitOnce
<1> HIDE DEF HealthCodes, EvaluateHealth
<1> QED BY <1>1, <1>2, <1>3

LEMMA HeartbeatStarts == HeartbeatInit => HeartbeatInv
BY HeartbeatConstants DEF HeartbeatInit, HeartbeatInv, AlertsTold

LEMMA HeartbeatSteps == HeartbeatInv /\ [HeartbeatNext]_heartbeatVars => HeartbeatInv'
<1> SUFFICES ASSUME HeartbeatInv, [HeartbeatNext]_heartbeatVars PROVE HeartbeatInv'
  OBVIOUS
<1>1. CASE RequestFails
  <2>1. /\ healthFailures' = OneMore(healthFailures)
        /\ alerts' = EmitOnce(alerts, Reached(OneMore(healthFailures), "api_health_unreachable"))
        /\ healthPc' = "sleep" /\ answer' = NoAnswer
        /\ UNCHANGED <<endpoint, lastHealth, streamFailures>>
    BY <1>1 DEF RequestFails, world, streamLoop
  <2>2. /\ "api_health_unreachable" \in alerts' <=> healthFailures' = FailureThreshold
        /\ \A c : c # "api_health_unreachable" => (c \in alerts' <=> c \in alerts)
    BY <2>1, FailureTold DEF HeartbeatInv, AlertsTold
  <2>3. alerts' \cap HealthCodes = alerts \cap HealthCodes
    BY <2>2 DEF HealthCodes
  <2>4. healthFailures' \in 0..FailureThreshold BY <2>1, OneMoreFailure DEF HeartbeatInv
  <2> QED BY <2>1, <2>2, <2>3, <2>4 DEF HeartbeatInv, AlertsTold, EvaluateHealth
<1>2. CASE RequestAnswered
  <2>1. /\ healthFailures' = 0 /\ lastHealth' = answer /\ alerts' = TellHealth(answer)
        /\ healthPc' = "sleep" /\ answer' = NoAnswer /\ answer \in Healths
        /\ UNCHANGED <<endpoint, streamFailures>>
    BY <1>2 DEF RequestAnswered, world, streamLoop, HeartbeatInv
  <2>2. answer # NoAnswer /\ FailureThreshold \in Nat \ {0} BY <2>1, HeartbeatConstants
  <2> QED BY <2>1, <2>2, AnswerTold DEF HeartbeatInv, AlertsTold, EvaluateHealth
<1>3. CASE StreamFailed
  <2>1. /\ streamFailures' = OneMore(streamFailures)
        /\ alerts' = EmitOnce(alerts, Reached(OneMore(streamFailures), "websocket_disconnected"))
        /\ UNCHANGED <<endpoint, healthPc, answer, lastHealth, healthFailures>>
    BY <1>3 DEF StreamFailed, world, healthLoop
  <2>2. /\ "websocket_disconnected" \in alerts' <=> streamFailures' = FailureThreshold
        /\ \A c : c # "websocket_disconnected" => (c \in alerts' <=> c \in alerts)
    BY <2>1, FailureTold DEF HeartbeatInv, AlertsTold
  <2>3. alerts' \cap HealthCodes = alerts \cap HealthCodes
    BY <2>2 DEF HealthCodes
  <2>4. streamFailures' \in 0..FailureThreshold BY <2>1, OneMoreFailure DEF HeartbeatInv
  <2> QED BY <2>1, <2>2, <2>3, <2>4 DEF HeartbeatInv, AlertsTold, EvaluateHealth
<1>4. CASE Connects
  <2>1. /\ streamFailures' = 0 /\ alerts' = alerts \ {"websocket_disconnected"}
        /\ UNCHANGED <<endpoint, healthPc, answer, lastHealth, healthFailures>>
    BY <1>4 DEF Connects, Resolve, world, healthLoop
  <2>2. FailureThreshold \in Nat \ {0} BY HeartbeatConstants
  <2>3. alerts' \cap HealthCodes = alerts \cap HealthCodes BY <2>1 DEF HealthCodes
  <2> QED BY <2>1, <2>2, <2>3 DEF HeartbeatInv, AlertsTold, EvaluateHealth
<1>5. CASE RequestReturns
  <2>1. /\ answer' = endpoint /\ healthPc' = "asked"
        /\ UNCHANGED <<endpoint, lastHealth, healthFailures, streamFailures, alerts>>
    BY <1>5 DEF RequestReturns, world, streamLoop
  <2>2. endpoint # NoAnswer BY HeartbeatConstants DEF HeartbeatInv
  <2> QED BY <2>1, <2>2 DEF HeartbeatInv, AlertsTold, EvaluateHealth
<1>6. CASE AskHealth \/ HealthWakes \/ StartConnecting \/ StreamStops \/ StreamWakes
           \/ EndpointChanges \/ StreamChanges \/ Signal \/ UNCHANGED heartbeatVars
  <2>1. /\ UNCHANGED <<answer, lastHealth, healthFailures, streamFailures, alerts>>
        /\ healthPc' = "asked" => healthPc = "asked"
        /\ endpoint' \in Healths \cup {Unreachable}
    BY <1>6 DEF AskHealth, HealthWakes, StartConnecting, StreamStops, StreamWakes,
       EndpointChanges, StreamChanges, Signal, heartbeatVars, world, healthLoop, streamLoop,
       HeartbeatInv
  <2> QED BY <2>1 DEF HeartbeatInv, AlertsTold, EvaluateHealth
<1> QED
  BY <1>1, <1>2, <1>3, <1>4, <1>5, <1>6
  DEF HeartbeatNext, HealthLoop, StreamLoop, ConnectFails, ConnectionLost, StreamFailed

(* What the status file tells is what the monitor knows, whichever of its   *)
(* tasks wrote last, for any threshold, answers and expectations.           *)
THEOREM AlertsAlwaysTold == HeartbeatSpec => []AlertsTold
<1>1. HeartbeatInv => AlertsTold BY DEF HeartbeatInv
<1> QED BY <1>1, HeartbeatStarts, HeartbeatSteps, PTL DEF HeartbeatSpec

-----------------------------------------------------------------------------
(* The entry block. *)

USE GateConstants DEF Disconnects, HealthOwned, Owned, StartupOrders, NoBlock, Reasons, account

(* A snapshot at its start, or with some of its fields set.                 *)
LEMMA AsleepFields ==
  ASSUME NEW c \in BOOLEAN
  PROVE  /\ Asleep \in Snapshots /\ [Asleep EXCEPT !.complete = c] \in Snapshots
         /\ \A f \in Owned \cup {NoBlock} :
              [Asleep EXCEPT !.pc = "overview", !.found = f, !.complete = c] \in Snapshots
<1> {} \in SUBSET {"strange", "own"}
  OBVIOUS
<1>1. Asleep \in Snapshots
  BY DEF Snapshots, Asleep
<1>2. [Asleep EXCEPT !.complete = c] \in Snapshots
  BY <1>1 DEF Snapshots
<1>3. ASSUME NEW f \in Owned \cup {NoBlock}
      PROVE  [Asleep EXCEPT !.pc = "overview", !.found = f, !.complete = c] \in Snapshots
  BY <1>1 DEF Snapshots
<1> QED
  BY <1>1, <1>2, <1>3

LEMMA SnapshotFields ==
  ASSUME NEW r \in Snapshots, NEW c \in BOOLEAN, NEW q \in Int,
         NEW o \in SUBSET {"strange", "own"}
  PROVE  /\ [r EXCEPT !.pc = "orders", !.complete = c, !.seen = q] \in Snapshots
         /\ [r EXCEPT !.pc = "compare", !.complete = c, !.orders = o] \in Snapshots
BY DEF Snapshots

LEMMA GateInitInv == GateInit => GateInv
<1> SUFFICES ASSUME GateInit PROVE GateInv
  OBVIOUS
<1>1. recon \in Snapshots /\ recon.pc = "sleep"
  BY AsleepFields DEF GateInit, Asleep
<1>2. GateTypeOK
  <2>1. booked + inflight <= MaxTrades /\ booked \in Nat /\ inflight \in Nat
    BY DEF GateInit
  <2>2. /\ phase \in {"startup", "running", "error"} /\ block \in Reasons \cup {NoBlock}
        /\ fault \in Faults \cup {"none"} /\ health \in {"sleep", "reconnect"}
    BY DEF GateInit
  <2>3. /\ status \in {"idle", "startup_checked", "ok", "blocked", "error"}
        /\ foreign \in 0..1 /\ strange \in BOOLEAN /\ own \in BOOLEAN /\ faulted \in BOOLEAN
    BY DEF GateInit
  <2> QED
    BY <1>1, <2>1, <2>2, <2>3 DEF GateTypeOK
<1> QED
  BY <1>1, <1>2 DEF GateInit, GateInv, BlockLostOnlyToHealth

(* Every step keeps the types.                                              *)
LEMMA GateNextType == GateTypeOK /\ GateNext => GateTypeOK'
<1> SUFFICES ASSUME GateTypeOK, GateNext PROVE GateTypeOK'
  OBVIOUS
<1> USE DEF GateTypeOK
<1>1. CASE StartupOpenOrders
  BY <1>1 DEF StartupOpenOrders
<1>2. CASE HealthGood
  BY <1>2 DEF HealthGood, LiftIfHealthOwned
<1>3. CASE HealthFault
  BY <1>3 DEF HealthFault
<1>4. CASE AttemptReconnect
  BY <1>4 DEF AttemptReconnect
<1>5. CASE HealthError
  BY <1>5 DEF HealthError
<1>6. CASE StartSnapshot
  <2>1. recon' \in Snapshots
    BY <1>6 DEF StartSnapshot, Snapshots
  <2> QED
    BY <1>6, <2>1 DEF StartSnapshot
<1>7. CASE SnapshotError
  <2>1. recon' \in Snapshots
    BY <1>7, AsleepFields DEF SnapshotError
  <2> QED
    BY <1>7, <2>1 DEF SnapshotError
<1>8. CASE SeeAccount
  <2>1. recon' \in Snapshots
    BY <1>8 DEF SeeAccount, Snapshots
  <2> QED
    BY <1>8, <2>1 DEF SeeAccount
<1>9. CASE Compare
  <2>1. recon.complete \in BOOLEAN
    BY DEF Snapshots
  <2>2. recon' \in Snapshots
    BY <1>9, <2>1, AsleepFields DEF Compare
  <2> QED
    BY <1>9, <2>2 DEF Compare
<1>10. CASE FinishSnapshot
  <2>1. recon.complete \in BOOLEAN /\ recon.found \in Owned \cup {NoBlock}
    BY DEF Snapshots
  <2>2. recon' \in Snapshots
    BY <1>10, <2>1, AsleepFields DEF FinishSnapshot
  <2>3. block' \in Reasons \cup {NoBlock} /\ faulted' \in BOOLEAN
    BY <1>10, <2>1 DEF FinishSnapshot
  <2> QED
    BY <1>10, <2>2, <2>3 DEF FinishSnapshot
<1>11. CASE FaultChanges
  BY <1>11 DEF FaultChanges
<1>12. CASE OwnFill
  BY <1>12 DEF OwnFill
<1>13. CASE BookFill
  BY <1>13 DEF BookFill
<1>14. CASE ForeignTrade
  BY <1>14 DEF ForeignTrade
<1>15. CASE StrangeOrder
  BY <1>15 DEF StrangeOrder
<1>16. CASE OwnOrder
  BY <1>16 DEF OwnOrder
<1>17. ASSUME NEW complete \in BOOLEAN, SeePositions(complete) PROVE GateTypeOK'
  <2>1. (IF complete THEN BrokerQty ELSE 0) \in Int
    BY DEF BrokerQty
  <2>2. recon' \in Snapshots
    BY <1>17, <2>1, SnapshotFields DEF SeePositions
  <2> QED
    BY <1>17, <2>2 DEF SeePositions
<1>18. ASSUME NEW complete \in BOOLEAN, SeeOrders(complete) PROVE GateTypeOK'
  <2>1. OrdersOpen \in SUBSET {"strange", "own"}
    BY DEF OrdersOpen
  <2>3. (IF complete THEN OrdersOpen ELSE {}) \in SUBSET {"strange", "own"}
    BY <2>1
  <2>4. (recon.complete /\ complete) \in BOOLEAN
    OBVIOUS
  <2>5. recon' = [recon EXCEPT !.pc = "compare", !.complete = (recon.complete /\ complete),
                               !.orders = IF complete THEN OrdersOpen ELSE {}]
    BY <1>18 DEF SeeOrders
  <2>6. recon' \in Snapshots
    <3> HIDE DEF OrdersOpen, Snapshots
    <3>1. recon \in Snapshots /\ 0 \in Int
      OBVIOUS
    <3> QED
      BY <2>3, <2>4, <2>5, <3>1, SnapshotFields
  <2> QED
    BY <1>18, <2>6 DEF SeeOrders
<1> QED
  BY <1>1, <1>2, <1>3, <1>4, <1>5, <1>6, <1>7, <1>8, <1>9, <1>10, <1>11, <1>12, <1>13, <1>14, <1>15, <1>16, <1>17, <1>18
     DEF GateNext, HealthCheck, Reconciliation, World

(* Every step keeps the reason's owner.                                     *)
LEMMA GateNextInv == GateInv /\ GateNext => GateInv'
<1> SUFFICES ASSUME GateInv, GateNext PROVE GateInv'
  OBVIOUS
<1> USE DEF GateInv, BlockLostOnlyToHealth
<1>0. GateTypeOK /\ GateTypeOK'
  BY GateNextType
<1> USE DEF GateTypeOK
<1>1. CASE StartupOpenOrders
  BY <1>0, <1>1 DEF StartupOpenOrders
<1>2. CASE HealthGood
  BY <1>0, <1>2 DEF HealthGood, LiftIfHealthOwned
<1>3. CASE HealthFault
  BY <1>0, <1>3 DEF HealthFault
<1>4. CASE AttemptReconnect
  BY <1>0, <1>4 DEF AttemptReconnect
<1>5. CASE HealthError
  BY <1>0, <1>5 DEF HealthError
<1>6. CASE StartSnapshot
  BY <1>0, <1>6 DEF StartSnapshot
<1>7. CASE SnapshotError
  BY <1>0, <1>7 DEF SnapshotError, Asleep
<1>8. CASE SeeAccount
  BY <1>0, <1>8 DEF SeeAccount
<1>9. CASE Compare
  BY <1>0, <1>9 DEF Compare, Asleep
<1>10. CASE FinishSnapshot
  <2>1. recon.complete \in BOOLEAN /\ recon.found \in Owned \cup {NoBlock}
    BY <1>0 DEF Snapshots
  <2>2. recon'.pc = "sleep" /\ status' = status /\ phase' = phase
    BY <1>10 DEF FinishSnapshot, Asleep
  <2>3. CASE recon.found # NoBlock
    BY <1>0, <1>10, <2>1, <2>2, <2>3 DEF FinishSnapshot
  <2>4. CASE recon.found = NoBlock
    <3>1. status = "ok"
      BY <1>10, <2>4 DEF FinishSnapshot
    <3> QED
      BY <1>0, <2>2, <3>1
  <2> QED
    BY <2>3, <2>4
<1>11. CASE FaultChanges
  BY <1>0, <1>11 DEF FaultChanges
<1>12. CASE OwnFill
  BY <1>0, <1>12 DEF OwnFill
<1>13. CASE BookFill
  BY <1>0, <1>13 DEF BookFill
<1>14. CASE ForeignTrade
  BY <1>0, <1>14 DEF ForeignTrade
<1>15. CASE StrangeOrder
  BY <1>0, <1>15 DEF StrangeOrder
<1>16. CASE OwnOrder
  BY <1>0, <1>16 DEF OwnOrder
<1>17. ASSUME NEW complete \in BOOLEAN, SeePositions(complete) PROVE GateInv'
  BY <1>0, <1>17 DEF SeePositions
<1>18. ASSUME NEW complete \in BOOLEAN, SeeOrders(complete) PROVE GateInv'
  BY <1>0, <1>18 DEF SeeOrders
<1> QED
  BY <1>1, <1>2, <1>3, <1>4, <1>5, <1>6, <1>7, <1>8, <1>9, <1>10, <1>11, <1>12, <1>13, <1>14, <1>15, <1>16, <1>17, <1>18
     DEF GateNext, HealthCheck, Reconciliation, World

(* The inductive invariant holds for any faults and any bound.              *)
THEOREM EntryGateInductive == GateSpec => []GateInv
<1>1. GateInv /\ [GateNext]_gateVars => GateInv'
  <2> SUFFICES ASSUME GateInv, [GateNext]_gateVars PROVE GateInv'
    OBVIOUS
  <2>1. CASE GateNext
    BY <2>1, GateNextInv
  <2>2. CASE UNCHANGED gateVars
    BY <2>2 DEF gateVars, GateInv, GateTypeOK, BlockLostOnlyToHealth
  <2> QED
    BY <2>1, <2>2
<1> QED
  BY <1>1, GateInitInv, PTL DEF GateSpec

(* A reason set by a reconciliation gives way only to a fault.              *)
THEOREM BlocksLostOnlyToHealth == GateSpec => []BlockLostOnlyToHealth
BY EntryGateInductive, PTL DEF GateInv

(* No reconciliation lifts a reason of the health monitor's.                *)
THEOREM ReconciliationAlwaysLiftsOwn == GateSpec => ReconciliationLiftsOwn
<1>1. ASSUME [GateNext]_gateVars, block \in HealthOwned \cup {"health_monitor_error"},
             block' = NoBlock
      PROVE  recon' = recon
  BY <1>1 DEF GateNext, HealthCheck, Reconciliation, World, gateVars, StartupOpenOrders, HealthGood,
       HealthFault, AttemptReconnect, HealthError, StartSnapshot, SnapshotError, SeeAccount,
       SeePositions, SeeOrders, Compare, FinishSnapshot, FaultChanges, OwnFill, BookFill,
       ForeignTrade, StrangeOrder, OwnOrder
<1> QED
  BY <1>1, PTL DEF GateSpec, ReconciliationLiftsOwn
=============================================================================
