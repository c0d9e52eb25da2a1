------------------------------ MODULE EntryGate ------------------------------
(***************************************************************************)
(* The engine's entry block: one reason, or none, that three parts write.  *)
(*                                                                         *)
(* The start-up check of open orders sets it and stops the engine.  The    *)
(* health monitor sets and lifts it for lost connections and stale bars.   *)
(* The reconciliation loop compares the broker's positions and open orders *)
(* with the engine's and sets and lifts it for differences.  A new reason  *)
(* replaces the old one.  No entry is sent while there is a reason.        *)
(***************************************************************************)
EXTENDS Integers

CONSTANTS
  Faults,       \* what the health monitor may find
  Reconnect,    \* live_health.reconnect
  MaxTrades     \* bound: own fills

Disconnects == {"broker_disconnected", "data_disconnected"}
HealthOwned == Disconnects \cup {"stale_market_data"}
Owned == {"reconciliation_error", "reconciliation_unknown_open_orders",
          "reconciliation_position_drift"}
StartupOrders == "startup_open_orders_require_operator_review"
NoBlock == "none"
Reasons == HealthOwned \cup Owned \cup {StartupOrders, "health_monitor_error"}

ASSUME GateConstants ==
  Faults \subseteq HealthOwned /\ Reconnect \in BOOLEAN /\ MaxTrades \in Nat

VARIABLES
  phase,        \* "startup", "running" or "error"
  block,        \* _entry_block_reason
  fault,        \* what a check of the connections and the last bar would find
  health,       \* where the health monitor waits
  recon,        \* the local variables of _run_reconciliation_snapshot
  status,       \* _reconciliation_state["status"]
  booked,       \* the position the portfolio holds
  inflight,     \* own fills the drain has not booked
  foreign,      \* quantity traded beside the engine
  strange,      \* an open order that is not the engine's
  own,          \* an open order of the engine's, tracked
  faulted       \* history: a fault replaced the reason since reconciliation set it

account == <<booked, inflight, foreign, strange, own>>
gateVars == <<phase, block, fault, health, recon, status, account, faulted>>

Asleep == [pc |-> "sleep", seen |-> 0, orders |-> {}, complete |-> TRUE, found |-> NoBlock]
BrokerQty == booked + inflight + foreign
OrdersOpen == (IF strange THEN {"strange"} ELSE {}) \cup (IF own THEN {"own"} ELSE {})
Tracked == IF own THEN {"own"} ELSE {}

-----------------------------------------------------------------------------
(* Start-up. *)

StartupOpenOrders ==
  /\ phase = "startup"
  /\ status' = "startup_checked"
  /\ IF strange THEN block' = StartupOrders /\ phase' = "error"
                ELSE phase' = "running" /\ UNCHANGED block
  /\ UNCHANGED <<fault, health, recon, account, faulted>>

-----------------------------------------------------------------------------
(* The health monitor. *)

(* Faulty variant: whoever set the reason.                                  *)
LiftIfHealthOwnedAny(reason) == NoBlock

(* Faulty variant: stale bars forgotten.                                    *)
LiftIfHealthOwnedDisconnects(reason) == IF reason \in Disconnects THEN NoBlock ELSE reason

LiftIfHealthOwned(reason) == IF reason \in HealthOwned THEN NoBlock ELSE reason

HealthGood ==
  /\ phase = "running" /\ health = "sleep" /\ fault = "none"
  /\ block' = LiftIfHealthOwned(block)
  /\ UNCHANGED <<phase, fault, health, recon, status, account, faulted>>

HealthFault ==
  /\ phase = "running" /\ health = "sleep" /\ fault # "none"
  /\ block' = fault
  /\ faulted' = TRUE
  /\ health' = IF Reconnect /\ fault \in Disconnects THEN "reconnect" ELSE "sleep"
  /\ UNCHANGED <<phase, fault, recon, status, account>>

(* An attempt that fails is only recorded.                                  *)
AttemptReconnect ==
  /\ phase = "running" /\ health = "reconnect"
  /\ health' = "sleep"
  /\ fault' \in {fault, "none"}
  /\ UNCHANGED <<phase, block, recon, status, account, faulted>>

HealthError ==
  /\ phase = "running" /\ health = "sleep"
  /\ block' = "health_monitor_error"
  /\ faulted' = TRUE
  /\ UNCHANGED <<phase, fault, health, recon, status, account>>

-----------------------------------------------------------------------------
(* The reconciliation loop: get_account, get_positions, get_open_orders,   *)
(* and the refresh of the account overview are awaits.                     *)

StartSnapshot ==
  /\ phase = "running" /\ recon.pc = "sleep"
  /\ recon' = [recon EXCEPT !.pc = "account", !.complete = TRUE]
  /\ UNCHANGED <<phase, block, fault, health, status, account, faulted>>

SnapshotError ==
  /\ recon.pc \in {"account", "positions", "orders"}
  /\ block' = "reconciliation_error"
  /\ status' = "error"
  /\ faulted' = FALSE
  /\ recon' = [Asleep EXCEPT !.complete = FALSE]
  /\ UNCHANGED <<phase, fault, health, account>>

SeeAccount ==
  /\ recon.pc = "account"
  /\ recon' = [recon EXCEPT !.pc = "positions"]
  /\ UNCHANGED <<phase, block, fault, health, status, account, faulted>>

(* After 15 s without an end mark the adapter returns what has come.        *)
SeePositions(complete) ==
  /\ recon.pc = "positions"
  /\ recon' = [recon EXCEPT !.pc = "orders", !.complete = complete,
                            !.seen = IF complete THEN BrokerQty ELSE 0]
  /\ UNCHANGED <<phase, block, fault, health, status, account, faulted>>

SeeOrders(complete) ==
  /\ recon.pc = "orders"
  /\ recon' = [recon EXCEPT !.pc = "compare", !.complete = @ /\ complete,
                            !.orders = IF complete THEN OrdersOpen ELSE {}]
  /\ UNCHANGED <<phase, block, fault, health, status, account, faulted>>

(* Own orders and quantities are as they are now, the broker's as they were.*)
Compare ==
  LET found == IF recon.orders \ Tracked # {} THEN "reconciliation_unknown_open_orders"
               ELSE IF recon.seen # booked THEN "reconciliation_position_drift"
               ELSE NoBlock
  IN /\ recon.pc = "compare"
     /\ recon' = [Asleep EXCEPT !.pc = "overview", !.found = found,
                                !.complete = recon.complete]
     /\ status' = IF found = NoBlock THEN "ok" ELSE "blocked"
     /\ UNCHANGED <<phase, block, fault, health, account, faulted>>

(* Faulty variant: any reason is lifted.                                    *)
FinishSnapshotAny ==
  /\ recon.pc = "overview"
  /\ recon' = [Asleep EXCEPT !.complete = recon.complete]
  /\ IF recon.found # NoBlock THEN block' = recon.found /\ faulted' = FALSE
     ELSE block' = NoBlock /\ UNCHANGED faulted
  /\ UNCHANGED <<phase, fault, health, status, account>>

FinishSnapshot ==
  /\ recon.pc = "overview"
  /\ recon' = [Asleep EXCEPT !.complete = recon.complete]
  /\ IF recon.found # NoBlock THEN block' = recon.found /\ faulted' = FALSE
     ELSE block' = (IF block \in Owned THEN NoBlock ELSE block) /\ UNCHANGED faulted
  /\ UNCHANGED <<phase, fault, health, status, account>>

-----------------------------------------------------------------------------
(* The connections, the market and the account. *)

FaultChanges ==
  /\ fault' \in Faults \cup {"none"}
  /\ UNCHANGED <<phase, block, health, recon, status, account, faulted>>

OwnFill ==
  /\ phase = "running" /\ booked + inflight < MaxTrades
  /\ inflight' = inflight + 1
  /\ UNCHANGED <<phase, block, fault, health, recon, status, booked, foreign,
                 strange, own, faulted>>

BookFill ==
  /\ inflight > 0
  /\ inflight' = inflight - 1 /\ booked' = booked + 1
  /\ UNCHANGED <<phase, block, fault, health, recon, status, foreign, strange,
                 own, faulted>>

ForeignTrade ==
  /\ foreign' = 1 - foreign
  /\ UNCHANGED <<phase, block, fault, health, recon, status, booked, inflight,
                 strange, own, faulted>>

StrangeOrder ==
  /\ strange' = ~strange
  /\ UNCHANGED <<phase, block, fault, health, recon, status, booked, inflight,
                 foreign, own, faulted>>

(* Tracked from before it is sent until its end has been drained.           *)
OwnOrder ==
  /\ phase = "running"
  /\ own' = ~own
  /\ UNCHANGED <<phase, block, fault, health, recon, status, booked, inflight,
                 foreign, strange, faulted>>

-----------------------------------------------------------------------------

GateInit ==
  /\ phase = "startup" /\ block = NoBlock /\ fault = "none" /\ health = "sleep"
  /\ recon = Asleep /\ status = "idle" /\ booked = 0 /\ inflight = 0
  /\ foreign \in 0..1 /\ strange \in BOOLEAN /\ own = FALSE /\ faulted = FALSE

HealthCheck == HealthGood \/ HealthFault \/ AttemptReconnect

Reconciliation ==
  \/ StartSnapshot \/ SnapshotError \/ SeeAccount
  \/ \E complete \in BOOLEAN : SeePositions(complete) \/ SeeOrders(complete)
  \/ Compare \/ FinishSnapshot

World == FaultChanges \/ OwnFill \/ BookFill \/ ForeignTrade \/ StrangeOrder \/ OwnOrder

GateNext == StartupOpenOrders \/ HealthCheck \/ HealthError \/ Reconciliation \/ World

GateSpec == GateInit /\ [][GateNext]_gateVars

(* Sleeps end, and the awaits of both tasks end at their time limits.       *)
GateFairness == WF_gateVars(HealthCheck) /\ WF_gateVars(Reconciliation)

-----------------------------------------------------------------------------
(* Properties. *)

Snapshots ==
  [pc : {"sleep", "account", "positions", "orders", "compare", "overview"},
   seen : Int, orders : SUBSET {"strange", "own"}, complete : BOOLEAN,
   found : Owned \cup {NoBlock}]

GateTypeOK ==
  /\ phase \in {"startup", "running", "error"}
  /\ block \in Reasons \cup {NoBlock}
  /\ fault \in Faults \cup {"none"}
  /\ health \in {"sleep", "reconnect"}
  /\ recon \in Snapshots
  /\ status \in {"idle", "startup_checked", "ok", "blocked", "error"}
  /\ booked \in Nat /\ inflight \in Nat /\ booked + inflight <= MaxTrades
  /\ foreign \in 0..1 /\ strange \in BOOLEAN /\ own \in BOOLEAN /\ faulted \in BOOLEAN

(* Entries are open after a reconciliation that found a difference only     *)
(* because a fault has meanwhile taken the place of the reason.             *)
BlockLostOnlyToHealth ==
  status \in {"blocked", "error"} /\ block = NoBlock => faulted \/ recon.pc = "overview"

(* What makes it inductive: the reason in place is reconciliation's own, as *)
(* long as no fault replaced it, and a result of "ok" is the only one a      *)
(* snapshot without a difference leaves.                                    *)
GateInv ==
  /\ GateTypeOK /\ BlockLostOnlyToHealth
  /\ status \in {"blocked", "error"} /\ block \notin Owned
       => faulted \/ recon.pc = "overview"
  /\ recon.pc = "overview" /\ recon.found = NoBlock => status = "ok"
  /\ recon.pc # "sleep" => phase # "startup"

(* A reconciliation that finds nothing leaves the health monitor's reason,  *)
(* also one set while the account overview was being refreshed.             *)
ReconciliationLiftsOwn ==
  [][(block \in HealthOwned \cup {"health_monitor_error"} /\ block' = NoBlock)
       => recon' = recon]_gateVars

Agrees == foreign = 0 /\ ~strange
Quiet == inflight = 0 /\ ~own /\ recon.complete

(* A fault that stays ends with entries blocked for good, if the account    *)
(* agrees and is quiet; so does a position the engine does not know, if     *)
(* there is no fault and the broker answers.                                *)
TroubleBlocks ==
  <>[](/\ phase = "running" /\ Quiet
       /\ (fault # "none" /\ Agrees) \/ (fault = "none" /\ foreign # 0))
    => <>[](block # NoBlock)

(* When all is well entries open again, except after an error of the health *)
(* monitor itself, which nothing lifts.                                     *)
CalmUnblocks ==
  <>[](phase = "running" /\ fault = "none" /\ Agrees /\ Quiet)
    => <>[](block \in {NoBlock, "health_monitor_error"})
=============================================================================
