----------------------------- MODULE StartupGate -----------------------------
(***************************************************************************)
(* core/startup/controller.py: StartupPositionGateController.              *)
(*                                                                         *)
(* The engine's task runs `run`; the operator's requests come in threads   *)
(* of the control API.  They share the status, one action field and the    *)
(* last submission, each access under a lock, and an asyncio.Event that    *)
(* the API threads set through the loop.  The lock is not held from one    *)
(* access to the next, nor while `run` waits or asks for the positions.    *)
(***************************************************************************)
EXTENDS PositionGate

CONSTANTS
  Submissions,     \* what an operator may submit: records [allocs, acks]
  Configurations,  \* possible configured_allocations
  NoSubmission

ASSUME SubmissionConstants ==
  /\ NoSubmission \notin Submissions
  /\ \A sub \in Submissions : sub.allocs \in Seq(Allocation({"operator"}))
  /\ Configurations \subseteq Seq(Allocation({"config"}))

VARIABLES
  configured,      \* _configured_allocations
  mappingEnabled,  \* _mapping_enabled
  status,          \* _status
  action,          \* _action
  submitted,       \* _submitted_allocations and the acknowledgements
  early,           \* history: submitted while the engine was not waiting
  event,           \* _event, "absent" before run
  posted,          \* a call of event.set is on the loop
  gate             \* the local variables of run

gateVars == <<configured, mappingEnabled, status, action, submitted, early, event,
              posted, gate>>

Flat == [i \in Instruments |-> 0]
NotRun == [pc |-> "before", positions |-> Flat, taken |-> NoSubmission, early |-> FALSE]
Inactive == Shown("inactive", Flat, <<>>)

GateInit ==
  /\ configured \in Configurations /\ mappingEnabled \in BOOLEAN
  /\ status = Inactive /\ action = "none"
  /\ submitted = NoSubmission /\ early = FALSE
  /\ event = "absent" /\ posted = FALSE /\ gate = NotRun

(* A new process has a new controller.                                      *)
NewController ==
  /\ status' = Inactive /\ action' = "none"
  /\ submitted' = NoSubmission /\ early' = FALSE
  /\ event' = "absent" /\ posted' = FALSE /\ gate' = NotRun
  /\ UNCHANGED <<configured, mappingEnabled>>

Wake == posted' = (posted \/ event # "absent")

-----------------------------------------------------------------------------
(* The operator's requests.  A rejected submission only sets last_error.   *)

(* Faulty variant: any phase will do.                                       *)
SubmitMappingsAnyPhase(sub) ==
  /\ status.phase \in {"awaiting_mapping", "mapped", "released"}
  /\ Accepts(status.positions, sub.allocs, sub.acks)
  /\ submitted' = sub /\ early' = (gate.pc # "waiting")
  /\ action' = "continue"
  /\ status' = [status EXCEPT !.phase = "mapped", !.allocs = sub.allocs,
                              !.acks = sub.acks]
  /\ Wake
  /\ UNCHANGED <<configured, mappingEnabled, event, gate>>

(* Faulty variant: the engine is woken only by the first request.           *)
SubmitMappingsCoalesced(sub) ==
  /\ status.phase = "awaiting_mapping"
  /\ Accepts(status.positions, sub.allocs, sub.acks)
  /\ submitted' = sub /\ early' = (gate.pc # "waiting")
  /\ action' = "continue"
  /\ status' = [status EXCEPT !.phase = "mapped", !.allocs = sub.allocs,
                              !.acks = sub.acks]
  /\ IF action = "none" THEN Wake ELSE UNCHANGED posted
  /\ UNCHANGED <<configured, mappingEnabled, event, gate>>

(* Faulty variant: the quantities are not looked at.                        *)
SubmitMappingsAnyQuantity(sub) ==
  /\ status.phase = "awaiting_mapping"
  /\ \A k \in DOMAIN sub.allocs : Adoptable(status.positions, sub.allocs[k])
  /\ submitted' = sub /\ early' = (gate.pc # "waiting")
  /\ action' = "continue"
  /\ status' = [status EXCEPT !.phase = "mapped", !.allocs = sub.allocs,
                              !.acks = sub.acks]
  /\ Wake
  /\ UNCHANGED <<configured, mappingEnabled, event, gate>>

SubmitMappings(sub) ==
  /\ status.phase = "awaiting_mapping"
  /\ Accepts(status.positions, sub.allocs, sub.acks)
  /\ submitted' = sub /\ early' = (gate.pc # "waiting")
  /\ action' = "continue"
  /\ status' = [status EXCEPT !.phase = "mapped", !.allocs = sub.allocs,
                              !.acks = sub.acks]
  /\ Wake
  /\ UNCHANGED <<configured, mappingEnabled, event, gate>>

RequestRefresh ==
  /\ action' = "refresh"
  /\ Wake
  /\ UNCHANGED <<configured, mappingEnabled, status, submitted, early, event, gate>>

(* The loop runs the posted event.set.                                      *)
EventSet ==
  /\ posted
  /\ event' = "set" /\ posted' = FALSE
  /\ UNCHANGED <<configured, mappingEnabled, status, action, submitted, early, gate>>

-----------------------------------------------------------------------------
(* run. *)

BeginRun(positions) ==
  /\ gate.pc = "before"
  /\ event' = "clear"
  /\ gate' = [gate EXCEPT !.pc = "build", !.positions = positions]
  /\ UNCHANGED <<configured, mappingEnabled, status, action, submitted, early, posted>>

(* build_status and what follows from its phase.                            *)
BuildStatus(stored) ==
  LET shown == GateStatus(gate.positions, stored, configured) IN
  /\ gate.pc = "build"
  /\ status' = shown
  /\ gate' = [gate EXCEPT !.pc = CASE shown.phase = "clear" -> "clear"
                                   [] shown.phase = "blocked" -> "failed"
                                   [] OTHER -> IF mappingEnabled THEN "waiting"
                                               ELSE "failed"]
  /\ UNCHANGED <<configured, mappingEnabled, action, submitted, early, event, posted>>

(* The wait is over: clear the event, then take the action under the lock.  *)
TakeAction ==
  /\ gate.pc = "waiting" /\ event = "set"
  /\ event' = "clear" /\ action' = "none"
  /\ gate' = [gate EXCEPT
       !.pc = CASE action = "refresh" -> "refreshing"
                [] action = "continue" -> "releasing"
                [] OTHER -> "waiting",
       !.taken = IF action = "continue" THEN submitted ELSE NoSubmission,
       !.early = action = "continue" /\ early]
  /\ submitted' = IF action = "continue" THEN NoSubmission ELSE submitted
  /\ UNCHANGED <<configured, mappingEnabled, status, early, posted>>

RefreshReturns(positions) ==
  /\ gate.pc = "refreshing"
  /\ gate' = [gate EXCEPT !.pc = "build", !.positions = positions]
  /\ UNCHANGED <<configured, mappingEnabled, status, action, submitted, early, event,
                 posted>>

RefreshRaises ==
  /\ gate.pc = "refreshing"
  /\ gate' = [gate EXCEPT !.pc = "failed"]
  /\ UNCHANGED <<configured, mappingEnabled, status, action, submitted, early, event,
                 posted>>

Release ==
  /\ gate.pc = "releasing"
  /\ status' = [status EXCEPT !.phase = "released", !.allocs = gate.taken.allocs,
                              !.acks = gate.taken.acks]
  /\ gate' = [gate EXCEPT !.pc = "released"]
  /\ UNCHANGED <<configured, mappingEnabled, action, submitted, early, event, posted>>

Operator == RequestRefresh \/ \E sub \in Submissions : SubmitMappings(sub)

-----------------------------------------------------------------------------
(* Properties. *)

GateType ==
  /\ configured \in Configurations /\ mappingEnabled \in BOOLEAN
  /\ DOMAIN status = {"phase", "positions", "allocs", "acks"}
  /\ status.phase \in Phases
  /\ action \in {"none", "continue", "refresh"}
  /\ submitted \in Submissions \cup {NoSubmission} /\ early \in BOOLEAN
  /\ event \in {"absent", "clear", "set"} /\ posted \in BOOLEAN
  /\ DOMAIN gate = {"pc", "positions", "taken", "early"}
  /\ gate.pc \in {"before", "build", "waiting", "refreshing", "releasing",
                  "clear", "released", "failed"}
  /\ gate.taken \in Submissions \cup {NoSubmission} /\ gate.early \in BOOLEAN

(* What the operator maps is valid for the positions the engine is released *)
(* with, however submissions and refreshes interleave, unless it was        *)
(* submitted during a refresh.                                              *)
ReleasedFits ==
  gate.pc = "released" /\ ~gate.early
    => Accepts(gate.positions, gate.taken.allocs, gate.taken.acks)

(* What makes it inductive: while `run` waits it waits for the positions    *)
(* that are shown, and a submission not yet taken is one for them.          *)
GateInv ==
  /\ GateType
  /\ gate.pc = "waiting" => status.positions = gate.positions
  /\ action = "continue" => submitted # NoSubmission
  /\ action = "continue" /\ ~early
       => /\ gate.pc = "waiting"
          /\ Accepts(status.positions, submitted.allocs, submitted.acks)
  /\ gate.pc \in {"releasing", "released"} => gate.taken # NoSubmission
  /\ gate.pc \in {"releasing", "released"} /\ ~gate.early
       => Accepts(gate.positions, gate.taken.allocs, gate.taken.acks)
  /\ gate.pc = "released" => status.phase = "released"

(* The promise "released" stays: no request of the operator takes it back,  *)
(* nor changes the allocations it was given for.                            *)
ReleasedStays ==
  [][gate.pc = "released" /\ gate'.pc = "released"
       => status' = status]_gateVars

(* An accepted submission is acted on: the wake-up is not lost between the  *)
(* threads.                                                                 *)
MappedIsTransient ==
  status.phase = "mapped" ~> status.phase # "mapped" \/ gate.pc = "failed"
=============================================================================
