------------------------------ MODULE Approvals ------------------------------
(***************************************************************************)
(* Explicit intents and the operator's approval of them: ApprovalStore,    *)
(* OrderManager._process_intent, and the engine's approve and reject calls.*)
(*                                                                         *)
(* A strategy may emit the same intent again and again; the store keeps one*)
(* item for it.  The operator's requests run in the API server's thread, so*)
(* they interleave with the steps of the drain, which handles one item of  *)
(* the signal queue at a time.                                             *)
(***************************************************************************)
EXTENDS Integers, Sequences

CONSTANTS
  Intents,          \* approval ids, one for each distinct intent
  NoIntent,
  NeedsApproval,    \* intents with approval_required
  MaxDecisions,     \* bound: operator requests
  MaxEmits          \* bound: times a strategy emits an intent

ASSUME ApprovalConstants ==
  /\ NoIntent \notin Intents /\ NeedsApproval \subseteq Intents
  /\ MaxDecisions \in Nat /\ MaxEmits \in Nat

VARIABLES
  items,        \* the status of each approval in the store, "none" if absent
  queue,        \* the order manager's signal queue
  drain,        \* the intent the drain is at, and where
  api,          \* an approval the API thread has stored and not yet passed on
  scheduled,    \* submissions handed to the loop by call_soon_threadsafe
  ordersSent,   \* orders sent for each intent
  emits,        \* history: emissions
  approvals,    \* history: approvals of each intent that was not approved then
  again,        \* history: intents approved after a submission or a rejection
  decisions,    \* history: operator requests
  verdict       \* history: the operator's last word on each intent

store == <<items, approvals, again, decisions, verdict>>
approvalVars == <<store, queue, drain, api, scheduled, ordersSent, emits>>

NothingTaken == [pc |-> "idle", intent |-> NoIntent]

-----------------------------------------------------------------------------
(* Strategies, and the operator. *)

Emit(i) ==
  /\ emits < MaxEmits
  /\ emits' = emits + 1
  /\ queue' = Append(queue, i)
  /\ UNCHANGED <<store, drain, api, scheduled, ordersSent>>

(* Whatever the status was: the store does not look at it.                  *)
Approve(i) ==
  /\ api = NoIntent /\ items[i] # "none" /\ decisions < MaxDecisions
  /\ items' = [items EXCEPT ![i] = "approved"]
  /\ api' = i
  /\ approvals' = [approvals EXCEPT ![i] = @ + (IF items[i] = "approved" THEN 0 ELSE 1)]
  /\ again' = again \cup (IF items[i] \in {"submitted", "rejected"} THEN {i} ELSE {})
  /\ decisions' = decisions + 1
  /\ verdict' = [verdict EXCEPT ![i] = "approve"]
  /\ UNCHANGED <<queue, drain, scheduled, ordersSent, emits>>

(* Faulty variant: nothing is passed on while the drain is busy.            *)
SubmitApprovedIdle ==
  /\ api # NoIntent
  /\ scheduled' = IF drain = NothingTaken THEN Append(scheduled, api) ELSE scheduled
  /\ api' = NoIntent
  /\ UNCHANGED <<store, queue, drain, ordersSent, emits>>

SubmitApproved ==
  /\ api # NoIntent
  /\ scheduled' = Append(scheduled, api)
  /\ api' = NoIntent
  /\ UNCHANGED <<store, queue, drain, ordersSent, emits>>

(* Faulty variant: an approved intent cannot be rejected any more.          *)
RejectPending(i) ==
  /\ api = NoIntent /\ items[i] # "none" /\ decisions < MaxDecisions
  /\ items' = [items EXCEPT ![i] = IF @ = "approved" THEN @ ELSE "rejected"]
  /\ decisions' = decisions + 1
  /\ verdict' = [verdict EXCEPT ![i] = "reject"]
  /\ UNCHANGED <<queue, drain, api, scheduled, ordersSent, emits, approvals, again>>

Reject(i) ==
  /\ api = NoIntent /\ items[i] # "none" /\ decisions < MaxDecisions
  /\ items' = [items EXCEPT ![i] = "rejected"]
  /\ decisions' = decisions + 1
  /\ verdict' = [verdict EXCEPT ![i] = "reject"]
  /\ UNCHANGED <<queue, drain, api, scheduled, ordersSent, emits, approvals, again>>

(* The loop runs submit_intent, which puts the intent on the queue.         *)
SubmitIntent ==
  /\ scheduled # <<>>
  /\ queue' = Append(queue, Head(scheduled))
  /\ scheduled' = Tail(scheduled)
  /\ UNCHANGED <<store, drain, api, ordersSent, emits>>

-----------------------------------------------------------------------------
(* _process_intent. *)

(* ApprovalStore.request: a new item is pending.                            *)
Requested(i) == IF items[i] = "none" THEN "pending" ELSE items[i]

TakeIntent ==
  LET i == Head(queue) IN
  /\ drain = NothingTaken /\ queue # <<>>
  /\ queue' = Tail(queue)
  /\ IF i \in NeedsApproval
     THEN /\ items' = [items EXCEPT ![i] = Requested(i)]
          /\ drain' = IF Requested(i) = "approved"
                      THEN [pc |-> "cleared", intent |-> i] ELSE NothingTaken
     ELSE /\ UNCHANGED items
          /\ drain' = [pc |-> "cleared", intent |-> i]
  /\ UNCHANGED <<api, scheduled, ordersSent, emits, approvals, again, decisions, verdict>>

(* An entry block, a limit on the quantity, a missing price, validation or  *)
(* a risk guard drops it, or the submission raises: it stays approved.      *)
DropIntent ==
  /\ drain.pc = "cleared"
  /\ drain' = NothingTaken
  /\ UNCHANGED <<store, queue, api, scheduled, ordersSent, emits>>

SendIntent ==
  /\ drain.pc = "cleared"
  /\ drain' = [drain EXCEPT !.pc = "sent"]
  /\ ordersSent' = [ordersSent EXCEPT ![drain.intent] = @ + 1]
  /\ UNCHANGED <<store, queue, api, scheduled, emits>>

(* Faulty variant: a refused order may be sent again.                       *)
MarkSubmittedAccepted(accepted) ==
  /\ drain.pc = "sent"
  /\ drain' = NothingTaken
  /\ items' = IF accepted /\ drain.intent \in NeedsApproval
              THEN [items EXCEPT ![drain.intent] = "submitted"] ELSE items
  /\ UNCHANGED <<queue, api, scheduled, ordersSent, emits, approvals, again, decisions, verdict>>

(* The status is set whatever the answer, and whatever the operator said    *)
(* during the submission.                                                   *)
MarkSubmitted(accepted) ==
  /\ drain.pc = "sent"
  /\ drain' = NothingTaken
  /\ items' = IF drain.intent \in NeedsApproval
              THEN [items EXCEPT ![drain.intent] = "submitted"] ELSE items
  /\ UNCHANGED <<queue, api, scheduled, ordersSent, emits, approvals, again, decisions, verdict>>

-----------------------------------------------------------------------------

ApprovalInit ==
  /\ items = [i \in Intents |-> "none"] /\ queue = <<>> /\ drain = NothingTaken
  /\ api = NoIntent /\ scheduled = <<>> /\ ordersSent = [i \in Intents |-> 0]
  /\ emits = 0 /\ approvals = [i \in Intents |-> 0] /\ decisions = 0
  /\ verdict = [i \in Intents |-> "none"] /\ again = {}

Operator == SubmitApproved \/ \E i \in Intents : Approve(i) \/ Reject(i)

DrainSignals == TakeIntent \/ DropIntent \/ SendIntent
         \/ \E accepted \in BOOLEAN : MarkSubmitted(accepted)

ApprovalNext == Operator \/ SubmitIntent \/ DrainSignals \/ \E i \in Intents : Emit(i)

ApprovalSpec == ApprovalInit /\ [][ApprovalNext]_approvalVars

(* The loop runs what it is given, and the wait for an answer ends.         *)
ApprovalFairness ==
  /\ WF_approvalVars(SubmitApproved)
  /\ WF_approvalVars(SubmitIntent)
  /\ WF_approvalVars(DrainSignals)

-----------------------------------------------------------------------------
(* Properties. *)

ItemStatuses == {"none", "pending", "approved", "rejected", "submitted"}

ApprovalTypeOK ==
  /\ items \in [Intents -> ItemStatuses]
  /\ queue \in Seq(Intents) /\ scheduled \in Seq(Intents)
  /\ drain \in [pc : {"cleared", "sent"}, intent : Intents] \cup {NothingTaken}
  /\ api \in Intents \cup {NoIntent}
  /\ ordersSent \in [Intents -> Nat] /\ approvals \in [Intents -> Nat]
  /\ emits \in Nat /\ decisions \in Nat /\ again \subseteq Intents
  /\ verdict \in [Intents -> {"none", "approve", "reject"}]

(* However often the strategy emits the intent and the approval is passed   *)
(* on, each approval leads to at most one order; approving what is approved *)
(* is no further one.  So an intent has one order as long as the operator   *)
(* decides on pending intents only, as docs/guardrails.md and               *)
(* docs/project_rules.md have it.  The code does not keep to that: each     *)
(* approval after a submission or a rejection is worth one more order.      *)
OneOrderPerApproval ==
  \A i \in NeedsApproval :
    /\ ordersSent[i] <= approvals[i]
    /\ i \notin again => ordersSent[i] <= 1

(* What makes OneOrderPerApproval inductive: an approved or cleared intent   *)
(* that is not being sent has an approval left, only the operator's         *)
(* approval makes an item approved, and nothing makes it pending again.     *)
ApprovalLeft ==
  \A i \in NeedsApproval :
    /\ items[i] = "approved" /\ drain # [pc |-> "sent", intent |-> i]
         => ordersSent[i] < approvals[i]
    /\ drain = [pc |-> "cleared", intent |-> i] => ordersSent[i] < approvals[i]
    /\ items[i] = "approved" => verdict[i] = "approve"
OnceUndecided ==
  \A i \in Intents :
    /\ items[i] = "none" => approvals[i] = 0
    /\ items[i] = "pending" => approvals[i] = 0
    /\ i \notin again => approvals[i] <= 1

ApprovalInv == ApprovalTypeOK /\ OneOrderPerApproval /\ ApprovalLeft /\ OnceUndecided

(* An intent is cleared for submission only while the operator's last word  *)
(* on it is an approval.                                                    *)
LastWordCounts ==
  [][\A i \in NeedsApproval :
       drain = NothingTaken /\ drain' = [pc |-> "cleared", intent |-> i]
         => verdict[i] = "approve"]_approvalVars

(* An approval brings its intent to the drain, unless its status has been   *)
(* changed again by then.                                                   *)
ApprovalReachesDrain ==
  \A i \in NeedsApproval : api = i ~> drain.intent = i \/ items[i] # "approved"
=============================================================================
