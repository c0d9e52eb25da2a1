---------------------------- MODULE InitialStatus ----------------------------
(***************************************************************************)
(* IBKRBroker._initial_order_status and the streams beside it.             *)
(*                                                                         *)
(* The client's callbacks put order updates and errors on one queue each.  *)
(* Every submit_order and modify_order reads both queues for up to 1.5 s,  *)
(* looking for the answer to its own order, and puts the rest back; several*)
(* tasks may do so at once, while drain_order_updates reads the updates.   *)
(***************************************************************************)
EXTENDS Integers, Sequences, FiniteSets, SequencesExt

CONSTANTS
  Callers,      \* the tasks that submit and modify orders
  None,         \* nothing taken from a queue
  MaxOrders,    \* bound: order ids
  MaxChanges,   \* bound: modifications
  MaxUpdates,   \* bound: order updates the broker reports
  MaxErrors     \* bound: errors the broker reports

OrderIds == 1..MaxOrders
BrokerStatuses == {"submitted", "filled", "cancelled"}

ASSUME StatusConstants ==
  /\ MaxOrders \in Nat /\ MaxChanges \in Nat
  /\ MaxUpdates \in Nat /\ MaxErrors \in Nat
  /\ None \notin [id : OrderIds, status : BrokerStatuses, n : 1..MaxUpdates]
  /\ None \notin [id : OrderIds, n : 1..MaxErrors]

VARIABLES
  updates,      \* order_update_queue
  errors,       \* error_queue
  call,         \* the local variables of a caller inside _initial_order_status
  answer,       \* what a caller's last call returned, and for which order
  drained,      \* the updates drain_order_updates has taken, by number
  broker,       \* what the broker last said of an order
  nextId, changes, nUpdates, nErrors,
  rejections    \* history: how many calls were answered by an error

statusQueues == <<updates, errors>>
statusCounters == <<nextId, changes>>
reports == <<broker, nUpdates, nErrors>>
statusVars == <<statusQueues, call, answer, drained, statusCounters, reports, rejections>>

Update == [id : OrderIds, status : BrokerStatuses, n : 1..MaxUpdates]
Error == [id : OrderIds, n : 1..MaxErrors]
Call == [pc : {"idle", "wait"}, id : OrderIds \cup {0}, update : Update \cup {None},
         error : Error \cup {None}, expired : BOOLEAN]
Answer == [status : {"none", "pending", "open", "cancelled", "rejected"},
           id : OrderIds \cup {0}]
NoAnswer == [status |-> "none", id |-> 0]
NoCall == [pc |-> "idle", id |-> 0, update |-> None, error |-> None,
         expired |-> FALSE]

-----------------------------------------------------------------------------
(* The calls. *)

CallBegins(c, i) ==
  /\ call' = [call EXCEPT ![c] =
       [pc |-> "wait", id |-> i, update |-> None, error |-> None,
        expired |-> FALSE]]
  /\ answer' = [answer EXCEPT ![c] = NoAnswer]

Submit(c) ==
  /\ call[c].pc = "idle" /\ nextId \in OrderIds
  /\ CallBegins(c, nextId)
  /\ nextId' = nextId + 1
  /\ broker' = [broker EXCEPT ![nextId] = "submitted"]
  /\ UNCHANGED <<statusQueues, drained, changes, nUpdates, nErrors, rejections>>

Modify(c, i) ==
  /\ call[c].pc = "idle" /\ i < nextId /\ changes < MaxChanges
  /\ \A d \in Callers : call[d].id # i
  /\ CallBegins(c, i)
  /\ changes' = changes + 1
  /\ UNCHANGED <<statusQueues, drained, nextId, reports, rejections>>

(* One of the round's two get() tasks is done; asyncio.wait returns later,  *)
(* so the other may be done by then too.                                    *)
TakeUpdate(c) ==
  /\ call[c].pc = "wait" /\ call[c].update = None /\ updates # <<>>
  /\ call' = [call EXCEPT ![c].update = Head(updates)]
  /\ updates' = Tail(updates)
  /\ UNCHANGED <<errors, answer, drained, statusCounters, reports, rejections>>

TakeError(c) ==
  /\ call[c].pc = "wait" /\ call[c].error = None /\ errors # <<>>
  /\ call' = [call EXCEPT ![c].error = Head(errors)]
  /\ errors' = Tail(errors)
  /\ UNCHANGED <<updates, answer, drained, statusCounters, reports, rejections>>

Deadline(c) ==
  /\ call[c].pc = "wait" /\ ~call[c].expired
  /\ call' = [call EXCEPT ![c].expired = TRUE]
  /\ UNCHANGED <<statusQueues, answer, drained, statusCounters, reports, rejections>>

Requeued(queue, item) == IF item = None THEN queue ELSE Append(queue, item)

CallEnds(c, status) ==
  /\ call' = [call EXCEPT ![c] = NoCall]
  /\ answer' = [answer EXCEPT ![c] = [status |-> status, id |-> call[c].id]]

(* Faulty variant: the deadline is looked at only when nothing came.        *)
AnotherRoundForever(c) ==
  /\ call' = [call EXCEPT ![c].update = None, ![c].error = None]
  /\ UNCHANGED answer

(* Faulty variant: the update put back is still there in the next round.    *)
AnotherRoundKeeping(c) ==
  IF call[c].expired THEN CallEnds(c, "pending")
  ELSE /\ call' = [call EXCEPT ![c].error = None]
       /\ UNCHANGED answer

(* The loop goes on with a new round, or ends at the deadline.              *)
AnotherRound(c) ==
  IF call[c].expired THEN CallEnds(c, "pending")
  ELSE /\ call' = [call EXCEPT ![c].update = None, ![c].error = None]
       /\ UNCHANGED answer

(* Faulty variant: whichever order it is for.                               *)
ForAnyone(c, item) == item # None
ForCaller(c, item) == item # None /\ item.id = call[c].id

(* The done tasks are a set: an update the round took is put back before    *)
(* the error is looked at, or, the error first, it is dropped.              *)
AnsweredByError(c, putBackFirst) ==
  /\ call[c].pc = "wait" /\ ForCaller(c, call[c].error)
  /\ updates' = IF putBackFirst THEN Requeued(updates, call[c].update) ELSE updates
  /\ CallEnds(c, "rejected")
  /\ rejections' = rejections + 1
  /\ UNCHANGED <<errors, drained, statusCounters, reports>>

(* Faulty variant: a matching update is not put back.                       *)
AnsweredByUpdateTaken(c) ==
  LET u == call[c].update IN
  /\ call[c].pc = "wait" /\ ForCaller(c, u) /\ ~ForCaller(c, call[c].error)
  /\ u.status \in {"submitted", "cancelled"}
  /\ updates' = updates
  /\ errors' = Requeued(errors, call[c].error)
  /\ CallEnds(c, IF u.status = "submitted" THEN "open" ELSE "cancelled")
  /\ UNCHANGED <<drained, statusCounters, reports, rejections>>

AnsweredByUpdate(c) ==
  LET u == call[c].update IN
  /\ call[c].pc = "wait" /\ ForCaller(c, u) /\ ~ForCaller(c, call[c].error)
  /\ u.status \in {"submitted", "cancelled"}
  /\ updates' = Requeued(updates, u)
  /\ errors' = Requeued(errors, call[c].error)
  /\ CallEnds(c, IF u.status = "submitted" THEN "open" ELSE "cancelled")
  /\ UNCHANGED <<drained, statusCounters, reports, rejections>>

(* Neither item answers the call, or the update is a fill.                  *)
NotAnswered(c) ==
  LET u == call[c].update  e == call[c].error IN
  /\ call[c].pc = "wait" /\ (u # None \/ e # None)
  /\ ~ForCaller(c, e) /\ (ForCaller(c, u) => u.status = "filled")
  /\ updates' = Requeued(updates, u)
  /\ errors' = Requeued(errors, e)
  /\ AnotherRound(c)
  /\ UNCHANGED <<drained, statusCounters, reports, rejections>>

Timeout(c) ==
  /\ call[c].pc = "wait" /\ call[c].expired
  /\ call[c].update = None /\ call[c].error = None
  /\ CallEnds(c, "pending")
  /\ UNCHANGED <<statusQueues, drained, statusCounters, reports, rejections>>

-----------------------------------------------------------------------------
(* drain_order_updates, and the client's callbacks. *)

DrainUpdates ==
  /\ updates # <<>>
  /\ drained' = drained \cup {Head(updates).n}
  /\ updates' = Tail(updates)
  /\ UNCHANGED <<errors, call, answer, statusCounters, reports, rejections>>

(* TWS may repeat the last status of an order.                              *)
OrderStatus(i, status) ==
  /\ i < nextId /\ nUpdates < MaxUpdates /\ broker[i] \in {"submitted", status}
  /\ broker' = [broker EXCEPT ![i] = status]
  /\ nUpdates' = nUpdates + 1
  /\ updates' = Append(updates, [id |-> i, status |-> status, n |-> nUpdates + 1])
  /\ UNCHANGED <<errors, call, answer, drained, statusCounters, nErrors, rejections>>

(* A rejection, or the error of a change or a cancellation.                 *)
ErrorReport(i) ==
  /\ i < nextId /\ nErrors < MaxErrors
  /\ nErrors' = nErrors + 1
  /\ errors' = Append(errors, [id |-> i, n |-> nErrors + 1])
  /\ UNCHANGED <<updates, call, answer, drained, statusCounters, broker, nUpdates, rejections>>

-----------------------------------------------------------------------------

StatusInit ==
  /\ updates = <<>> /\ errors = <<>> /\ drained = {}
  /\ call = [c \in Callers |-> NoCall] /\ answer = [c \in Callers |-> NoAnswer]
  /\ broker = [i \in OrderIds |-> "none"]
  /\ nextId = 1 /\ changes = 0 /\ nUpdates = 0 /\ nErrors = 0 /\ rejections = 0

(* _initial_order_status once its call is made.                             *)
Wait(c) == \/ TakeUpdate(c) \/ TakeError(c)
           \/ \E first \in BOOLEAN : AnsweredByError(c, first)
           \/ AnsweredByUpdate(c) \/ NotAnswered(c) \/ Timeout(c)

StatusNext ==
  \/ \E c \in Callers : Submit(c) \/ Deadline(c) \/ Wait(c)
                        \/ \E i \in OrderIds : Modify(c, i)
  \/ DrainUpdates
  \/ \E i \in OrderIds : ErrorReport(i) \/ \E s \in BrokerStatuses : OrderStatus(i, s)

StatusSpec == StatusInit /\ [][StatusNext]_statusVars

(* Time passes, and the loop runs a caller whose await is over.             *)
StatusFairness == \A c \in Callers : WF_statusVars(Deadline(c)) /\ WF_statusVars(Wait(c))

-----------------------------------------------------------------------------
(* Properties. *)

StatusTypeOK ==
  /\ updates \in Seq(Update) /\ errors \in Seq(Error)
  /\ call \in [Callers -> Call] /\ answer \in [Callers -> Answer]
  /\ drained \subseteq 1..MaxUpdates
  /\ broker \in [OrderIds -> BrokerStatuses \cup {"none"}]
  /\ nextId \in 1..(MaxOrders + 1) /\ changes \in 0..MaxChanges
  /\ nUpdates \in 0..MaxUpdates /\ nErrors \in 0..MaxErrors /\ rejections \in Nat

(* Where the updates are, by number.                                        *)
Numbers(queue) == {queue[k].n : k \in DOMAIN queue}
Queued == Numbers(updates)
HeldBy(c) == IF call[c].update = None THEN {} ELSE {call[c].update.n}
Held == UNION {HeldBy(c) : c \in Callers}
Stolen == (1..nUpdates) \ (Queued \cup Held \cup drained)

Distinct(queue) == \A j, k \in DOMAIN queue : queue[j].n = queue[k].n => j = k

(* However often callers take an update and put it back, it is in one place: *)
(* on the queue, with a caller, or drained.                                 *)
EachUpdateOnce ==
  /\ Distinct(updates)
  /\ \A c, d \in Callers : c # d => HeldBy(c) \cap HeldBy(d) = {}
  /\ Queued \cap Held = {} /\ Queued \cap drained = {} /\ Held \cap drained = {}

(* What makes it inductive: no update is there before it is reported.       *)
StatusInv ==
  /\ StatusTypeOK /\ EachUpdateOnce
  /\ Queued \subseteq 1..nUpdates /\ Held \subseteq 1..nUpdates /\ drained \subseteq 1..nUpdates
  /\ \A c \in Callers : call[c].pc = "idle" => call[c].update = None

(* The promise to the drain: nothing twice, nothing lost but beside an error*)
(* that answers the call which took both.                                   *)
Promise == INSTANCE UpdateStream
             WITH sent <- nUpdates, taken <- drained, lost <- Stolen, rejected <- rejections

KeepsPromise == Promise!Spec

(* A call that says cancelled is right about its own order, whichever tasks *)
(* read the queues and put back what they took.                             *)
CancelledIsTrue ==
  \A c \in Callers : answer[c].status = "cancelled" => broker[answer[c].id] = "cancelled"

(* Every call returns, whatever else is on the queues.                      *)
CallsReturn == \A c \in Callers : call[c].pc = "wait" ~> call[c].pc = "idle"
=============================================================================
