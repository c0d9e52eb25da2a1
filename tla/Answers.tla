------------------------------- MODULE Answers -------------------------------
(***************************************************************************)
(* Numbered requests to the IBKR service, one after the other on one queue *)
(* of IBKRClient: account summary, history, contract details, option       *)
(* chain and quote.  The service may answer late or in part; what comes    *)
(* after the deadline stays in the queue, in front of later answers.       *)
(*                                                                         *)
(* Whether wait_for lets the loop run callbacks between two items that are *)
(* queued depends on the Python: up to 3.11 it does, from 3.12 on neither  *)
(* get of a queue that is not empty nor put suspends the task.  Both are   *)
(* modelled.  The numbers of a connection are unique; no reconnect is      *)
(* modelled here.                                                          *)
(***************************************************************************)
EXTENDS Integers, Sequences, FiniteSets

CONSTANTS
  Requests,        \* the last request of a run, a bound of the model
  Items            \* the items of an answer, before its end marker

ASSUME AnswerConstants == Requests \in Nat /\ Items \in Nat

VARIABLES
  yields,          \* does wait_for suspend the task on a queue with items
  asked,           \* requests made so far: the last is the one under way
  waiting,         \* is one under way
  suspended,       \* does its task wait, so that the loop runs callbacks
  drops,           \* does it drop the items of others
  sent,            \* items the service has sent of each answer, with its marker
  heard,           \* those of them the loop has put on the queue
  answerQ,         \* the queue: pairs of a request and an item
  got,             \* what the request under way has collected
  results          \* what the requests returned: items, and was it in full

requestVars == <<asked, drops, got, results>>
answerVars == <<yields, waiting, suspended, sent, heard, answerQ, requestVars>>

End == Items + 1

AnswerInit ==
  /\ yields \in BOOLEAN
  /\ asked = 0 /\ waiting = FALSE /\ suspended = FALSE /\ drops = FALSE
  /\ sent = [r \in 1..Requests |-> 0] /\ heard = sent /\ answerQ = <<>>
  /\ got = {} /\ results = [r \in 1..Requests |-> [how |-> "none", items |-> {}]]

(* wait_for(queue.get()), as the task comes to it with the queue q.         *)
Awaits(q) == suspended' = (yields \/ q = <<>>)

(* resolve_front_month_future drops what is not its own.                    *)
Ask ==
  /\ ~waiting /\ asked < Requests
  /\ asked' = asked + 1 /\ waiting' = TRUE /\ got' = {}
  /\ drops' \in BOOLEAN /\ Awaits(answerQ)
  /\ UNCHANGED <<yields, sent, heard, answerQ, results>>

(* The next item, or the end marker, reaches the reader thread, which hands *)
(* it to the loop.                                                          *)
Reply(r) ==
  /\ r \in 1..asked /\ sent[r] < End
  /\ sent' = [sent EXCEPT ![r] = @ + 1]
  /\ UNCHANGED <<yields, waiting, suspended, heard, answerQ, requestVars>>

(* The loop runs the callback: not before the reading task waits.           *)
Deliver(r) ==
  /\ heard[r] < sent[r] /\ (waiting => suspended)
  /\ heard' = [heard EXCEPT ![r] = @ + 1]
  /\ answerQ' = Append(answerQ, <<r, heard[r] + 1>>)
  /\ UNCHANGED <<yields, waiting, suspended, sent, requestVars>>

(* Faulty variant: the number of an item is not looked at.                  *)
AnyItem(item) == TRUE
OwnItem(item) == item[1] = asked

Return(how) ==
  /\ results' = [results EXCEPT ![asked] = [how |-> how, items |-> got]]
  /\ waiting' = FALSE /\ suspended' = FALSE
  /\ UNCHANGED <<yields, asked, drops, sent, heard, got>>

TakeEnd ==
  /\ waiting /\ answerQ # <<>> /\ OwnItem(Head(answerQ)) /\ Head(answerQ)[2] = End
  /\ answerQ' = Tail(answerQ) /\ Return("full")

TakeItem ==
  /\ waiting /\ answerQ # <<>> /\ OwnItem(Head(answerQ)) /\ Head(answerQ)[2] # End
  /\ answerQ' = Tail(answerQ) /\ got' = got \cup {Head(answerQ)} /\ Awaits(answerQ')
  /\ UNCHANGED <<yields, asked, waiting, drops, sent, heard, results>>

(* Faulty variant: an item of another request goes back to the front.       *)
PutBackInFront ==
  /\ waiting /\ answerQ # <<>> /\ ~OwnItem(Head(answerQ)) /\ ~drops
  /\ answerQ' = <<Head(answerQ)>> \o Tail(answerQ) /\ Awaits(answerQ')
  /\ UNCHANGED <<yields, waiting, sent, heard, requestVars>>

(* An item of another request goes back to the end of the queue: without    *)
(* suspending, unless the next wait_for does.                               *)
PutBack ==
  /\ waiting /\ answerQ # <<>> /\ ~OwnItem(Head(answerQ)) /\ ~drops
  /\ answerQ' = Append(Tail(answerQ), Head(answerQ)) /\ Awaits(answerQ')
  /\ UNCHANGED <<yields, waiting, sent, heard, requestVars>>

DropItem ==
  /\ waiting /\ answerQ # <<>> /\ ~OwnItem(Head(answerQ)) /\ drops
  /\ answerQ' = Tail(answerQ) /\ Awaits(answerQ')
  /\ UNCHANGED <<yields, waiting, sent, heard, requestVars>>

(* The deadline of a wait, which may fire as an item comes in.              *)
GiveUp == waiting /\ suspended /\ Return("timeout") /\ UNCHANGED answerQ

(* Faulty variant: see PutBackInFront.                                      *)
TakingInFront == TakeEnd \/ TakeItem \/ PutBackInFront \/ DropItem
Taking == TakeEnd \/ TakeItem \/ PutBack \/ DropItem
Delivery == \E r \in 1..Requests : Deliver(r)

AnswerNext == Ask \/ (\E r \in 1..Requests : Reply(r)) \/ Delivery \/ Taking \/ GiveUp

(* The loop runs its tasks, and its callbacks as long as no task holds it;  *)
(* the service may stop in the middle of an answer.                         *)
AnswerFairness == WF_answerVars(Taking) /\ WF_answerVars(Delivery)

AnswerSpec == AnswerInit /\ [][AnswerNext]_answerVars

-----------------------------------------------------------------------------
(* Properties. *)

(* A request that returns before its deadline returns its own answer and   *)
(* all of it, whatever late answers are in the queue.                      *)
WholeAnswers ==
  \A r \in 1..Requests :
    results[r].how = "full" => results[r].items = {<<r, k>> : k \in 1..Items}

(* The induction behind it: of the answer under way, what the loop has       *)
(* heard is read or queued, in the order of the items.                      *)
AnswerItems == (1..Requests) \X (1..End)
AnswerTypeOK ==
  /\ yields \in BOOLEAN /\ asked \in 0..Requests
  /\ waiting \in BOOLEAN /\ suspended \in BOOLEAN /\ drops \in BOOLEAN
  /\ sent \in [1..Requests -> 0..End] /\ heard \in [1..Requests -> 0..End]
  /\ answerQ \in Seq(AnswerItems)
  /\ results \in [1..Requests -> [how : {"none", "full", "timeout"}, items : SUBSET AnswerItems]]
QueuedWereHeard == \A k \in DOMAIN answerQ : answerQ[k][2] <= heard[answerQ[k][1]]
OwnInOrder ==
  \A j, k \in DOMAIN answerQ :
    j < k /\ OwnItem(answerQ[j]) /\ OwnItem(answerQ[k]) => answerQ[j][2] < answerQ[k][2]
OwnReadOrQueued ==
  /\ got \subseteq {<<asked, n>> : n \in 1..Items}
  /\ waiting => /\ asked # 0
                /\ \A n \in 1..heard[asked] :
                     <<asked, n>> \in got \/ \E k \in DOMAIN answerQ : answerQ[k] = <<asked, n>>
AnswerInv ==
  /\ AnswerTypeOK
  /\ \A r \in 1..Requests : heard[r] <= sent[r] /\ (r > asked => sent[r] = 0)
  /\ QueuedWereHeard /\ OwnInOrder /\ OwnReadOrQueued /\ WholeAnswers

(* The task that reads holds the loop: an item of another request goes     *)
(* round in the queue, and the rest of the answer is not let in.  From     *)
(* Python 3.12 on one late item is enough, and no deadline ends it.        *)
Spins ==
  /\ waiting /\ ~suspended /\ ~drops
  /\ heard[asked] < End /\ \E k \in DOMAIN answerQ : ~OwnItem(answerQ[k])

(* A request the service answers in full returns, however many late answers *)
(* it puts back again and again, or its task holds the loop for good.       *)
AnsweredReturns ==
  \A r \in 1..Requests :
    (asked = r /\ sent[r] = End) ~> (asked # r \/ ~waiting \/ Spins)
=============================================================================
