------------------------------ MODULE BarStream ------------------------------
(***************************************************************************)
(* The subscriptions of IBKRDataProvider for one instrument.  After a      *)
(* reconnect the monitor subscribes again under a new number; the service  *)
(* may have kept the old subscription, which nobody cancels, and bars of   *)
(* both are in bar_queue.                                                  *)
(***************************************************************************)
EXTENDS Integers, Sequences, FiniteSets

CONSTANTS
  Ticks,           \* five-second bars of a run, a bound of the model
  Subscriptions    \* subscriptions of a run, a bound of the model

ASSUME BarStreamConstants == Ticks \in Nat /\ Subscriptions \in Nat

VARIABLES
  number,          \* _subscriptions: the current number, 0 for none
  mapped,          \* _req_id_to_instrument
  used,            \* the last number given out
  active,          \* subscriptions the service serves
  ticked,          \* bars it has sent
  barQ,            \* bar_queue
  yielded          \* the bars the engine got, in order

streamVars == <<number, mapped, used, active, ticked, barQ, yielded>>

StreamInit ==
  /\ number = 0 /\ mapped = {} /\ used = 0
  /\ active = {} /\ ticked = 0 /\ barQ = <<>> /\ yielded = <<>>

(* Faulty variant: resubscribe_all keeps the old numbers.                   *)
NumbersKept == mapped
NumbersCleared == {}

(* subscribe, and resubscribe_all after a reconnect, of which the service  *)
(* keeps the subscriptions in `kept`.                                      *)
Subscribe(kept) ==
  /\ used < Subscriptions
  /\ used' = used + 1 /\ number' = used + 1
  /\ mapped' = NumbersCleared \cup {used + 1}
  /\ active' = kept \cup {used + 1}
  /\ UNCHANGED <<ticked, barQ, yielded>>

Unsubscribe ==
  /\ number # 0 /\ number' = 0
  /\ mapped' = mapped \ {number} /\ active' = active \ {number}
  /\ UNCHANGED <<used, ticked, barQ, yielded>>

(* The service sends a bar to each of its subscriptions, in any order.      *)
SendBar(order) ==
  /\ ticked < Ticks /\ ticked' = ticked + 1
  /\ barQ' = barQ \o [k \in DOMAIN order |-> <<order[k], ticked + 1>>]
  /\ UNCHANGED <<number, mapped, used, active, yielded>>

(* bars: a bar under a number that is not mapped is dropped.                *)
YieldBar ==
  /\ barQ # <<>> /\ barQ' = Tail(barQ)
  /\ yielded' = IF Head(barQ)[1] \in mapped THEN Append(yielded, Head(barQ)[2]) ELSE yielded
  /\ UNCHANGED <<number, mapped, used, active, ticked>>

StreamNext ==
  \/ \E kept \in SUBSET active : Subscribe(kept)
  \/ Unsubscribe
  \/ \E order \in [1..Cardinality(active) -> active] :
       (\A j, k \in DOMAIN order : order[j] = order[k] => j = k) /\ SendBar(order)
  \/ YieldBar

StreamSpec == StreamInit /\ [][StreamNext]_streamVars

-----------------------------------------------------------------------------
(* Properties. *)

(* No bar reaches the engine twice or out of order, also while the service *)
(* serves an old subscription besides the new one: the volume of a minute  *)
(* counts each of its bars once.                                           *)
BarsOnce == \A j, k \in DOMAIN yielded : j < k => yielded[j] < yielded[k]

(* The induction behind it: the bars of a number are queued in order, and  *)
(* those under the mapped number come after all that were yielded.         *)
StreamTypeOK ==
  /\ used \in Nat /\ ticked \in Nat /\ number \in 0..used
  /\ mapped \subseteq {number} \cap (1..used) /\ active \subseteq 1..used
  /\ barQ \in Seq((1..used) \X (1..ticked)) /\ yielded \in Seq(1..ticked)
QueuedInOrder ==
  \A j, k \in DOMAIN barQ : j < k /\ barQ[j][1] = barQ[k][1] => barQ[j][2] < barQ[k][2]
MappedComeAfter ==
  \A k \in DOMAIN barQ : barQ[k][1] \in mapped =>
    \A j \in DOMAIN yielded : yielded[j] < barQ[k][2]
StreamInv == StreamTypeOK /\ QueuedInOrder /\ MappedComeAfter /\ BarsOnce
=============================================================================
