----------------------------- MODULE OpenOrders -----------------------------
(***************************************************************************)
(* IBKRBroker.get_all_open_orders.  The queue of openOrder callbacks has   *)
(* no request numbers, and the service also reports an order on its own    *)
(* when it is placed: a request reads whatever came since the last one, up *)
(* to the first end marker.  get_all_positions has the same loop.          *)
(***************************************************************************)
EXTENDS Integers, Sequences, FiniteSets

CONSTANTS
  Orders,          \* orders of a run
  Asks             \* requests of a run, a bound of the model

ASSUME OpenOrdersConstants == Asks \in Nat /\ IsFiniteSet(Orders)

VARIABLES
  life,            \* of each order at the service: new, working or over
  openQ,           \* open_order_queue: orders, and markers with their request
  made,            \* requests made
  served,          \* requests the service answered
  truth,           \* the orders that worked when it did
  reading,         \* is a request under way
  listed,          \* the orders it has read
  giveUps,         \* requests that timed out
  listing          \* the last listing that came in full

ordersVars == <<life, openQ, made, served, truth, reading, listed, giveUps, listing>>

Working == {o \in Orders : life[o] = "working"}
OrderItem(o) == [kind |-> "order", order |-> o]
Marker(n) == [kind |-> "end", of |-> n]

OrdersInit ==
  /\ life = [o \in Orders |-> "new"] /\ openQ = <<>>
  /\ made = 0 /\ served = 0 /\ truth = [n \in 1..Asks |-> {}]
  /\ reading = FALSE /\ listed = {} /\ giveUps = 0
  /\ listing = [of |-> 0, by |-> 0, orders |-> {}]

(* The service: an order is placed, ends, and a request is answered with   *)
(* the orders that work, in any order.                                     *)
Placed(o) ==
  /\ life[o] = "new" /\ life' = [life EXCEPT ![o] = "working"]
  /\ openQ' = Append(openQ, OrderItem(o))
  /\ UNCHANGED <<made, served, truth, reading, listed, giveUps, listing>>

Ends(o) ==
  /\ life[o] = "working" /\ life' = [life EXCEPT ![o] = "over"]
  /\ UNCHANGED <<openQ, made, served, truth, reading, listed, giveUps, listing>>

Serve(report) ==
  /\ served < made /\ served' = served + 1
  /\ \A o \in Working : \E k \in DOMAIN report : report[k] = o
  /\ truth' = [truth EXCEPT ![served + 1] = Working]
  /\ openQ' = Append(openQ \o [k \in DOMAIN report |-> OrderItem(report[k])], Marker(served + 1))
  /\ UNCHANGED <<life, made, reading, listed, giveUps, listing>>

AskOpen ==
  /\ ~reading /\ made < Asks
  /\ made' = made + 1 /\ reading' = TRUE /\ listed' = {}
  /\ UNCHANGED <<life, openQ, served, truth, giveUps, listing>>

(* Faulty variant: a later order of the account replaces the earlier one.   *)
ReplacedBy(o) == {o}
Collected(o) == listed \cup {o}

ReadOrder ==
  /\ reading /\ openQ # <<>> /\ Head(openQ).kind = "order"
  /\ openQ' = Tail(openQ) /\ listed' = Collected(Head(openQ).order)
  /\ UNCHANGED <<life, made, served, truth, reading, giveUps, listing>>

ReadEnd ==
  /\ reading /\ openQ # <<>> /\ Head(openQ).kind = "end"
  /\ openQ' = Tail(openQ) /\ reading' = FALSE
  /\ listing' = [of |-> Head(openQ).of, by |-> made, orders |-> listed]
  /\ UNCHANGED <<life, made, served, truth, listed, giveUps>>

StopReading ==
  /\ reading /\ openQ = <<>> /\ reading' = FALSE /\ giveUps' = giveUps + 1
  /\ UNCHANGED <<life, openQ, made, served, truth, listed, listing>>

OrdersNext ==
  \/ \E o \in Orders : Placed(o) \/ Ends(o)
  \/ \E report \in [1..Cardinality(Working) -> Working] : Serve(report)
  \/ AskOpen \/ ReadOrder \/ ReadEnd \/ StopReading

OrdersSpec == OrdersInit /\ [][OrdersNext]_ordersVars

-----------------------------------------------------------------------------
(* Properties. *)

(* What the reconciliation and the start-up check may rely on: a listing    *)
(* lags behind its request by no more requests than have timed out; while  *)
(* none has, it is the answer to its own request and lists every order     *)
(* that worked, with some that no longer do.                               *)
OpenOrdersInStep ==
  listing.of # 0 =>
    /\ listing.by - listing.of \in 0..giveUps
    /\ giveUps = 0 => truth[listing.of] \subseteq listing.orders

(* The induction behind it: the markers queued are those after the last    *)
(* one read, in order, and requests end by a marker or by giving up.       *)
QueueItems == [kind : {"order"}, order : Orders] \cup [kind : {"end"}, of : 1..Asks]
StillQueued(k, n) == k \in DOMAIN openQ /\ openQ[k] = Marker(n)
ListingTypeOK ==
  /\ made \in 0..Asks /\ served \in 0..made /\ giveUps \in Nat
  /\ reading \in BOOLEAN /\ listed \subseteq Orders
  /\ truth \in [1..Asks -> SUBSET Orders]
  /\ listing \in [of : 0..served, by : 0..made, orders : SUBSET Orders]
  /\ openQ \in Seq(QueueItems)
MarkersInOrder ==
  /\ \A n \in (listing.of + 1)..served : \E k \in DOMAIN openQ : StillQueued(k, n)
  /\ \A j, k \in DOMAIN openQ : \A m, n \in 1..Asks :
       /\ StillQueued(j, m) => m \in (listing.of + 1)..served
       /\ StillQueued(j, m) /\ StillQueued(k, n) /\ j < k => m < n
EachEndsOnce == made = listing.of + giveUps + (IF reading THEN 1 ELSE 0)
AnswersComplete ==
  giveUps = 0 =>
    \A k \in DOMAIN openQ : \A n \in 1..Asks : StillQueued(k, n) =>
      \A o \in truth[n] : o \in listed \/ \E j \in 1..(k - 1) : openQ[j] = OrderItem(o)
OrdersInv ==
  ListingTypeOK /\ MarkersInOrder /\ EachEndsOnce /\ AnswersComplete /\ OpenOrdersInStep
=============================================================================
