---------------------------- MODULE OrderManager ----------------------------
(***************************************************************************)
(* core/orders/order_manager.py together with the parts of the engine that *)
(* call it and of the IBKR adapter it calls.                               *)
(*                                                                         *)
(* Four asyncio tasks touch the manager's dictionaries: the bar loop       *)
(* (exits, closes, protective-stop updates), drain_orders (entries),       *)
(* drain_fills and drain_order_updates.  Every submit_order/modify_order   *)
(* waits up to 1.5 s for an initial status; the other tasks run meanwhile. *)
(* A submission is therefore two actions, X and XReturn, and `bar`, `ent`  *)
(* and `fil` hold the local variables of a task across the wait.  The      *)
(* adapter's reserve_order_id and cancel_order never suspend, so what      *)
(* surrounds them is one action.                                           *)
(*                                                                         *)
(* One execution instrument.  A lot is a (strategy, trade id) pair, the    *)
(* position key of the code without that instrument.                       *)
(***************************************************************************)
EXTENDS Integers, Sequences, FiniteSets, FiniteSetsExt

CONSTANTS
  Strategies,      \* strategy ids
  TradeIds,        \* logical trade ids
  NoTrade,         \* Python's None in place of a trade id
  NoLot,           \* a missing dictionary entry
  MultiPosition,   \* strategies whose policy is multi_position
  Protected,       \* strategies that declare a protective stop
  SessionOnly,     \* of these, the ones whose stops are cancelled at 15:59
  EntryLots,       \* the lots that entry signals name
  EntrySides,      \* 1 for long, -1 for short entries
  AdoptedLot,      \* the lot adopted at start-up, or NoLot
  AdoptedQty,      \* its signed quantity
  OrderQty,        \* the quantity RiskPolicy.size_order returns
  MaxPositions,    \* PositionPolicy.max_positions
  MaxOrders,       \* bound: broker order ids
  MaxQueue,        \* bound: queued entry signals
  MaxLevel,        \* bound: stop prices are 1..MaxLevel
  Concurrent       \* TRUE: live tasks; FALSE: the inline drains of a simulated run

Lots == Strategies \X (TradeIds \cup {NoTrade})
OrderIds == 1..MaxOrders
NoId == 0
Roles == {"entry", "close", "protective_stop"}
Statuses == {"unsent", "working", "filled", "dead"}
Sides == {-1, 1}

ASSUME ConstantsAssumption ==
  /\ NoLot \notin Lots
  /\ NoTrade \notin TradeIds
  /\ MultiPosition \subseteq Strategies
  /\ SessionOnly \subseteq Protected /\ Protected \subseteq Strategies
  /\ EntryLots \subseteq Lots
  \* _resolve_trade_id gives each lot of a multi_position strategy an id.
  /\ \A l \in EntryLots : l[1] \in MultiPosition => l[2] # NoTrade
  \* The trade id of an adopted aggregate is not modelled.
  /\ AdoptedLot # NoLot => AdoptedLot[1] \in MultiPosition \/ AdoptedLot[2] = NoTrade
  /\ EntrySides \subseteq Sides
  /\ AdoptedLot \in Lots \cup {NoLot} /\ AdoptedQty \in Int
  /\ OrderQty \in Nat \ {0} /\ MaxPositions \in Nat
  /\ MaxOrders \in Nat \ {0} /\ MaxQueue \in Nat /\ MaxLevel \in Nat \ {0}
  /\ Concurrent \in BOOLEAN

VARIABLES
  \* the OrderManager's dictionaries
  owner, role,             \* _order_owner with _order_trade_id, _order_role
  pendingClose, closeKey,  \* _pending_closes, _close_keys_by_order_id
  stopOrders, stopKey,     \* _protective_stop_orders, _protective_stop_keys_by_order_id
  stopReq,                 \* _protective_stop_requests: the stop price, 0 when absent
  queue,                   \* _queue of entry signals
  \* PortfolioState
  wide, agg, lotQty,       \* broker-wide, per strategy, per lot
  lost,                    \* history: orders a fill of which had no owner
  raised,                  \* history: lots for a fill of which the stop was not sent
  \* the broker and the queues the client callbacks fill
  orders, nextId, cancelReq, fillQ, updQ,
  \* local variables of the tasks across an await
  bar, ent, fil

omVars == <<owner, role, pendingClose, closeKey, stopOrders, stopKey, stopReq>>
closeVars == <<pendingClose, closeKey>>
stopVars == <<stopOrders, stopKey, stopReq>>
bookVars == <<wide, agg, lotQty, lost>>
brokerVars == <<orders, nextId, cancelReq, fillQ, updQ>>
vars == <<omVars, queue, bookVars, raised, brokerVars, bar, ent, fil>>

Abs(n) == IF n < 0 THEN -n ELSE n
\* Faulty variant: a close on the position's own side.
ExitSideSame(n) == IF n < 0 THEN -1 ELSE 1
\* A position is left on its opposite side.
ExitSide(n) == IF n < 0 THEN 1 ELSE -1

Idle == [pc |-> "idle", lot |-> NoLot, id |-> NoId]
BarIdle == [pc |-> "idle", todo |-> {}, entry |-> FALSE, strategy |-> NoLot,
            lot |-> NoLot, id |-> NoId, level |-> 0]
Unsent == [status |-> "unsent", lot |-> NoLot, role |-> "none", side |-> 1,
           left |-> 0, done |-> 0, level |-> 0]

(* A simulated run drains inline, so no handler runs inside another's await. *)
MayRun == Concurrent \/ (bar.pc = "idle" /\ ent.pc = "idle" /\ fil.pc = "idle")

-----------------------------------------------------------------------------
(* The manager's private helpers. *)

Register(i, l, r) ==
  /\ owner' = [owner EXCEPT ![i] = l]
  /\ role' = [role EXCEPT ![i] = r]

ClearTracking(i) ==
  /\ owner' = [owner EXCEPT ![i] = NoLot]
  /\ role' = [role EXCEPT ![i] = "none"]

(* After the await the order is registered again if a handler dropped it.   *)
CompleteRegistration(i, l, r) ==
  IF owner[i] = NoLot THEN Register(i, l, r) ELSE UNCHANGED <<owner, role>>

ClearPendingClose(i) ==
  /\ closeKey' = [closeKey EXCEPT ![i] = NoLot]
  /\ pendingClose' = [k \in Lots |-> IF closeKey[i] = k /\ pendingClose[k] = i
                                     THEN NoId ELSE pendingClose[k]]

ClearReservation(k, i) ==
  /\ pendingClose' = [pendingClose EXCEPT ![k] = IF @ = i THEN NoId ELSE @]
  /\ UNCHANGED closeKey

(* Faulty variant: the reverse entry stays.                                 *)
ClearStopsKeepingKey(ids) ==
  /\ stopReq' = [i \in OrderIds |-> IF i \in ids THEN 0 ELSE stopReq[i]]
  /\ stopOrders' = [k \in Lots |->
                      stopOrders[k] \ {i \in ids : stopKey[i] = k}]
  /\ UNCHANGED stopKey

ClearStops(ids) ==
  /\ stopReq' = [i \in OrderIds |-> IF i \in ids THEN 0 ELSE stopReq[i]]
  /\ stopKey' = [i \in OrderIds |-> IF i \in ids THEN NoLot ELSE stopKey[i]]
  /\ stopOrders' = [k \in Lots |->
                      stopOrders[k] \ {i \in ids : stopKey[i] = k}]

TrackStop(i, k, level) ==
  /\ stopOrders' = [stopOrders EXCEPT ![k] = @ \cup {i}]
  /\ stopKey' = [stopKey EXCEPT ![i] = k]
  /\ stopReq' = [stopReq EXCEPT ![i] = level]

CancelStopsOf(k) ==
  /\ cancelReq' = cancelReq \cup stopOrders[k]
  /\ ClearStops(stopOrders[k])

(* The tracked stops whose request is known; the code takes the first in    *)
(* the order of the ids (as strings, here of one length).                   *)
ActiveStops(k) == {i \in stopOrders[k] : stopReq[i] # 0}
IsActiveStop(i, k) == i \in ActiveStops(k) /\ \A j \in ActiveStops(k) : i <= j

Improves(side, new, old) == IF side = -1 THEN new > old ELSE new < old
(* The stop a strategy declares for a fill, the loosest its side can have.  *)
FirstLevel(side) == IF side = -1 THEN 1 ELSE MaxLevel
(* broker.submit_order: placeOrder sends the order before the first await.  *)
Place(i, l, r, side, qty, level) ==
  /\ i = nextId /\ i \in OrderIds
  /\ nextId' = i + 1
  /\ orders' = [orders EXCEPT ![i] =
       [status |-> "working", lot |-> l, role |-> r, side |-> side,
        left |-> qty, done |-> 0, level |-> level]]

(* Faulty variant: a wait that ends without an answer counts as a refusal.  *)
MayRefuseUnanswered(i) == orders[i].status # "unsent"

(* What the initial status may say: a rejection or a cancellation only when *)
(* the broker ended the order.  "pending" is always possible: the handler of *)
(* the update may take it first, and the wait ends after 1.5 s.             *)
MayRefuse(i) == orders[i].status = "dead"

-----------------------------------------------------------------------------
(* The bar loop. *)

(* get_strategy_position(s): a single_position strategy exits its aggregate,*)
(* which carries no trade id; a multi_position one its open lots.           *)
OpenLots(s) == {[lot |-> l, qty |-> lotQty[l]] :
                  l \in {k \in Lots : k[1] = s /\ lotQty[k] # 0}}
Aggregate(s) == IF agg[s] = 0 THEN {}
                ELSE {[lot |-> <<s, NoTrade>>, qty |-> agg[s]]}
Positions(s) == IF s \in MultiPosition /\ OpenLots(s) # {}
                THEN OpenLots(s) ELSE Aggregate(s)
MayEnter(s) == IF s \in MultiPosition
               THEN Cardinality(Positions(s)) < MaxPositions
               ELSE Positions(s) = {}

(* The positions are a snapshot: on_exit then runs in the thread pool.      *)
BarDispatch(s) ==
  /\ bar.pc = "idle" /\ MayRun
  /\ bar' = [BarIdle EXCEPT !.pc = IF Positions(s) = {} THEN "entry" ELSE "exits",
                            !.todo = Positions(s), !.entry = MayEnter(s),
                            !.strategy = s]
  /\ UNCHANGED <<omVars, queue, bookVars, raised, brokerVars, ent, fil>>

(* Where the loop goes once only the positions in rest remain.              *)
GoOn(rest) ==
  IF rest = {} /\ ~bar.entry THEN BarIdle
  ELSE [BarIdle EXCEPT !.todo = rest, !.entry = bar.entry, !.strategy = bar.strategy,
                       !.pc = IF rest = {} THEN "entry" ELSE "exits"]

Await(p, pc, i, level) ==
  [bar EXCEPT !.todo = @ \ {p}, !.pc = pc, !.lot = p.lot, !.id = i,
              !.level = level]

(* The wait is over: the bar loop goes on with the remaining positions.     *)
Resume == bar' = GoOn(bar.todo)

(* No exit and no stop update; or submit_close drops a lot whose close is   *)
(* pending; or ensure_protective_stop skips a price that is no improvement. *)
ExitDropped(p) ==
  /\ bar.pc = "exits" /\ p \in bar.todo
  /\ bar' = GoOn(bar.todo \ {p})
  /\ UNCHANGED <<omVars, queue, bookVars, raised, brokerVars, ent, fil>>

(* Faulty variant: nothing asks whether a close is pending.                 *)
ExitCloseAgain(p, i) ==
  /\ bar.pc = "exits" /\ p \in bar.todo
  /\ Place(i, p.lot, "close", ExitSide(p.qty), Abs(p.qty), 0)
  /\ pendingClose' = [pendingClose EXCEPT ![p.lot] = i]
  /\ Register(i, p.lot, "close")
  /\ bar' = Await(p, "close", i, 0)
  /\ UNCHANGED <<closeKey, stopVars, queue, bookVars, raised,
                 cancelReq, fillQ, updQ, ent, fil>>

(* submit_close up to its await.                                            *)
ExitClose(p, i) ==
  /\ bar.pc = "exits" /\ p \in bar.todo
  /\ pendingClose[p.lot] = NoId
  /\ Place(i, p.lot, "close", ExitSide(p.qty), Abs(p.qty), 0)
  /\ pendingClose' = [pendingClose EXCEPT ![p.lot] = i]
  /\ Register(i, p.lot, "close")
  /\ bar' = Await(p, "close", i, 0)
  /\ UNCHANGED <<closeKey, stopVars, queue, bookVars, raised,
                 cancelReq, fillQ, updQ, ent, fil>>

(* The rest of submit_close.                                                *)
CloseAccepted ==
  LET i == bar.id  k == bar.lot IN
  /\ bar.pc = "close"
  /\ CompleteRegistration(i, k, "close")
  /\ pendingClose' = [pendingClose EXCEPT ![k] = i]
  /\ closeKey' = [closeKey EXCEPT ![i] = k]
  /\ CancelStopsOf(k)
  /\ Resume
  /\ UNCHANGED <<queue, bookVars, raised, orders, nextId, fillQ, updQ, ent, fil>>

CloseRefused ==
  LET i == bar.id  k == bar.lot IN
  /\ bar.pc = "close" /\ MayRefuse(i)
  /\ ClearReservation(k, i)
  /\ ClearTracking(i)
  /\ Resume
  /\ UNCHANGED <<stopVars, queue, bookVars, raised, brokerVars, ent, fil>>
(* ensure_protective_stop without a tracked stop, up to its await.          *)
ExitNewStop(p, i, level) ==
  /\ bar.pc = "exits" /\ p \in bar.todo /\ p.lot[1] \in Protected
  /\ ActiveStops(p.lot) = {}
  /\ Place(i, p.lot, "protective_stop", ExitSide(p.qty), Abs(p.qty), level)
  /\ Register(i, p.lot, "protective_stop")
  /\ bar' = Await(p, "stop", i, level)
  /\ UNCHANGED <<closeVars, stopVars, queue, bookVars, raised,
                 cancelReq, fillQ, updQ, ent, fil>>

(* What the broker makes of a modification: TWS counts the quantity from    *)
(* the first fill, takes no change of side, and may refuse for its reasons. *)
BrokerModifies(i, side, qty, level) ==
  /\ orders[i].status = "working" /\ orders[i].side = side /\ qty > orders[i].done
  /\ orders' = [orders EXCEPT ![i].left = qty - orders[i].done, ![i].level = level]

(* Faulty variant: the price is not compared with the stop's.               *)
ExitModifyStopAny(p, i, level, ok) ==
  /\ bar.pc = "exits" /\ p \in bar.todo /\ p.lot[1] \in Protected
  /\ IsActiveStop(i, p.lot)
  /\ IF ok THEN BrokerModifies(i, ExitSide(p.qty), Abs(p.qty), level) ELSE UNCHANGED orders
  /\ bar' = Await(p, "modify", i, level)
  /\ UNCHANGED <<omVars, queue, bookVars, raised,
                 nextId, cancelReq, fillQ, updQ, ent, fil>>

(* ensure_protective_stop with a tracked stop, up to its await.             *)
ExitModifyStop(p, i, level, ok) ==
  LET side == ExitSide(p.qty) IN
  /\ bar.pc = "exits" /\ p \in bar.todo /\ p.lot[1] \in Protected
  /\ IsActiveStop(i, p.lot)
  /\ Improves(side, level, stopReq[i])
  /\ IF ok THEN BrokerModifies(i, side, Abs(p.qty), level) ELSE UNCHANGED orders
  /\ bar' = Await(p, "modify", i, level)
  /\ UNCHANGED <<omVars, queue, bookVars, raised,
                 nextId, cancelReq, fillQ, updQ, ent, fil>>

(* The rest of ensure_protective_stop.  An accepted or unanswered change is *)
(* recorded even if a handler dropped the stop meanwhile.                   *)
ModifyAccepted ==
  /\ bar.pc = "modify"
  /\ stopReq' = [stopReq EXCEPT ![bar.id] = bar.level]
  /\ Resume
  /\ UNCHANGED <<owner, role, closeVars, stopOrders, stopKey,
                 queue, bookVars, raised, brokerVars, ent, fil>>

(* The answer may be the error of an earlier change, so it says nothing of  *)
(* whether the broker took this one; the stop is forgotten all the same.    *)
ModifyRefused ==
  /\ bar.pc = "modify"
  /\ ClearStops({bar.id})
  /\ Resume
  /\ UNCHANGED <<owner, role, closeVars, queue, bookVars, raised, brokerVars, ent, fil>>

NewStopAccepted ==
  /\ bar.pc = "stop"
  /\ Register(bar.id, bar.lot, "protective_stop")
  /\ TrackStop(bar.id, bar.lot, bar.level)
  /\ Resume
  /\ UNCHANGED <<closeVars, queue, bookVars, raised, brokerVars, ent, fil>>

NewStopRefused ==
  /\ bar.pc = "stop" /\ MayRefuse(bar.id)
  /\ ClearTracking(bar.id)
  /\ Resume
  /\ UNCHANGED <<closeVars, stopVars, queue, bookVars, raised, brokerVars, ent, fil>>

(* The adapter raises before it sends: the reservation and the registration *)
(* are undone, and the strategy's remaining evaluations are skipped.        *)
ExitRaises ==
  /\ bar.pc = "exits"
  /\ bar' = BarIdle
  /\ UNCHANGED <<omVars, queue, bookVars, raised, brokerVars, ent, fil>>

(* evaluate_entry: at most a signal for one of the strategy's lots.         *)
EvaluateEntry(l) ==
  /\ bar.pc = "entry"
  /\ l \in EntryLots /\ l[1] = bar.strategy /\ Len(queue) < MaxQueue
  /\ queue' = Append(queue, l)
  /\ bar' = BarIdle
  /\ UNCHANGED <<omVars, bookVars, raised, brokerVars, ent, fil>>

NoEntry ==
  /\ bar.pc = "entry"
  /\ bar' = BarIdle
  /\ UNCHANGED <<omVars, queue, bookVars, raised, brokerVars, ent, fil>>

(* _maybe_cancel_session_protective_stops at the end of the session.        *)
CancelSessionStops ==
  LET ids == {i \in OrderIds : stopKey[i] # NoLot /\ owner[i] # NoLot
                               /\ owner[i][1] \in SessionOnly} IN
  /\ bar.pc = "idle" /\ MayRun /\ ids # {}
  /\ cancelReq' = cancelReq \cup ids
  /\ ClearStops(ids)
  /\ UNCHANGED <<owner, role, closeVars, queue, bookVars, raised,
                 orders, nextId, fillQ, updQ, bar, ent, fil>>

-----------------------------------------------------------------------------
(* drain_orders. *)

(* size_order returns zero unless the portfolio is flat in the instrument   *)
(* or the strategy may add lots; a refused signal is dropped.               *)
SizeAllows(l) == l[1] \in MultiPosition \/ wide = 0

DropSignal ==
  /\ ent.pc = "idle" /\ MayRun /\ queue # <<>>
  /\ queue' = Tail(queue)
  /\ UNCHANGED <<omVars, bookVars, raised, brokerVars, bar, ent, fil>>

(* Faulty variant: the order is registered only after the await.            *)
ProcessSignalUnregistered(i, side) ==
  LET l == Head(queue) IN
  /\ ent.pc = "idle" /\ MayRun /\ queue # <<>>
  /\ SizeAllows(l)
  /\ queue' = Tail(queue)
  /\ Place(i, l, "entry", side, OrderQty, 0)
  /\ ent' = [pc |-> "entry", lot |-> l, id |-> i]
  /\ UNCHANGED <<omVars, bookVars, raised, cancelReq, fillQ, updQ, bar, fil>>

ProcessSignal(i, side) ==
  LET l == Head(queue) IN
  /\ ent.pc = "idle" /\ MayRun /\ queue # <<>>
  /\ SizeAllows(l)
  /\ queue' = Tail(queue)
  /\ Place(i, l, "entry", side, OrderQty, 0)
  /\ Register(i, l, "entry")
  /\ ent' = [pc |-> "entry", lot |-> l, id |-> i]
  /\ UNCHANGED <<closeVars, stopVars, bookVars, raised,
                 cancelReq, fillQ, updQ, bar, fil>>

EntryAccepted ==
  /\ ent.pc = "entry"
  /\ CompleteRegistration(ent.id, ent.lot, "entry")
  /\ ent' = Idle
  /\ UNCHANGED <<closeVars, stopVars, queue, bookVars, raised, brokerVars, bar, fil>>

EntryRefused ==
  /\ ent.pc = "entry" /\ MayRefuse(ent.id)
  /\ ClearTracking(ent.id)
  /\ ent' = Idle
  /\ UNCHANGED <<closeVars, stopVars, queue, bookVars, raised, brokerVars, bar, fil>>
-----------------------------------------------------------------------------
(* drain_fills. *)

(* PortfolioState.apply_fill; a fill without an owner moves only the        *)
(* broker-wide position.                                                    *)
BookFill(f) ==
  LET l == owner[f.id]  q == orders[f.id].side * f.qty IN
  /\ wide' = wide + q
  /\ agg' = [s \in Strategies |-> IF l # NoLot /\ l[1] = s THEN agg[s] + q ELSE agg[s]]
  /\ lotQty' = [k \in Lots |-> IF k = l /\ k[2] # NoTrade THEN lotQty[k] + q ELSE lotQty[k]]
  /\ lost' = IF l = NoLot THEN lost \cup {f.id} ELSE lost

TakeFill(r) ==
  /\ fil.pc = "idle" /\ MayRun /\ fillQ # <<>>
  /\ role[Head(fillQ).id] = r
  /\ fillQ' = Tail(fillQ)
  /\ BookFill(Head(fillQ))

UnownedFill ==
  /\ TakeFill("none")
  /\ UNCHANGED <<omVars, queue, raised, orders, nextId, cancelReq, updQ, bar, ent, fil>>

(* Faulty variant: the lot keeps waiting for the close that filled.         *)
CloseFillStillPending ==
  LET i == Head(fillQ).id IN
  /\ TakeFill("close")
  /\ CancelStopsOf(owner[i])
  /\ UNCHANGED <<owner, role, closeVars, queue, raised, orders, nextId, updQ, bar, ent, fil>>

CloseFill ==
  LET i == Head(fillQ).id IN
  /\ TakeFill("close")
  /\ ClearPendingClose(i)
  /\ CancelStopsOf(owner[i])
  /\ UNCHANGED <<owner, role, queue, raised, orders, nextId, updQ, bar, ent, fil>>

(* The stop is forgotten and the lot's pending close is cancelled.          *)
StopFill ==
  LET i == Head(fillQ).id  c == pendingClose[owner[i]] IN
  /\ TakeFill("protective_stop")
  /\ ClearStops({i})
  /\ IF c = NoId
     THEN UNCHANGED <<closeVars, cancelReq>>
     ELSE cancelReq' = cancelReq \cup {c} /\ ClearPendingClose(c)
  /\ UNCHANGED <<owner, role, queue, raised, orders, nextId, updQ, bar, ent, fil>>

(* _submit_protective_stop, up to its await, for this fill's quantity.      *)
EntryFill(j) ==
  LET f == Head(fillQ)  l == owner[f.id] IN
  /\ TakeFill("entry")
  /\ l[1] \in Protected
  /\ Place(j, l, "protective_stop", -orders[f.id].side, f.qty,
           FirstLevel(-orders[f.id].side))
  /\ Register(j, l, "protective_stop")
  /\ fil' = [pc |-> "stop", lot |-> l, id |-> j]
  /\ UNCHANGED <<closeVars, stopVars, queue, raised, cancelReq, updQ, bar, ent>>

(* Faulty variant: a partial fill is left without a stop.                   *)
EntryFillNoStopPartial ==
  LET f == Head(fillQ)  l == owner[f.id] IN
  /\ TakeFill("entry")
  /\ raised' = IF l[1] \in Protected /\ orders[f.id].status = "filled"
               THEN raised \cup {l} ELSE raised
  /\ UNCHANGED <<omVars, queue, orders, nextId, cancelReq, updQ, bar, ent, fil>>

(* No stop is declared, or its submission raised and drain_fills went on.   *)
EntryFillNoStop ==
  LET l == owner[Head(fillQ).id] IN
  /\ TakeFill("entry")
  /\ raised' = IF l[1] \in Protected THEN raised \cup {l} ELSE raised
  /\ UNCHANGED <<omVars, queue, orders, nextId, cancelReq, updQ, bar, ent, fil>>

(* Faulty variant: the drain does not come back from its await.             *)
FillStopAcceptedStuck ==
  /\ fil.pc = "stop"
  /\ Register(fil.id, fil.lot, "protective_stop")
  /\ TrackStop(fil.id, fil.lot, FirstLevel(orders[fil.id].side))
  /\ UNCHANGED <<closeVars, queue, bookVars, raised, brokerVars, bar, ent, fil>>

FillStopAccepted ==
  /\ fil.pc = "stop"
  /\ Register(fil.id, fil.lot, "protective_stop")
  /\ TrackStop(fil.id, fil.lot, FirstLevel(orders[fil.id].side))
  /\ fil' = Idle
  /\ UNCHANGED <<closeVars, queue, bookVars, raised, brokerVars, bar, ent>>

FillStopRefused ==
  /\ fil.pc = "stop" /\ MayRefuse(fil.id)
  /\ ClearTracking(fil.id)
  /\ fil' = Idle
  /\ UNCHANGED <<closeVars, stopVars, queue, bookVars, raised, brokerVars, bar, ent>>

-----------------------------------------------------------------------------
(* drain_order_updates: only cancelled and rejected reports change state.   *)

OrderUpdate(i) ==
  /\ i \in updQ /\ MayRun
  /\ updQ' = updQ \ {i}
  /\ IF role[i] = "close" THEN ClearPendingClose(i) ELSE UNCHANGED closeVars
  /\ IF role[i] = "protective_stop" THEN ClearStops({i}) ELSE UNCHANGED stopVars
  /\ ClearTracking(i)
  /\ UNCHANGED <<queue, bookVars, raised, orders, nextId, cancelReq, fillQ, bar, ent, fil>>

-----------------------------------------------------------------------------
(* The broker, and the client callbacks that fill the adapter's queues.     *)

BrokerFill(i, q) ==
  /\ orders[i].status = "working" /\ q \in 1..orders[i].left
  /\ orders' = [orders EXCEPT ![i].left = @ - q, ![i].done = @ + q,
                  ![i].status = IF q = orders[i].left THEN "filled" ELSE @]
  /\ fillQ' = Append(fillQ, [id |-> i, qty |-> q])
  /\ UNCHANGED <<omVars, queue, bookVars, raised, nextId, cancelReq, updQ, bar, ent, fil>>

(* A requested cancellation, a rejection or an expiry.                      *)
BrokerEnd(i) ==
  /\ orders[i].status = "working"
  /\ orders' = [orders EXCEPT ![i].status = "dead"]
  /\ updQ' = updQ \cup {i}
  /\ UNCHANGED <<omVars, queue, bookVars, raised, nextId, cancelReq, fillQ, bar, ent, fil>>

-----------------------------------------------------------------------------

Init ==
  /\ owner = [i \in OrderIds |-> NoLot] /\ role = [i \in OrderIds |-> "none"]
  /\ pendingClose = [k \in Lots |-> NoId] /\ closeKey = [i \in OrderIds |-> NoLot]
  /\ stopOrders = [k \in Lots |-> {}] /\ stopKey = [i \in OrderIds |-> NoLot]
  /\ stopReq = [i \in OrderIds |-> 0]
  /\ queue = <<>> /\ lost = {} /\ raised = {}
  /\ wide = AdoptedQty
  /\ agg = [s \in Strategies |-> IF AdoptedLot # NoLot /\ AdoptedLot[1] = s
                                 THEN AdoptedQty ELSE 0]
  /\ lotQty = [k \in Lots |-> IF k = AdoptedLot /\ k[2] # NoTrade THEN AdoptedQty ELSE 0]
  /\ orders = [i \in OrderIds |-> Unsent] /\ nextId = 1
  /\ cancelReq = {} /\ fillQ = <<>> /\ updQ = {}
  /\ bar = BarIdle /\ ent = Idle /\ fil = Idle

BarStep ==
  \/ \E s \in Strategies : BarDispatch(s)
  \/ \E p \in bar.todo : ExitDropped(p)
  \/ \E p \in bar.todo, i \in OrderIds : ExitClose(p, i)
  \/ \E p \in bar.todo, i \in OrderIds, n \in 1..MaxLevel :
       ExitNewStop(p, i, n) \/ \E ok \in BOOLEAN : ExitModifyStop(p, i, n, ok)
  \/ CloseAccepted \/ CloseRefused \/ ModifyAccepted \/ ModifyRefused
  \/ NewStopAccepted \/ NewStopRefused
  \/ \E l \in EntryLots : EvaluateEntry(l)
  \/ ExitRaises \/ NoEntry \/ CancelSessionStops

EntryStep ==
  \/ DropSignal
  \/ \E i \in OrderIds, side \in EntrySides : ProcessSignal(i, side)
  \/ EntryAccepted \/ EntryRefused

FillStep ==
  \/ UnownedFill \/ CloseFill \/ StopFill
  \/ \E j \in OrderIds : EntryFill(j)
  \/ EntryFillNoStop \/ FillStopAccepted \/ FillStopRefused

UpdateStep == \E i \in OrderIds : OrderUpdate(i)

BrokerStep ==
  \E i \in OrderIds : BrokerEnd(i) \/ \E q \in 1..orders[i].left : BrokerFill(i, q)

Next == BarStep \/ EntryStep \/ FillStep \/ UpdateStep \/ BrokerStep

Spec == Init /\ [][Next]_vars

(* A task that can run does: the awaits of the drains end after 1.5 s.      *)
Fairness ==
  /\ WF_vars(FillStep) /\ WF_vars(UpdateStep)
  /\ WF_vars(BarStep) /\ WF_vars(EntryStep)

FairSpec == Spec /\ Fairness
-----------------------------------------------------------------------------
(* Properties. *)

OrderType == [status : Statuses, lot : Lots \cup {NoLot}, role : Roles \cup {"none"},
              side : Sides, left : Nat, done : Nat, level : Nat]
PositionType == [lot : Lots, qty : Int]

OrderManagerType ==
  /\ owner \in [OrderIds -> Lots \cup {NoLot}]
  /\ role \in [OrderIds -> Roles \cup {"none"}]
  /\ pendingClose \in [Lots -> OrderIds \cup {NoId}]
  /\ closeKey \in [OrderIds -> Lots \cup {NoLot}]
  /\ stopOrders \in [Lots -> SUBSET OrderIds]
  /\ stopKey \in [OrderIds -> Lots \cup {NoLot}]
  /\ stopReq \in [OrderIds -> Nat]
  /\ queue \in Seq(EntryLots)
BookType ==
  /\ wide \in Int /\ agg \in [Strategies -> Int] /\ lotQty \in [Lots -> Int]
  /\ lost \subseteq OrderIds /\ raised \subseteq Lots
FillType == [id : OrderIds, qty : Nat]
BrokerType ==
  /\ orders \in [OrderIds -> OrderType]
  /\ nextId \in Nat \ {0} /\ cancelReq \subseteq OrderIds
  /\ fillQ \in Seq(FillType) /\ updQ \subseteq OrderIds
BarType == [pc : {"idle", "exits", "close", "modify", "stop", "entry"},
            todo : SUBSET PositionType, entry : BOOLEAN,
            strategy : Strategies \cup {NoLot}, lot : Lots \cup {NoLot},
            id : OrderIds \cup {NoId}, level : Nat]
TaskType ==
  /\ bar \in BarType
  /\ ent \in [pc : {"idle", "entry"}, lot : Lots \cup {NoLot}, id : OrderIds \cup {NoId}]
  /\ fil \in [pc : {"idle", "stop"}, lot : Lots \cup {NoLot}, id : OrderIds \cup {NoId}]

(* Every dictionary, queue and task-local variable has its type.            *)
TypeOK == OrderManagerType /\ BookType /\ BrokerType /\ TaskType

(* The two directions of each index agree whatever the tasks interleave:    *)
(* a stop is in its lot's set iff its reverse entry names that lot, it then *)
(* has a request to compare prices with, and a close the reverse index      *)
(* knows is the one its lot is waiting for.                                 *)
IndexesAgree ==
  /\ \A k \in Lots, i \in OrderIds : i \in stopOrders[k] <=> stopKey[i] = k
  /\ \A i \in OrderIds : stopKey[i] # NoLot => stopReq[i] # 0
  /\ \A i \in OrderIds : closeKey[i] # NoLot => pendingClose[closeKey[i]] = i

(* tracked_open_order_ids() covers every order the broker still works, so   *)
(* reconciliation never meets one of the program's own orders as unknown.   *)
WorkingOrdersTracked ==
  \A i \in OrderIds : orders[i].status = "working" => owner[i] = orders[i].lot
                                                    /\ role[i] = orders[i].role

(* A fill is booked without its owner only if the broker had ended that     *)
(* order: a partial fill drained after the cancellation report.             *)
LostOnlyAfterEnd == \A i \in lost : orders[i].status = "dead"

(* A lot never has two closes at work, other than ones already filling or   *)
(* whose cancellation was requested: the pending-close index dedupes them.  *)
LiveClose(i, k) ==
  /\ orders[i].status = "working" /\ orders[i].role = "close" /\ orders[i].lot = k
  /\ orders[i].done = 0 /\ i \notin cancelReq
OneLiveClose ==
  \A k \in Lots, i, j \in OrderIds : LiveClose(i, k) /\ LiveClose(j, k) => i = j

(* The inductive invariant behind the three above.                          *)
SentTracked ==
  \A i \in OrderIds : orders[i].status \in {"working", "filled"} =>
    owner[i] = orders[i].lot /\ role[i] = orders[i].role /\ orders[i].lot \in Lots
FreshIds ==
  \A i \in OrderIds : i >= nextId =>
    orders[i].status = "unsent" /\ closeKey[i] = NoLot
RolesOwned == \A i \in OrderIds : role[i] = "none" <=> owner[i] = NoLot
QueuesTrue ==
  /\ \A i \in updQ : orders[i].status = "dead"
  /\ \A n \in DOMAIN fillQ : orders[fillQ[n].id].status # "unsent"
                            /\ orders[fillQ[n].id].done > 0
Sent(i, l, r) == /\ i \in OrderIds /\ l \in Lots
                 /\ orders[i].lot = l /\ orders[i].role = r /\ orders[i].status # "unsent"
BarAwaits ==
  /\ bar.pc = "close" => /\ Sent(bar.id, bar.lot, "close")
                         /\ pendingClose[bar.lot] = bar.id /\ closeKey[bar.id] = NoLot
  /\ bar.pc = "stop" => Sent(bar.id, bar.lot, "protective_stop") /\ bar.level # 0
  /\ bar.pc = "modify" => /\ bar.id \in OrderIds /\ orders[bar.id].status # "unsent"
                          /\ bar.level # 0
DrainAwaits ==
  /\ ent.pc = "entry" => Sent(ent.id, ent.lot, "entry")
  /\ fil.pc = "stop" => Sent(fil.id, fil.lot, "protective_stop")
AwaitsTrue == BarAwaits /\ DrainAwaits
StopsOwned == \A i \in OrderIds :
  stopKey[i] # NoLot => orders[i].status # "unsent" /\ stopKey[i] = orders[i].lot
LiveClosePending ==
  \A i \in OrderIds, k \in Lots : LiveClose(i, k) => pendingClose[k] = i

IInv == /\ TypeOK /\ IndexesAgree /\ SentTracked /\ LostOnlyAfterEnd /\ FreshIds
        /\ RolesOwned /\ QueuesTrue /\ AwaitsTrue /\ LiveClosePending
        /\ StopsOwned

(* A working protective stop is only ever tightened.                        *)
StopNeverLoosens ==
  [][\A i \in OrderIds :
       orders[i].status = "working" /\ orders[i].role = "protective_stop"
         => ~Improves(orders[i].side, orders[i].level, orders'[i].level)]_vars

(* In a quiet state an open lot of a protected strategy has stops for its   *)
(* whole quantity, unless a submission for it raised, one of its stops or   *)
(* closes was cancelled, rejected or asked to be cancelled, or a stop was   *)
(* tightened (which also sets its quantity, to that of the snapshot).  The  *)
(* lot is one whose orders are on their own sides: exits that take it       *)
(* through zero leave it on the other side, where closes reopen it.         *)
Quiet == bar.pc = "idle" /\ ent.pc = "idle" /\ fil.pc = "idle"
         /\ fillQ = <<>> /\ updQ = {}
Revoked(i) == orders[i].status = "dead" \/ i \in cancelReq
ExitRoles == {"close", "protective_stop"}
EntersOn(i, k, d) == Sent(i, k, "entry") => orders[i].side = d
LeavesFrom(i, k, d) ==
  (\E r \in ExitRoles : Sent(i, k, r)) =>
     /\ orders[i].side = -d /\ ~Revoked(i)
     /\ orders[i].role = "protective_stop" => orders[i].level = FirstLevel(-d)
Standing(k, d) == k \notin raised /\ \A i \in OrderIds : EntersOn(i, k, d) /\ LeavesFrom(i, k, d)
StopsAtWork(k) == {i \in OrderIds : orders[i].status = "working" /\ orders[i].lot = k
                                     /\ orders[i].role = "protective_stop"}
ProtectedUnlessRevoked ==
  \A k \in Lots, d \in Sides :
    Quiet /\ k[1] \in Protected /\ k # AdoptedLot /\ Standing(k, d)
    => MapThenSumSet(LAMBDA i : orders[i].left, StopsAtWork(k)) >= d * lotQty[k]

(* Every fill the broker reports is booked in the end.                      *)
FillsBooked == []<>(fillQ = <<>>)

(* A lot's pending close is one whose end is still to be reported, or whose *)
(* submission is in progress; so a lot cannot wait for a close that is over.*)
Reported(i) == /\ orders[i].status \in {"filled", "dead"} /\ i \notin updQ
               /\ \A n \in DOMAIN fillQ : fillQ[n].id # i
PendingCloseReleased ==
  \A k \in Lots : LET i == pendingClose[k] IN
    i # NoId /\ Reported(i) => bar.pc = "close" /\ bar.id = i

(* A close is for no more than the lot holds when it is sent.               *)
Book(k) == IF k[2] = NoTrade THEN agg[k[1]] ELSE lotQty[k]
CloseWithinLot ==
  [][nextId' # nextId /\ orders'[nextId].role = "close" =>
       LET o == orders'[nextId] IN -o.side * Book(o.lot) >= o.left]_vars

(* When a single_position strategy's close is accepted, cancellation has    *)
(* been requested for every tracked stop of the strategy.                   *)
StopsCancelledOnClose ==
  [][\A i \in OrderIds :
       /\ bar.pc = "close" /\ closeKey' # closeKey
       /\ stopKey[i] # NoLot /\ stopKey[i][1] = bar.lot[1]
       /\ bar.lot[1] \notin MultiPosition
       => i \in cancelReq']_vars

(* A single_position strategy holds one position of the size it asked for.  *)
OneOpenPosition ==
  \A s \in Strategies \ MultiPosition : Abs(agg[s]) <= OrderQty
=============================================================================
