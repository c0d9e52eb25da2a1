------------------------- MODULE OrderManagerProofs -------------------------
(***************************************************************************)
(* Proofs about OrderManager for every instance: any strategies, lots and  *)
(* positions, any bounds, concurrent or inline drains.                     *)
(*                                                                         *)
(* The inductive invariant IInv is proved part by part.  A part's lemma    *)
(* first treats the few kinds of change that can disturb it (a submission, *)
(* a registration, a clearing of an index, a step of the broker), then     *)
(* matches the actions of each task with those kinds.                      *)
(***************************************************************************)
EXTENDS OrderManager, TLAPS

(* A quantity's absolute value and the side that closes it.                 *)
LEMMA Arith == \A n \in Int : Abs(n) \in Nat /\ ExitSide(n) \in Sides
 BY DEF Abs, ExitSide, Sides

(* The stop of a fill has a price.                                          *)
LEMMA FirstLevelType == \A side : FirstLevel(side) \in Nat /\ FirstLevel(side) \in 1..MaxLevel
 BY ConstantsAssumption DEF FirstLevel, ConstantsAssumption

(* drain_fills takes a fill of a known order; a role is recorded only with  *)
(* an owner.                                                                *)
LEMMA HeadFill == ASSUME TypeOK, RolesOwned, fillQ # <<>> PROVE
  /\ Head(fillQ) \in FillType /\ Tail(fillQ) \in Seq(FillType)
  /\ Head(fillQ).id \in OrderIds /\ Head(fillQ).qty \in Nat
  /\ role[Head(fillQ).id] # "none" => owner[Head(fillQ).id] \in Lots
<1>1. fillQ \in Seq(FillType) BY DEF TypeOK, BrokerType
<1>2. Head(fillQ) \in FillType /\ Tail(fillQ) \in Seq(FillType) BY <1>1
<1>3. Head(fillQ).id \in OrderIds /\ Head(fillQ).qty \in Nat BY <1>2 DEF FillType
<1>4. owner \in [OrderIds -> Lots \cup {NoLot}] BY DEF TypeOK, OrderManagerType
<1> QED BY <1>2, <1>3, <1>4 DEF RolesOwned

(* drain_orders takes a signal for one of the entry lots.                   *)
LEMMA HeadQueue == ASSUME TypeOK, queue # <<>> PROVE
  Head(queue) \in EntryLots /\ Tail(queue) \in Seq(EntryLots)
<1>1. queue \in Seq(EntryLots) BY DEF TypeOK, OrderManagerType
<1> QED BY <1>1

(* Queueing a signal for an entry lot keeps the queue's type.               *)
LEMMA AppendQueue == ASSUME TypeOK, NEW l \in EntryLots PROVE
  Append(queue, l) \in Seq(EntryLots)
<1>1. queue \in Seq(EntryLots) BY DEF TypeOK, OrderManagerType
<1> QED BY <1>1

(* The fields of one broker order, and the side that protects it.           *)
LEMMA OrderFacts == ASSUME TypeOK, NEW i \in OrderIds PROVE
   /\ orders[i] \in OrderType /\ orders[i].left \in Nat /\ orders[i].done \in Nat
   /\ orders[i].side \in Int /\ -orders[i].side \in Sides
<1>1. orders[i] \in OrderType BY DEF TypeOK, BrokerType
<1>2. orders[i].left \in Nat /\ orders[i].done \in Nat /\ orders[i].side \in Sides
  BY <1>1 DEF OrderType
<1> QED BY <1>1, <1>2 DEF Sides

(* What the type invariant and the assumptions say of the bar loop's        *)
(* positions and of the constants.                                          *)
LEMMA TypeFacts == ASSUME TypeOK PROVE
  /\ bar.todo \subseteq PositionType
  /\ \A p \in bar.todo : p.lot \in Lots /\ p.qty \in Int
                         /\ Abs(p.qty) \in Nat /\ ExitSide(p.qty) \in Sides
  /\ NoLot \notin Lots /\ EntryLots \subseteq Lots /\ EntrySides \subseteq Sides
  /\ OrderQty \in Nat /\ OrderIds \subseteq Nat /\ 1..MaxLevel \subseteq Nat
 BY Arith, ConstantsAssumption DEF TypeOK, TaskType, BarType, PositionType,
     ConstantsAssumption, OrderIds

(* The bar loop's local variables.                                          *)
LEMMA TaskFacts == ASSUME TypeOK PROVE
  /\ bar \in BarType /\ bar.lot \in Lots \cup {NoLot} /\ bar.level \in Nat
 BY DEF TypeOK, TaskType, BarType

(* get_strategy_position returns lots with their signed quantities.         *)
LEMMA PositionsType == ASSUME TypeOK, NEW s \in Strategies PROVE
  Positions(s) \subseteq PositionType /\ MayEnter(s) \in BOOLEAN
<1>1. agg \in [Strategies -> Int] /\ lotQty \in [Lots -> Int] BY DEF TypeOK, BookType
<1>2. OpenLots(s) \subseteq PositionType BY <1>1 DEF OpenLots, PositionType
<1>3. Aggregate(s) \subseteq PositionType BY <1>1 DEF Aggregate, PositionType, Lots
<1>4. Positions(s) \subseteq PositionType BY <1>2, <1>3 DEF Positions
<1>5. CASE s \in MultiPosition
  <2>1. MayEnter(s) = (Cardinality(Positions(s)) < MaxPositions) BY <1>5 DEF MayEnter
  <2> QED BY <2>1, <1>4
<1>6. CASE s \notin MultiPosition BY <1>4, <1>6 DEF MayEnter
<1> QED BY <1>5, <1>6

(* Sending an order keeps the broker's orders typed.                        *)
LEMMA PlaceType ==
  ASSUME TypeOK, NEW i \in OrderIds, NEW l \in Lots, NEW r \in Roles, NEW side \in Sides,
         NEW qty \in Nat, NEW level \in Nat, Place(i, l, r, side, qty, level)
  PROVE  orders' \in [OrderIds -> OrderType] /\ nextId' \in Nat \ {0}
<1> DEFINE o == [status |-> "working", lot |-> l, role |-> r, side |-> side,
                 left |-> qty, done |-> 0, level |-> level]
<1>1. o \in OrderType BY DEF OrderType, Statuses
<1>2. orders \in [OrderIds -> OrderType] BY DEF TypeOK, BrokerType
<1>3. orders' = [orders EXCEPT ![i] = o] /\ nextId' = i + 1 BY DEF Place
<1> QED BY <1>1, <1>2, <1>3 DEF OrderIds

(* PortfolioState.apply_fill keeps the books typed.                         *)
LEMMA BookFillType ==
  ASSUME TypeOK, RolesOwned, NEW r, TakeFill(r)
  PROVE /\ wide' \in Int /\ agg' \in [Strategies -> Int] /\ lotQty' \in [Lots -> Int]
        /\ lost' \subseteq OrderIds /\ fillQ' \in Seq(FillType)
<1> DEFINE f == Head(fillQ)
<1> DEFINE q == orders[f.id].side * f.qty
<1>1. f.id \in OrderIds /\ Tail(fillQ) \in Seq(FillType) /\ f.qty \in Nat 
   BY HeadFill DEF TakeFill
<1>2. q \in Int BY <1>1, OrderFacts
<1> HIDE DEF q
<1>3. /\ wide \in Int /\ agg \in [Strategies -> Int] /\ lotQty \in [Lots -> Int]
      /\ lost \subseteq OrderIds
   BY DEF TypeOK, BookType
<1>4. /\ wide' = wide + q /\ fillQ' = Tail(fillQ)
      /\ agg' = [s \in Strategies |->
                    IF owner[f.id] # NoLot /\ owner[f.id][1] = s THEN agg[s] + q ELSE agg[s]]
      /\ lotQty' = [k \in Lots |->
                       IF k = owner[f.id] /\ k[2] # NoTrade THEN lotQty[k] + q ELSE lotQty[k]]
      /\ lost' = IF owner[f.id] = NoLot THEN lost \cup {f.id} ELSE lost
   BY DEF TakeFill, BookFill, q
<1>5. wide' \in Int BY <1>2, <1>3, <1>4
<1>6. agg' \in [Strategies -> Int] BY <1>2, <1>3, <1>4
<1>7. lotQty' \in [Lots -> Int] BY <1>2, <1>3, <1>4
<1> QED BY <1>1, <1>3, <1>4, <1>5, <1>6, <1>7

(* A modification the broker takes leaves a well-typed order.               *)
LEMMA ModifyType ==
  ASSUME TypeOK, NEW i \in OrderIds, NEW p \in PositionType, NEW n \in Nat,
         BrokerModifies(i, ExitSide(p.qty), Abs(p.qty), n)
  PROVE  orders' \in [OrderIds -> OrderType]
<1> DEFINE o == [orders[i] EXCEPT !.left = Abs(p.qty) - orders[i].done, !.level = n]
<1>1. orders[i].done \in Nat /\ Abs(p.qty) - orders[i].done \in Nat
  BY OrderFacts, Arith DEF BrokerModifies, PositionType
<1>2. o \in OrderType BY <1>1, OrderFacts DEF OrderType
<1>3. orders' = [orders EXCEPT ![i] = o] BY DEF BrokerModifies
<1> QED BY <1>2, <1>3 DEF TypeOK, BrokerType

(* A fill at the broker leaves a well-typed order.                          *)
LEMMA BrokerFillType ==
  ASSUME TypeOK, NEW i \in OrderIds, NEW q \in 1..orders[i].left, BrokerFill(i, q)
  PROVE  orders' \in [OrderIds -> OrderType]
<1> DEFINE st == IF q = orders[i].left THEN "filled" ELSE orders[i].status
<1> DEFINE o == [orders[i] EXCEPT !.left = @ - q, !.done = @ + q, !.status = st]
<1>1. q \in Nat /\ orders[i].left - q \in Nat /\ orders[i].done + q \in Nat BY OrderFacts
<1>2. o \in OrderType BY <1>1, OrderFacts DEF OrderType, Statuses
<1>3. orders' = [orders EXCEPT ![i] = o] BY DEF BrokerFill
<1> QED BY <1>2, <1>3 DEF TypeOK, BrokerType

(* The bar loop starts an evaluation with a snapshot of the strategy's      *)
(* positions.                                                               *)
LEMMA DispatchType ==
  ASSUME TypeOK, NEW s \in Strategies, BarDispatch(s) PROVE bar' \in BarType
<1>1. Positions(s) \subseteq PositionType /\ MayEnter(s) \in BOOLEAN BY PositionsType
<1>2. bar' = [pc |-> IF Positions(s) = {} THEN "entry" ELSE "exits", todo |-> Positions(s),
              entry |-> MayEnter(s), strategy |-> s, lot |-> NoLot, id |-> NoId,
              level |-> 0]
  BY DEF BarDispatch, BarIdle
<1> QED BY <1>1, <1>2 DEF BarType, NoId

(* What a step keeps of an order that was sent.                             *)
Kept(i) == /\ orders'[i].lot = orders[i].lot /\ orders'[i].role = orders[i].role
           /\ orders'[i].status # "unsent" /\ orders'[i].done >= orders[i].done
           /\ orders'[i].done \in Nat
           /\ (orders[i].status = "dead" => orders'[i].status = "dead")
           /\ (orders'[i].status = "working" => orders[i].status = "working")

(* A submission uses a fresh id and touches no other order.                 *)
LEMMA PlaceKeeps ==
  ASSUME TypeOK, FreshIds, NEW i, NEW l, NEW r, NEW side, NEW qty, NEW level,
         Place(i, l, r, side, qty, level)
  PROVE  /\ i \in OrderIds /\ orders[i].status = "unsent" /\ closeKey[i] = NoLot
         /\ nextId = i /\ nextId' = i + 1
         /\ orders'[i].status = "working" /\ orders'[i].lot = l /\ orders'[i].role = r
         /\ orders'[i].done = 0 /\ orders'[i].side = side /\ orders'[i].level = level
         /\ \A j \in OrderIds : j # i => orders'[j] = orders[j]
<1>1. orders \in [OrderIds -> OrderType] BY DEF TypeOK, BrokerType
<1>2. i \in OrderIds /\ i = nextId BY DEF Place
<1>3. i >= nextId BY <1>2 DEF OrderIds
<1>4. orders'[i] = [status |-> "working", lot |-> l, role |-> r, side |-> side,
                    left |-> qty, done |-> 0, level |-> level]
  BY <1>1, <1>2 DEF Place
<1>5. orders[i].status = "unsent" /\ closeKey[i] = NoLot BY <1>2, <1>3 DEF FreshIds
<1>6. \A j \in OrderIds : j # i => orders'[j] = orders[j] BY <1>1, <1>2 DEF Place
<1>7. nextId' = i + 1 BY DEF Place
<1> QED BY <1>2, <1>4, <1>5, <1>6, <1>7

(* A modification changes the price and the quantity of one working order   *)
(* only.                                                                    *)
LEMMA ModifyKeeps ==
  ASSUME TypeOK, NEW i \in OrderIds, NEW side, NEW qty \in Nat, NEW level \in Nat,
         BrokerModifies(i, side, qty, level)
  PROVE  /\ orders[i].status = "working" /\ orders'[i].status = "working"
         /\ orders'[i].lot = orders[i].lot /\ orders'[i].role = orders[i].role
         /\ orders'[i].done = orders[i].done /\ orders'[i].side = orders[i].side
         /\ \A j \in OrderIds : j # i => orders'[j] = orders[j]
<1>1. orders \in [OrderIds -> OrderType] BY DEF TypeOK, BrokerType
<1>2. orders[i] \in OrderType BY <1>1
<1>3. orders' = [orders EXCEPT ![i] = [orders[i] EXCEPT !.left = qty - orders[i].done, !.level = level]]
  BY DEF BrokerModifies
<1>4. orders'[i] = [orders[i] EXCEPT !.left = qty - orders[i].done, !.level = level]
  BY <1>1, <1>3
<1>5. \A j \in OrderIds : j # i => orders'[j] = orders[j] BY <1>1, <1>3
<1>6. orders[i].status = "working" BY DEF BrokerModifies
<1> QED BY <1>2, <1>4, <1>5, <1>6 DEF OrderType

(* A cancellation, rejection or expiry ends one working order only.         *)
LEMMA EndKeeps ==
  ASSUME TypeOK, NEW i \in OrderIds, BrokerEnd(i)
  PROVE  /\ orders[i].status = "working" /\ orders'[i].status = "dead"
         /\ orders'[i].lot = orders[i].lot /\ orders'[i].role = orders[i].role
         /\ orders'[i].done = orders[i].done
         /\ \A j \in OrderIds : j # i => orders'[j] = orders[j]
<1>1. orders \in [OrderIds -> OrderType] BY DEF TypeOK, BrokerType
<1>2. orders[i] \in OrderType BY <1>1
<1>3. orders' = [orders EXCEPT ![i] = [orders[i] EXCEPT !.status = "dead"]] BY DEF
    BrokerEnd
<1>4. orders'[i] = [orders[i] EXCEPT !.status = "dead"] BY <1>1, <1>3
<1>5. \A j \in OrderIds : j # i => orders'[j] = orders[j] BY <1>1, <1>3
<1> QED BY <1>2, <1>4, <1>5 DEF OrderType, BrokerEnd

(* A fill changes one working order only, and counts.                       *)
LEMMA FillKeeps ==
  ASSUME TypeOK, NEW i \in OrderIds, NEW q \in 1..orders[i].left, BrokerFill(i, q)
  PROVE  /\ orders[i].status = "working" /\ orders'[i].status \in {"working", "filled"}
         /\ orders'[i].lot = orders[i].lot /\ orders'[i].role = orders[i].role
         /\ orders'[i].done = orders[i].done + q /\ q \in Nat /\ q > 0
         /\ orders[i].done \in Nat
         /\ \A j \in OrderIds : j # i => orders'[j] = orders[j]
<1>1. orders \in [OrderIds -> OrderType] BY DEF TypeOK, BrokerType
<1>2. orders[i] \in OrderType /\ orders[i].left \in Nat /\ orders[i].done \in Nat BY OrderFacts
<1> DEFINE st == IF q = orders[i].left THEN "filled" ELSE orders[i].status
<1>3. orders' = [orders EXCEPT ![i] = [orders[i] EXCEPT !.left = @ - q, !.done = @ + q, !.status = st]]
  BY DEF BrokerFill
<1>4. orders'[i] = [orders[i] EXCEPT !.left = @ - q, !.done = @ + q, !.status = st]
  BY <1>1, <1>3
<1>5. \A j \in OrderIds : j # i => orders'[j] = orders[j] BY <1>1, <1>3
<1>6. q \in Nat /\ q > 0 BY <1>2
<1>7. orders[i].status = "working" BY DEF BrokerFill
<1>8. st \in {"working", "filled"} BY <1>7
<1> HIDE DEF st
<1> QED BY <1>2, <1>4, <1>5, <1>6, <1>7, <1>8 DEF OrderType

(* _clear_pending_close removes one close from both indexes and no other.   *)
LEMMA ClearPendingKeeps ==
  ASSUME TypeOK, NEW c \in OrderIds, ClearPendingClose(c)
  PROVE /\ \A i \in OrderIds : closeKey'[i] = IF i = c THEN NoLot ELSE closeKey[i]
        /\ \A k \in Lots : pendingClose'[k] = IF closeKey[c] = k /\ pendingClose[k] = c
                                              THEN NoId ELSE pendingClose[k]
  BY DEF TypeOK, OrderManagerType, ClearPendingClose

(* No step changes the identity of an order that was sent, revives it, or   *)
(* undoes a fill.                                                           *)
LEMMA OrdersKeep ==
  ASSUME TypeOK, RolesOwned, FreshIds, [Next]_vars, NEW i \in OrderIds, orders[i].status # "unsent"
  PROVE Kept(i)
<1> USE TypeFacts
<1>0. orders[i] \in OrderType /\ orders[i].done \in Nat BY OrderFacts
<1>1. CASE orders' = orders BY <1>0, <1>1 DEF Kept
<1>2. ASSUME NEW j \in OrderIds, NEW l, NEW r, NEW side, NEW qty, NEW level, Place(j, l, r, side, qty, level)
      PROVE Kept(i)
  <2>1. orders[j].status = "unsent" /\ \A n \in OrderIds : n # j => orders'[n] = orders[n]
    BY <1>2, PlaceKeeps
  <2>2. orders'[i] = orders[i] BY <2>1
  <2> QED BY <1>0, <2>2 DEF Kept
<1>3. ASSUME NEW p \in bar.todo, NEW j \in OrderIds, NEW n \in 1..MaxLevel, NEW ok \in BOOLEAN,
             ExitModifyStop(p, j, n, ok)
      PROVE Kept(i)
  <2>1. CASE ok
    <3>1. BrokerModifies(j, ExitSide(p.qty), Abs(p.qty), n) /\ Abs(p.qty) \in Nat /\ n \in Nat
      BY <1>3, <2>1 DEF ExitModifyStop
    <3> QED BY <1>0, <3>1, ModifyKeeps DEF Kept
  <2>2. CASE ~ok BY <1>0, <1>3, <2>2 DEF Kept, ExitModifyStop
  <2> QED BY <2>1, <2>2
<1>4. ASSUME NEW j \in OrderIds, BrokerEnd(j) PROVE Kept(i)
  BY <1>0, <1>4, EndKeeps DEF Kept
<1>5. ASSUME NEW j \in OrderIds, NEW q \in 1..orders[j].left, BrokerFill(j, q) PROVE Kept(i)
  BY <1>0, <1>5, FillKeeps DEF Kept
<1>6. BarStep => Kept(i)
  <2>1. \/ orders' = orders
        \/ \E j \in OrderIds : \E l, r, side, qty, level : Place(j, l, r, side, qty, level)
        \/ \E p \in bar.todo, j \in OrderIds, n \in 1..MaxLevel, ok \in BOOLEAN : ExitModifyStop(p, j, n, ok)
        \/ ~BarStep
    BY DEF BarStep, BarDispatch, ExitDropped, ExitClose, CloseAccepted, CloseRefused,
        ExitNewStop,
       ModifyAccepted, ModifyRefused, NewStopAccepted, NewStopRefused, ExitRaises,
           EvaluateEntry,
       NoEntry, CancelSessionStops, brokerVars
  <2> QED BY <2>1, <1>1, <1>2, <1>3
<1>7. EntryStep => Kept(i)
  BY <1>1, <1>2 DEF EntryStep, DropSignal, ProcessSignal, EntryAccepted, EntryRefused,
      brokerVars
<1>8. FillStep => Kept(i)
  BY <1>1, <1>2 DEF FillStep, UnownedFill, CloseFill, StopFill, EntryFill,
      EntryFillNoStop,
     FillStopAccepted, FillStopRefused, brokerVars
<1>9. UpdateStep => Kept(i) BY <1>1 DEF UpdateStep, OrderUpdate
<1>10. BrokerStep => Kept(i) BY <1>4, <1>5 DEF BrokerStep
<1>11. CASE UNCHANGED vars BY <1>1, <1>11 DEF vars, brokerVars
<1> QED BY <1>6, <1>7, <1>8, <1>9, <1>10, <1>11 DEF Next

(* _register_order writes one order's owner and role.                       *)
LEMMA RegisterKeeps ==
  ASSUME TypeOK, NEW i \in OrderIds, NEW l \in Lots, NEW r \in Roles,
         Register(i, l, r)
  PROVE  /\ owner'[i] = l /\ role'[i] = r
         /\ \A j \in OrderIds : j # i => owner'[j] = owner[j] /\ role'[j] = role[j]
  BY DEF Register, TypeOK, OrderManagerType

(* _complete_order_registration writes them only when they are missing.     *)
LEMMA CompleteKeeps ==
  ASSUME TypeOK, NEW i \in OrderIds, NEW l \in Lots, NEW r \in Roles,
         CompleteRegistration(i, l, r)
  PROVE  /\ owner'[i] = IF owner[i] = NoLot THEN l ELSE owner[i]
         /\ role'[i] = IF owner[i] = NoLot THEN r ELSE role[i]
         /\ \A j \in OrderIds : j # i => owner'[j] = owner[j] /\ role'[j] = role[j]
  BY DEF CompleteRegistration, Register, TypeOK, OrderManagerType

(* _clear_order_tracking forgets one order.                                 *)
LEMMA ClearTrackingKeeps ==
  ASSUME TypeOK, NEW i \in OrderIds, ClearTracking(i)
  PROVE  /\ owner'[i] = NoLot /\ role'[i] = "none"
         /\ \A j \in OrderIds : j # i => owner'[j] = owner[j] /\ role'[j] = role[j]
  BY DEF ClearTracking, TypeOK, OrderManagerType

(* _track_protective_stop_order writes both directions of the stop index.   *)
LEMMA TrackStopKeeps ==
  ASSUME TypeOK, NEW i \in OrderIds, NEW k \in Lots, NEW n \in Nat, TrackStop(i, k, n)
  PROVE  /\ stopOrders'[k] = stopOrders[k] \cup {i}
         /\ stopKey'[i] = k /\ stopReq'[i] = n
         /\ \A x \in Lots : x # k => stopOrders'[x] = stopOrders[x]
         /\ \A j \in OrderIds : j # i => stopKey'[j] = stopKey[j] /\ stopReq'[j] = stopReq[j]
  BY DEF TrackStop, TypeOK, OrderManagerType

(* A task that waits for an initial status waits for an order it sent.      *)
LEMMA AwaitFacts ==
  ASSUME TypeOK, AwaitsTrue
  PROVE  /\ bar.pc = "close" => Sent(bar.id, bar.lot, "close")
         /\ bar.pc = "stop" => Sent(bar.id, bar.lot, "protective_stop") /\ bar.level # 0 /\ bar.level \in Nat
         /\ bar.pc = "modify" => bar.id \in OrderIds /\ orders[bar.id].status # "unsent"
                                /\ bar.level # 0 /\ bar.level \in Nat
         /\ ent.pc = "entry" => Sent(ent.id, ent.lot, "entry")
         /\ fil.pc = "stop" => Sent(fil.id, fil.lot, "protective_stop")
  BY TaskFacts DEF AwaitsTrue, BarAwaits, DrainAwaits

(* An order has a role exactly when it has an owner, after every step.      *)
LEMMA RolesOwnedStep ==
  ASSUME TypeOK, RolesOwned, AwaitsTrue, FreshIds, [Next]_vars
  PROVE  RolesOwned'
<1> USE TypeFacts, AwaitFacts
<1>1. CASE UNCHANGED <<owner, role>> BY <1>1 DEF RolesOwned
<1>2. ASSUME NEW i \in OrderIds, NEW l \in Lots, NEW r \in Roles,
             Register(i, l, r) \/ CompleteRegistration(i, l, r)
      PROVE  RolesOwned'
  BY <1>2, RegisterKeeps, CompleteKeeps DEF RolesOwned, Roles
<1>3. ASSUME NEW i \in OrderIds, ClearTracking(i) PROVE RolesOwned'
  BY <1>3, ClearTrackingKeeps DEF RolesOwned
<1>4. BarStep => RolesOwned'
  BY <1>1, <1>2, <1>3 DEF BarStep, BarDispatch, ExitDropped, ExitClose, CloseAccepted,
      CloseRefused, ExitNewStop, ExitModifyStop,
       ModifyAccepted, ModifyRefused, NewStopAccepted, NewStopRefused, ExitRaises,
           EvaluateEntry,
       NoEntry, CancelSessionStops, omVars, Sent, Roles
<1>5. EntryStep => RolesOwned'
  BY <1>1, <1>2, <1>3, HeadQueue DEF EntryStep, DropSignal, ProcessSignal,
      EntryAccepted, EntryRefused, omVars, Sent, Roles
<1>6. FillStep => RolesOwned'
  BY <1>1, <1>2, <1>3, HeadFill DEF FillStep, UnownedFill, CloseFill, StopFill,
      EntryFill, EntryFillNoStop,
     FillStopAccepted, FillStopRefused, omVars, Sent, Roles, TakeFill
<1>7. UpdateStep => RolesOwned' BY <1>3 DEF UpdateStep, OrderUpdate
<1>8. BrokerStep => RolesOwned' BY <1>1 DEF BrokerStep, BrokerEnd, BrokerFill, omVars
<1>9. CASE UNCHANGED vars BY <1>1, <1>9 DEF vars, omVars
<1> QED BY <1>4, <1>5, <1>6, <1>7, <1>8, <1>9 DEF Next

(* Every step keeps the owner and the role of the orders the broker works   *)
(* or has filled.                                                           *)
LEMMA SentTrackedStep ==
  ASSUME TypeOK, RolesOwned, AwaitsTrue, FreshIds, QueuesTrue, SentTracked, [Next]_vars
  PROVE  SentTracked'
<1> USE TypeFacts, AwaitFacts
<1>1. CASE UNCHANGED <<owner, role, orders>> BY <1>1 DEF SentTracked
<1>2. ASSUME NEW i \in OrderIds, NEW l \in Lots, NEW r \in Roles,
             NEW side, NEW qty, NEW level, Place(i, l, r, side, qty, level), Register(i, l, r)
      PROVE  SentTracked'
  <2>1. /\ orders'[i].lot = l /\ orders'[i].role = r
        /\ \A j \in OrderIds : j # i => orders'[j] = orders[j]
    BY <1>2, PlaceKeeps
  <2>2. /\ owner'[i] = l /\ role'[i] = r
        /\ \A j \in OrderIds : j # i => owner'[j] = owner[j] /\ role'[j] = role[j]
    BY <1>2, RegisterKeeps
  <2> QED BY <2>1, <2>2 DEF SentTracked
<1>3. ASSUME NEW i \in OrderIds, NEW l \in Lots, NEW r \in Roles, orders' = orders, Sent(i, l, r),
             Register(i, l, r) \/ CompleteRegistration(i, l, r)
      PROVE  SentTracked'
  BY <1>3, RegisterKeeps, CompleteKeeps DEF SentTracked, Sent
<1>4. ASSUME NEW i \in OrderIds, orders' = orders, orders[i].status = "dead", ClearTracking(i)
      PROVE  SentTracked'
  BY <1>4, ClearTrackingKeeps DEF SentTracked
<1>5. ASSUME NEW i \in OrderIds, UNCHANGED <<owner, role>>,
             BrokerEnd(i) \/ \E q \in 1..orders[i].left : BrokerFill(i, q)
      PROVE  SentTracked'
  BY <1>5, EndKeeps, FillKeeps DEF SentTracked
<1>6. ASSUME NEW p \in bar.todo, NEW i \in OrderIds, NEW n \in 1..MaxLevel, NEW ok \in BOOLEAN,
             ExitModifyStop(p, i, n, ok)
      PROVE  SentTracked'
  <2>1. CASE ok
    <3>1. BrokerModifies(i, ExitSide(p.qty), Abs(p.qty), n) /\ Abs(p.qty) \in Nat /\ n \in Nat
      BY <1>6, <2>1 DEF ExitModifyStop
    <3>2. UNCHANGED <<owner, role>> BY <1>6 DEF ExitModifyStop, omVars
    <3> QED BY <3>1, <3>2, ModifyKeeps DEF SentTracked
  <2>2. CASE ~ok BY <1>1, <1>6, <2>2 DEF ExitModifyStop, omVars
  <2> QED BY <2>1, <2>2
<1>7. BarStep => SentTracked'
  BY <1>1, <1>2, <1>3, <1>4, <1>6 DEF BarStep, BarDispatch, ExitDropped, ExitClose,
      CloseAccepted, CloseRefused, ExitNewStop,
       ModifyAccepted, ModifyRefused, NewStopAccepted, NewStopRefused, ExitRaises,
           EvaluateEntry,
       NoEntry, CancelSessionStops, omVars, brokerVars, Sent, Roles, MayRefuse
<1>8. EntryStep => SentTracked'
  BY <1>1, <1>2, <1>3, <1>4, HeadQueue DEF EntryStep, DropSignal, ProcessSignal,
      EntryAccepted, EntryRefused, omVars, brokerVars, Sent, Roles, MayRefuse
<1>9. FillStep => SentTracked'
  BY <1>1, <1>2, <1>3, <1>4, HeadFill DEF FillStep, UnownedFill, CloseFill, StopFill,
      EntryFill, EntryFillNoStop,
     FillStopAccepted, FillStopRefused, omVars, brokerVars, Sent, Roles, TakeFill,
         MayRefuse
<1>10. UpdateStep => SentTracked' BY <1>4 DEF UpdateStep, OrderUpdate, QueuesTrue
<1>11. BrokerStep => SentTracked' BY <1>5 DEF BrokerStep, BrokerEnd, BrokerFill, omVars
<1>12. CASE UNCHANGED vars BY <1>1, <1>12 DEF vars, omVars, brokerVars
<1> QED BY <1>7, <1>8, <1>9, <1>10, <1>11, <1>12 DEF Next

(* A fill without an owner is one of an order the broker had ended.         *)
LEMMA LostStep ==
  ASSUME TypeOK, RolesOwned, FreshIds, QueuesTrue, SentTracked, LostOnlyAfterEnd, [Next]_vars
  PROVE  LostOnlyAfterEnd'
<1> USE TypeFacts
<1>1. lost \subseteq OrderIds /\ \A i \in lost : orders'[i].status = "dead"
  BY OrdersKeep DEF LostOnlyAfterEnd, Kept, TypeOK, BookType
<1>2. CASE lost' = lost BY <1>1, <1>2 DEF LostOnlyAfterEnd
<1>3. ASSUME NEW r, TakeFill(r) PROVE LostOnlyAfterEnd'
  <2> DEFINE i == Head(fillQ).id
  <2>1. i \in OrderIds /\ lost' = IF owner[i] = NoLot THEN lost \cup {i} ELSE lost
    BY <1>3, HeadFill DEF TakeFill, BookFill
  <2>2. 1 \in DOMAIN fillQ /\ fillQ[1] = Head(fillQ)
    BY <1>3 DEF TakeFill, TypeOK, BrokerType
  <2>3. orders[i].status # "unsent" BY <2>2 DEF QueuesTrue
  <2>4. owner[i] = NoLot => orders[i].status = "dead"
    BY <2>1, <2>3, OrderFacts DEF SentTracked, OrderType, Statuses
  <2>5. owner[i] = NoLot => orders'[i].status = "dead"
    BY <2>1, <2>3, <2>4, OrdersKeep DEF Kept
  <2> QED BY <1>1, <2>1, <2>5 DEF LostOnlyAfterEnd
<1>4. BarStep => LostOnlyAfterEnd'
  BY <1>2 DEF BarStep, BarDispatch, ExitDropped, ExitClose, CloseAccepted, CloseRefused,
      ExitNewStop, ExitModifyStop,
       ModifyAccepted, ModifyRefused, NewStopAccepted, NewStopRefused, ExitRaises,
           EvaluateEntry,
       NoEntry, CancelSessionStops, bookVars
<1>5. EntryStep => LostOnlyAfterEnd'
  BY <1>2 DEF EntryStep, DropSignal, ProcessSignal, EntryAccepted, EntryRefused, bookVars
<1>6. FillStep => LostOnlyAfterEnd'
  BY <1>2, <1>3 DEF FillStep, UnownedFill, CloseFill, StopFill, EntryFill,
      EntryFillNoStop,
     FillStopAccepted, FillStopRefused, bookVars
<1>7. UpdateStep => LostOnlyAfterEnd' BY <1>2 DEF UpdateStep, OrderUpdate, bookVars
<1>8. BrokerStep => LostOnlyAfterEnd' BY <1>2 DEF BrokerStep, BrokerEnd, BrokerFill,
    bookVars
<1>9. CASE UNCHANGED vars BY <1>2, <1>9 DEF vars, bookVars
<1> QED BY <1>4, <1>5, <1>6, <1>7, <1>8, <1>9 DEF Next

(* Ids not yet reserved are unused.                                         *)
LEMMA FreshIdsStep ==
  ASSUME TypeOK, RolesOwned, AwaitsTrue, FreshIds, [Next]_vars
  PROVE  FreshIds'
<1> USE TypeFacts, AwaitFacts
<1>0. nextId \in Nat /\ OrderIds \subseteq Nat BY DEF TypeOK, BrokerType
<1>1. CASE UNCHANGED <<orders, nextId, closeKey>> BY <1>1 DEF FreshIds
<1>2. ASSUME NEW i, NEW l, NEW r, NEW side, NEW qty, NEW level,
             Place(i, l, r, side, qty, level), closeKey' = closeKey
      PROVE  FreshIds'
  <2>1. /\ i \in OrderIds /\ nextId = i /\ nextId' = i + 1
        /\ \A j \in OrderIds : j # i => orders'[j] = orders[j]
    BY <1>2, PlaceKeeps
  <2>2. ASSUME NEW j \in OrderIds, j >= i + 1 PROVE orders'[j] = orders[j] /\ j >= nextId
    BY <1>0, <2>1, <2>2
  <2> QED BY <1>2, <2>1, <2>2 DEF FreshIds
<1>3. ASSUME NEW c \in OrderIds, UNCHANGED <<orders, nextId>>, ClearPendingClose(c)
      PROVE  FreshIds'
  BY <1>3, ClearPendingKeeps DEF FreshIds
<1>4. CASE CloseAccepted
  <2>1. bar.id \in OrderIds /\ ~(bar.id >= nextId)
    BY <1>4 DEF CloseAccepted, FreshIds, Sent
  <2>2. \A j \in OrderIds : j # bar.id => closeKey'[j] = closeKey[j]
    BY <1>4, <2>1 DEF CloseAccepted, TypeOK, OrderManagerType
  <2> QED BY <1>4, <2>1, <2>2 DEF FreshIds, CloseAccepted
<1>5. ASSUME NEW i \in OrderIds, UNCHANGED <<nextId, closeKey>>, orders[i].status # "unsent",
             \A j \in OrderIds : j # i => orders'[j] = orders[j]
      PROVE  FreshIds'
  BY <1>5 DEF FreshIds
<1>6. ASSUME NEW p \in bar.todo, NEW i \in OrderIds, NEW n \in 1..MaxLevel, NEW ok \in BOOLEAN,
             ExitModifyStop(p, i, n, ok)
      PROVE  FreshIds'
  <2>1. CASE ok
    <3>1. BrokerModifies(i, ExitSide(p.qty), Abs(p.qty), n) /\ Abs(p.qty) \in Nat /\ n \in Nat
      BY <1>6, <2>1 DEF ExitModifyStop
    <3>2. UNCHANGED <<nextId, closeKey>> BY <1>6 DEF ExitModifyStop, omVars, closeVars
    <3> QED BY <1>5, <3>1, <3>2, ModifyKeeps
  <2>2. CASE ~ok BY <1>1, <1>6, <2>2 DEF ExitModifyStop, omVars, closeVars
  <2> QED BY <2>1, <2>2
<1>7. BarStep => FreshIds'
  BY <1>1, <1>2, <1>4, <1>6 DEF BarStep, BarDispatch, ExitDropped, ExitClose,
      CloseRefused, ExitNewStop,
       ModifyAccepted, ModifyRefused, NewStopAccepted, NewStopRefused, ExitRaises,
           EvaluateEntry,
       NoEntry, CancelSessionStops, omVars, closeVars, brokerVars, ClearReservation
<1>8. EntryStep => FreshIds'
  BY <1>1, <1>2 DEF EntryStep, DropSignal, ProcessSignal, EntryAccepted, EntryRefused,
      omVars, closeVars, brokerVars
<1>9. CASE StopFill
  <2> DEFINE c == pendingClose[owner[Head(fillQ).id]]
  <2>1. c \in OrderIds \cup {NoId} BY <1>9, HeadFill DEF StopFill, TakeFill, TypeOK,
      OrderManagerType
  <2>2. CASE c = NoId BY <1>1, <1>9, <2>2 DEF StopFill, closeVars
  <2>3. CASE c # NoId BY <1>3, <1>9, <2>1, <2>3 DEF StopFill
  <2> QED BY <2>2, <2>3
<1>10. FillStep => FreshIds'
  BY <1>1, <1>2, <1>3, <1>9, HeadFill DEF FillStep, UnownedFill, CloseFill, EntryFill,
      EntryFillNoStop, TakeFill,
     FillStopAccepted, FillStopRefused, omVars, closeVars, brokerVars
<1>11. UpdateStep => FreshIds' BY <1>1, <1>3 DEF UpdateStep, OrderUpdate, closeVars
<1>12. ASSUME NEW i \in OrderIds,
             BrokerEnd(i) \/ \E q \in 1..orders[i].left : BrokerFill(i, q)
      PROVE  FreshIds'
  <2>1. UNCHANGED <<nextId, closeKey>> BY <1>12 DEF BrokerEnd, BrokerFill, omVars,
      closeVars
  <2> QED BY <1>5, <1>12, <2>1, EndKeeps, FillKeeps
<1>13. CASE UNCHANGED vars BY <1>1, <1>13 DEF vars, omVars, closeVars, brokerVars
<1> QED BY <1>7, <1>8, <1>10, <1>11, <1>12, <1>13 DEF Next, BrokerStep

(* Queued reports are of orders that ended, queued fills of orders that     *)
(* filled.                                                                  *)
LEMMA QueuesTrueStep ==
  ASSUME TypeOK, RolesOwned, FreshIds, QueuesTrue, [Next]_vars
  PROVE  QueuesTrue'
<1> USE TypeFacts
<1>1. /\ fillQ \in Seq(FillType) /\ updQ \subseteq OrderIds
      /\ \A i \in OrderIds : orders[i].done \in Nat
      /\ \A n \in DOMAIN fillQ : fillQ[n].id \in OrderIds
  <2>1. fillQ \in Seq(FillType) /\ updQ \subseteq OrderIds BY DEF TypeOK, BrokerType
  <2>2. \A n \in DOMAIN fillQ : fillQ[n] \in FillType BY <2>1
  <2> QED BY <2>1, <2>2, OrderFacts DEF FillType
<1>2. \A i \in updQ : orders'[i].status = "dead"
  BY <1>1, OrdersKeep DEF QueuesTrue, Kept
<1>3. \A n \in DOMAIN fillQ : orders'[fillQ[n].id].status # "unsent" /\ orders'[fillQ[n].id].done > 0
  BY <1>1, OrdersKeep DEF QueuesTrue, Kept
<1>4. CASE updQ' \subseteq updQ /\ fillQ' = fillQ
  BY <1>2, <1>3, <1>4 DEF QueuesTrue
<1>5. ASSUME updQ' = updQ, fillQ # <<>>, fillQ' = Tail(fillQ) PROVE QueuesTrue'
  <2>1. \A n \in DOMAIN fillQ' : n + 1 \in DOMAIN fillQ /\ fillQ'[n] = fillQ[n + 1] BY <1>1, <1>5
  <2> QED BY <1>2, <1>3, <1>5, <2>1 DEF QueuesTrue
<1>6. ASSUME NEW i \in OrderIds, BrokerEnd(i) PROVE QueuesTrue'
  <2>1. fillQ' = fillQ /\ updQ' = updQ \cup {i} BY <1>6 DEF BrokerEnd
  <2> QED BY <1>2, <1>3, <1>6, <2>1, EndKeeps DEF QueuesTrue
<1>7. ASSUME NEW i \in OrderIds, NEW q \in 1..orders[i].left, BrokerFill(i, q) PROVE QueuesTrue'
  <2>1. updQ' = updQ /\ fillQ' = Append(fillQ, [id |-> i, qty |-> q]) BY <1>7 DEF BrokerFill
  <2>2. \A n \in DOMAIN fillQ' : (n \in DOMAIN fillQ /\ fillQ'[n] = fillQ[n]) \/ fillQ'[n].id = i
    BY <1>1, <2>1
  <2>3. orders'[i].status # "unsent" /\ orders'[i].done > 0 BY <1>7, FillKeeps
  <2> QED BY <1>2, <1>3, <2>1, <2>2, <2>3 DEF QueuesTrue
<1>8. BarStep => QueuesTrue'
  BY <1>4 DEF BarStep, BarDispatch, ExitDropped, ExitClose, CloseAccepted, CloseRefused,
      ExitNewStop, ExitModifyStop,
       ModifyAccepted, ModifyRefused, NewStopAccepted, NewStopRefused, ExitRaises,
           EvaluateEntry,
       NoEntry, CancelSessionStops, brokerVars
<1>9. EntryStep => QueuesTrue'
  BY <1>4 DEF EntryStep, DropSignal, ProcessSignal, EntryAccepted, EntryRefused,
      brokerVars
<1>10. FillStep => QueuesTrue'
  BY <1>4, <1>5 DEF FillStep, UnownedFill, CloseFill, StopFill, EntryFill,
      EntryFillNoStop, TakeFill,
     FillStopAccepted, FillStopRefused, brokerVars
<1>11. UpdateStep => QueuesTrue' BY <1>4 DEF UpdateStep, OrderUpdate
<1>12. BrokerStep => QueuesTrue' BY <1>6, <1>7 DEF BrokerStep
<1>13. CASE UNCHANGED vars BY <1>4, <1>13 DEF vars, brokerVars
<1> QED BY <1>8, <1>9, <1>10, <1>11, <1>12, <1>13 DEF Next

(* A sent order stays sent, for the same lot and in the same role.          *)
LEMMA SentKeeps ==
  ASSUME TypeOK, RolesOwned, FreshIds, [Next]_vars, NEW i, NEW l, NEW r, Sent(i, l, r)
  PROVE  Sent(i, l, r)'
  BY OrdersKeep DEF Sent, Kept

(* After a position the bar loop takes the next one, evaluates the entry,   *)
(* or is done.                                                              *)
LEMMA GoOnPc == \A rest : GoOn(rest).pc \in {"idle", "exits", "entry"}
  BY DEF GoOn, BarIdle

(* A submitted order is a sent one.                                         *)
LEMMA PlaceSends ==
  ASSUME TypeOK, FreshIds, NEW i, NEW l \in Lots, NEW r, NEW side, NEW qty, NEW level,
         Place(i, l, r, side, qty, level)
  PROVE  Sent(i, l, r)'
  BY PlaceKeeps DEF Sent

(* The drains wait for orders they sent, after every step of any task.      *)
LEMMA DrainAwaitsStep ==
  ASSUME TypeOK, RolesOwned, AwaitsTrue, FreshIds, [Next]_vars
  PROVE  DrainAwaits'
<1> USE TypeFacts
<1>1. \A i, l, r : Sent(i, l, r) => Sent(i, l, r)' BY SentKeeps
<1>2. CASE (ent' = ent \/ ent' = Idle) /\ (fil' = fil \/ fil' = Idle)
  BY <1>1, <1>2 DEF AwaitsTrue, DrainAwaits, Idle, Sent
<1>3. ASSUME NEW i \in OrderIds, NEW side \in EntrySides, ProcessSignal(i, side)
      PROVE  DrainAwaits'
  <2>1. PICK l \in Lots : l = Head(queue) BY <1>3, HeadQueue DEF ProcessSignal
  <2>2. Place(i, l, "entry", side, OrderQty, 0) BY <1>3, <2>1 DEF ProcessSignal
  <2>3. Sent(i, l, "entry")' BY <2>2, PlaceSends
  <2>4. fil' = fil /\ ent' = [pc |-> "entry", lot |-> l, id |-> i] BY <1>3, <2>1 DEF ProcessSignal
  <2> QED BY <1>1, <2>3, <2>4 DEF AwaitsTrue, DrainAwaits, Sent
<1>4. ASSUME NEW j \in OrderIds, EntryFill(j) PROVE DrainAwaits'
  <2>1. PICK l \in Lots : l = owner[Head(fillQ).id]
    BY <1>4, HeadFill DEF EntryFill, TakeFill
  <2>2. Place(j, l, "protective_stop", -orders[Head(fillQ).id].side, Head(fillQ).qty,
              FirstLevel(-orders[Head(fillQ).id].side))
    BY <1>4, <2>1 DEF EntryFill
  <2>3. Sent(j, l, "protective_stop")' BY <2>2, PlaceSends
  <2>4. ent' = ent /\ fil' = [pc |-> "stop", lot |-> l, id |-> j] BY <1>4, <2>1 DEF EntryFill
  <2> QED BY <1>1, <2>3, <2>4 DEF AwaitsTrue, DrainAwaits, Sent
<1>5. BarStep => DrainAwaits'
  BY <1>2 DEF BarStep, BarDispatch, ExitDropped, ExitClose, CloseAccepted, CloseRefused,
      ExitNewStop, ExitModifyStop,
       ModifyAccepted, ModifyRefused, NewStopAccepted, NewStopRefused, ExitRaises,
           EvaluateEntry,
       NoEntry, CancelSessionStops
<1>6. EntryStep => DrainAwaits'
  BY <1>2, <1>3 DEF EntryStep, DropSignal, EntryAccepted, EntryRefused
<1>7. FillStep => DrainAwaits'
  BY <1>2, <1>4 DEF FillStep, UnownedFill, CloseFill, StopFill, EntryFillNoStop,
     FillStopAccepted, FillStopRefused
<1>8. UpdateStep => DrainAwaits' BY <1>2 DEF UpdateStep, OrderUpdate
<1>9. BrokerStep => DrainAwaits' BY <1>2 DEF BrokerStep, BrokerEnd, BrokerFill
<1>10. CASE UNCHANGED vars BY <1>2, <1>10 DEF vars
<1> QED BY <1>5, <1>6, <1>7, <1>8, <1>9, <1>10 DEF Next

(* The bar loop waits for an order it sent, and its close stays the lot's   *)
(* pending one.                                                             *)
LEMMA BarAwaitsStep ==
  ASSUME TypeOK, RolesOwned, AwaitsTrue, FreshIds, IndexesAgree, StopsOwned, [Next]_vars
  PROVE  BarAwaits'
<1> USE TypeFacts
<1>1. \A i, l, r : Sent(i, l, r) => Sent(i, l, r)' BY SentKeeps
<1>2. CASE bar'.pc \notin {"close", "stop", "modify"} BY <1>2 DEF BarAwaits
<1>3. ASSUME bar' = bar,
             bar.pc = "close" => pendingClose'[bar.lot] = bar.id /\ closeKey'[bar.id] = NoLot
      PROVE  BarAwaits'
  <2>1. bar.pc = "modify" => orders'[bar.id].status # "unsent"
    BY OrdersKeep DEF AwaitsTrue, BarAwaits, Kept
  <2> QED BY <1>1, <1>3, <2>1 DEF AwaitsTrue, BarAwaits, Sent
<1>4. CASE bar' = bar /\ UNCHANGED closeVars
  BY <1>3, <1>4 DEF AwaitsTrue, BarAwaits, closeVars
<1>5. ASSUME NEW c \in OrderIds, bar' = bar, ClearPendingClose(c) PROVE BarAwaits'
  BY <1>3, <1>5, ClearPendingKeeps DEF AwaitsTrue, BarAwaits, Sent
<1>6. ASSUME NEW p \in bar.todo, NEW i \in OrderIds, ExitClose(p, i) PROVE BarAwaits'
  <2>1. Sent(i, p.lot, "close")' /\ closeKey[i] = NoLot
    BY <1>6, PlaceSends, PlaceKeeps DEF ExitClose
  <2>2. bar' = Await(p, "close", i, 0) /\ pendingClose'[p.lot] = i /\ closeKey' = closeKey
    BY <1>6 DEF ExitClose, TypeOK, OrderManagerType
  <2>3. bar'.pc = "close" /\ bar'.lot = p.lot /\ bar'.id = i
    BY <2>2, TaskFacts DEF Await, BarType
  <2> QED BY <2>1, <2>2, <2>3 DEF BarAwaits, Sent
<1>7. ASSUME NEW p \in bar.todo, NEW i \in OrderIds, NEW n \in 1..MaxLevel, ExitNewStop(p, i, n)
      PROVE  BarAwaits'
  <2>1. Sent(i, p.lot, "protective_stop")' BY <1>7, PlaceSends DEF ExitNewStop
  <2>2. bar' = Await(p, "stop", i, n) BY <1>7 DEF ExitNewStop
  <2>3. bar'.pc = "stop" /\ bar'.lot = p.lot /\ bar'.id = i /\ bar'.level = n /\ n # 0
    BY <2>2, TaskFacts DEF Await, BarType
  <2> QED BY <2>1, <2>3 DEF BarAwaits, Sent
<1>8. ASSUME NEW p \in bar.todo, NEW i \in OrderIds, NEW n \in 1..MaxLevel, NEW ok \in BOOLEAN,
             ExitModifyStop(p, i, n, ok)
      PROVE  BarAwaits'
  <2>0. stopKey[i] = p.lot /\ p.lot # NoLot
    BY <1>8 DEF ExitModifyStop, IsActiveStop, ActiveStops, IndexesAgree
  <2>1. orders'[i].status # "unsent" BY <2>0, OrdersKeep DEF Kept, StopsOwned
  <2>2. bar' = Await(p, "modify", i, n) BY <1>8 DEF ExitModifyStop
  <2>3. bar'.pc = "modify" /\ bar'.id = i /\ bar'.level = n /\ n # 0
    BY <2>2, TaskFacts DEF Await, BarType
  <2> QED BY <2>1, <2>3 DEF BarAwaits
<1>9. BarStep => BarAwaits'
  <2>1. BarIdle.pc = "idle" BY DEF BarIdle
  <2>2. \A s : BarDispatch(s) => bar'.pc \in {"entry", "exits"} BY DEF BarDispatch,
      BarIdle
  <2>3. CancelSessionStops => BarAwaits' BY <1>4 DEF CancelSessionStops
  <2> QED BY <1>2, <1>6, <1>7, <1>8, <2>1, <2>2, <2>3, GoOnPc
    DEF BarStep, ExitDropped, CloseAccepted, CloseRefused, ModifyAccepted, ModifyRefused,
        NewStopAccepted, NewStopRefused, ExitRaises, EvaluateEntry, NoEntry, Resume
<1>10. EntryStep => BarAwaits'
  BY <1>4 DEF EntryStep, DropSignal, ProcessSignal, EntryAccepted, EntryRefused, omVars,
      closeVars
<1>11. CASE StopFill
  <2> DEFINE c == pendingClose[owner[Head(fillQ).id]]
  <2>1. c \in OrderIds \cup {NoId} BY <1>11, HeadFill DEF StopFill, TakeFill, TypeOK,
      OrderManagerType
  <2>2. CASE c = NoId BY <1>4, <1>11, <2>2 DEF StopFill
  <2>3. CASE c # NoId BY <1>5, <1>11, <2>1, <2>3 DEF StopFill
  <2> QED BY <2>2, <2>3
<1>12. FillStep => BarAwaits'
  BY <1>4, <1>5, <1>11, HeadFill DEF FillStep, UnownedFill, CloseFill, EntryFill,
      EntryFillNoStop, TakeFill,
     FillStopAccepted, FillStopRefused, omVars, closeVars
<1>13. UpdateStep => BarAwaits' BY <1>4, <1>5 DEF UpdateStep, OrderUpdate
<1>14. BrokerStep => BarAwaits' BY <1>4 DEF BrokerStep, BrokerEnd, BrokerFill, omVars,
    closeVars
<1>15. CASE UNCHANGED vars BY <1>4, <1>15 DEF vars, omVars, closeVars
<1> QED BY <1>9, <1>10, <1>12, <1>13, <1>14, <1>15 DEF Next

(* _clear_protective_stop removes the named stops from all three            *)
(* dictionaries.                                                            *)
LEMMA ClearStopsKeeps ==
  ASSUME TypeOK, NEW ids, ClearStops(ids)
  PROVE  /\ \A i \in OrderIds : /\ stopKey'[i] = IF i \in ids THEN NoLot ELSE stopKey[i]
                                /\ stopReq'[i] = IF i \in ids THEN 0 ELSE stopReq[i]
         /\ \A k \in Lots : stopOrders'[k] = stopOrders[k] \ {i \in ids : stopKey[i] = k}
  BY DEF ClearStops

(* The parts of IndexesAgree: the stop index and the close index.           *)
StopIndex ==
  /\ \A k \in Lots, i \in OrderIds : i \in stopOrders[k] <=> stopKey[i] = k
  /\ \A i \in OrderIds : stopKey[i] # NoLot => stopReq[i] # 0
CloseIndex == \A i \in OrderIds : closeKey[i] # NoLot => pendingClose[closeKey[i]] = i

(* The two directions of the stop index agree after every step.             *)
LEMMA StopIndexStep ==
  ASSUME TypeOK, RolesOwned, AwaitsTrue, FreshIds, StopsOwned, StopIndex, [Next]_vars
  PROVE  StopIndex' /\ StopsOwned'
<1> USE TypeFacts, AwaitFacts
<1>0. \A i \in OrderIds : orders[i].status # "unsent" =>
         orders'[i].status # "unsent" /\ orders'[i].lot = orders[i].lot
  BY OrdersKeep DEF Kept
<1>1. CASE UNCHANGED stopVars BY <1>0, <1>1 DEF StopIndex, StopsOwned, stopVars
<1>2. ASSUME NEW ids, ClearStops(ids) PROVE (StopIndex' /\ StopsOwned')
  BY <1>0, <1>2, ClearStopsKeeps DEF StopIndex, StopsOwned
<1>3. ASSUME NEW i, NEW l, NEW n \in Nat, n # 0, Sent(i, l, "protective_stop"), TrackStop(i, l, n)
      PROVE  (StopIndex' /\ StopsOwned')
  <2>1. i \in OrderIds /\ l \in Lots /\ (stopKey[i] # NoLot => stopKey[i] = l)
    BY <1>3 DEF Sent, StopsOwned
  <2>2. StopIndex' BY <1>3, <2>1, TrackStopKeeps DEF StopIndex
  <2>3. StopsOwned' BY <1>0, <1>3, <2>1, TrackStopKeeps DEF StopsOwned, Sent
  <2> QED BY <2>2, <2>3
<1>4. CASE ModifyAccepted
  <2>1. /\ UNCHANGED <<stopOrders, stopKey>>
        /\ \A i \in OrderIds : stopReq'[i] = IF i = bar.id THEN bar.level ELSE stopReq[i]
    BY <1>4 DEF ModifyAccepted, TypeOK, OrderManagerType
  <2>2. bar.level # 0 BY <1>4 DEF ModifyAccepted
  <2> QED BY <1>0, <2>1, <2>2 DEF StopIndex, StopsOwned
<1>5. BarStep => (StopIndex' /\ StopsOwned')
  BY <1>1, <1>2, <1>3, <1>4 DEF BarStep, BarDispatch, ExitDropped, ExitClose,
      CloseAccepted, CloseRefused, ExitNewStop, ExitModifyStop,
       ModifyRefused, NewStopAccepted, NewStopRefused, ExitRaises, EvaluateEntry,
       NoEntry, CancelSessionStops, CancelStopsOf, omVars, stopVars
<1>6. EntryStep => (StopIndex' /\ StopsOwned')
  BY <1>1 DEF EntryStep, DropSignal, ProcessSignal, EntryAccepted, EntryRefused, omVars,
      stopVars
<1>7. CASE FillStopAccepted
  <2>1. \A side : FirstLevel(side) \in Nat /\ FirstLevel(side) # 0 BY FirstLevelType
  <2>2. /\ Sent(fil.id, fil.lot, "protective_stop")
        /\ TrackStop(fil.id, fil.lot, FirstLevel(orders[fil.id].side))
    BY <1>7 DEF FillStopAccepted
  <2> QED BY <1>3, <2>1, <2>2
<1>8. FillStep => (StopIndex' /\ StopsOwned')
  BY <1>1, <1>2, <1>7 DEF FillStep, UnownedFill, CloseFill, StopFill, EntryFill,
      EntryFillNoStop,
     FillStopRefused, CancelStopsOf, omVars, stopVars
<1>9. UpdateStep => (StopIndex' /\ StopsOwned')
  BY <1>1, <1>2 DEF UpdateStep, OrderUpdate, stopVars
<1>10. BrokerStep => (StopIndex' /\ StopsOwned')
  BY <1>1 DEF BrokerStep, BrokerEnd, BrokerFill, omVars, stopVars
<1>11. CASE UNCHANGED vars BY <1>1, <1>11 DEF vars, omVars, stopVars
<1> QED BY <1>5, <1>6, <1>8, <1>9, <1>10, <1>11 DEF Next

(* A close that the reverse index knows is its lot's pending close, after   *)
(* every step.                                                              *)
LEMMA CloseIndexStep ==
  ASSUME TypeOK, RolesOwned, AwaitsTrue, FreshIds, CloseIndex, [Next]_vars
  PROVE  CloseIndex'
<1> USE TypeFacts, AwaitFacts
<1>0. /\ \A i \in OrderIds : closeKey[i] \in Lots \cup {NoLot} /\ i # NoId
      /\ pendingClose \in [Lots -> OrderIds \cup {NoId}] /\ closeKey \in [OrderIds -> Lots \cup {NoLot}]
  BY DEF TypeOK, OrderManagerType, OrderIds, NoId
<1>1. CASE UNCHANGED closeVars BY <1>1 DEF CloseIndex, closeVars
<1>2. ASSUME NEW c \in OrderIds, ClearPendingClose(c) PROVE CloseIndex'
  BY <1>0, <1>2, ClearPendingKeeps DEF CloseIndex
<1>3. ASSUME NEW k \in Lots, NEW i, closeKey' = closeKey, pendingClose[k] = NoId,
             pendingClose' = [pendingClose EXCEPT ![k] = i]
      PROVE  CloseIndex'
  BY <1>0, <1>3 DEF CloseIndex
<1>4. CASE CloseAccepted
  <2>1. bar.id \in OrderIds /\ bar.lot \in Lots /\ pendingClose[bar.lot] = bar.id
    BY <1>4 DEF CloseAccepted, AwaitsTrue, BarAwaits, Sent
  <2>2. pendingClose' = pendingClose BY <1>0, <1>4, <2>1 DEF CloseAccepted
  <2>3. closeKey' = [closeKey EXCEPT ![bar.id] = bar.lot] BY <1>4 DEF CloseAccepted
  <2> QED BY <1>0, <2>1, <2>2, <2>3 DEF CloseIndex
<1>5. CASE CloseRefused
  <2>1. bar.id \in OrderIds /\ bar.lot \in Lots /\ closeKey[bar.id] = NoLot
    BY <1>5 DEF CloseRefused, AwaitsTrue, BarAwaits, Sent
  <2>2. closeKey' = closeKey /\ \A k \in Lots : pendingClose'[k] =
          IF k = bar.lot /\ pendingClose[k] = bar.id THEN NoId ELSE pendingClose[k]
    BY <1>0, <1>5, <2>1 DEF CloseRefused, ClearReservation
  <2> QED BY <1>0, <2>1, <2>2 DEF CloseIndex
<1>6. BarStep => CloseIndex'
  BY <1>1, <1>3, <1>4, <1>5 DEF BarStep, BarDispatch, ExitDropped, ExitClose,
      ExitNewStop, ExitModifyStop,
       ModifyAccepted, ModifyRefused, NewStopAccepted, NewStopRefused, ExitRaises,
           EvaluateEntry,
       NoEntry, CancelSessionStops, omVars, closeVars
<1>7. EntryStep => CloseIndex'
  BY <1>1 DEF EntryStep, DropSignal, ProcessSignal, EntryAccepted, EntryRefused, omVars,
      closeVars
<1>8. CASE StopFill
  <2> DEFINE c == pendingClose[owner[Head(fillQ).id]]
  <2>1. c \in OrderIds \cup {NoId} BY <1>8, HeadFill DEF StopFill, TakeFill, TypeOK,
      OrderManagerType
  <2>2. CASE c = NoId BY <1>1, <1>8, <2>2 DEF StopFill
  <2>3. CASE c # NoId BY <1>2, <1>8, <2>1, <2>3 DEF StopFill
  <2> QED BY <2>2, <2>3
<1>9. FillStep => CloseIndex'
  BY <1>1, <1>2, <1>8, HeadFill DEF FillStep, UnownedFill, CloseFill, EntryFill,
      EntryFillNoStop, TakeFill,
     FillStopAccepted, FillStopRefused, omVars, closeVars
<1>10. UpdateStep => CloseIndex' BY <1>1, <1>2 DEF UpdateStep, OrderUpdate
<1>11. BrokerStep => CloseIndex' BY <1>1 DEF BrokerStep, BrokerEnd, BrokerFill, omVars,
    closeVars
<1>12. CASE UNCHANGED vars BY <1>1, <1>12 DEF vars, omVars, closeVars
<1> QED BY <1>6, <1>7, <1>9, <1>10, <1>11, <1>12 DEF Next

(* A close that may still fill and is not being cancelled is its lot's      *)
(* pending close.                                                           *)
LEMMA LiveClosePendingStep ==
  ASSUME TypeOK, RolesOwned, AwaitsTrue, FreshIds, QueuesTrue, LiveClosePending, [Next]_vars
  PROVE  LiveClosePending'
<1> USE TypeFacts, AwaitFacts
<1>0. /\ pendingClose \in [Lots -> OrderIds \cup {NoId}] /\ \A i \in OrderIds : i # NoId
      /\ \A i \in OrderIds : orders[i].done \in Nat
  BY OrderFacts DEF TypeOK, OrderManagerType, OrderIds, NoId
(* A live close was one before the step unless the step sent it.            *)
<1>1. ASSUME NEW i \in OrderIds, NEW k \in Lots, cancelReq \subseteq cancelReq',
             orders[i].status # "unsent", LiveClose(i, k)'
      PROVE  LiveClose(i, k)
  <2>1. Kept(i) BY <1>1, OrdersKeep
  <2> QED BY <1>0, <1>1, <2>1 DEF Kept, LiveClose
<1>2. ASSUME cancelReq \subseteq cancelReq',
             \A i \in OrderIds : orders[i].status = "unsent" =>
               orders'[i].status = "unsent" \/ orders'[i].role # "close",
             \A i \in OrderIds, k \in Lots :
               LiveClose(i, k)' /\ pendingClose[k] = i => pendingClose'[k] = i
      PROVE  LiveClosePending'
  <2> SUFFICES ASSUME NEW i \in OrderIds, NEW k \in Lots, LiveClose(i, k)'
               PROVE  pendingClose'[k] = i
    BY DEF LiveClosePending
  <2>1. orders[i].status # "unsent" BY <1>2 DEF LiveClose
  <2>2. LiveClose(i, k) BY <1>1, <1>2, <2>1
  <2> QED BY <1>2, <2>2 DEF LiveClosePending
<1>3. CASE UNCHANGED <<orders, pendingClose>> /\ cancelReq \subseteq cancelReq'
  BY <1>2, <1>3
<1>4. ASSUME NEW i, NEW l, NEW r, NEW side, NEW qty, NEW level, r # "close",
             Place(i, l, r, side, qty, level), UNCHANGED <<pendingClose, cancelReq>>
      PROVE  LiveClosePending'
  BY <1>2, <1>4, PlaceKeeps
<1>5. ASSUME NEW p \in bar.todo, NEW i \in OrderIds, ExitClose(p, i) PROVE LiveClosePending'
  <2>1. /\ orders'[i].lot = p.lot /\ \A j \in OrderIds : j # i => orders'[j] = orders[j]
    BY <1>5, PlaceKeeps DEF ExitClose
  <2>2. /\ pendingClose[p.lot] = NoId /\ cancelReq' = cancelReq
        /\ \A k \in Lots : pendingClose'[k] = IF k = p.lot THEN i ELSE pendingClose[k]
    BY <1>0, <1>5 DEF ExitClose
  <2> SUFFICES ASSUME NEW j \in OrderIds, NEW k \in Lots, LiveClose(j, k)'
               PROVE  pendingClose'[k] = j
    BY DEF LiveClosePending
  <2>3. CASE j = i BY <2>1, <2>2, <2>3 DEF LiveClose
  <2>4. CASE j # i
    <3>1. LiveClose(j, k) BY <2>1, <2>2, <2>4 DEF LiveClose
    <3>2. pendingClose[k] = j BY <3>1 DEF LiveClosePending
    <3> QED BY <1>0, <2>2, <3>2
  <2> QED BY <2>3, <2>4
<1>6. ASSUME NEW c \in OrderIds, ClearPendingClose(c), orders' = orders, cancelReq \subseteq cancelReq',
             c \in cancelReq' \/ orders[c].done > 0 \/ orders[c].status = "dead"
      PROVE  LiveClosePending'
  <2>1. \A k \in Lots : ~LiveClose(c, k)' BY <1>0, <1>6 DEF LiveClose
  <2>2. \A k \in Lots : pendingClose[k] # c => pendingClose'[k] = pendingClose[k]
    BY <1>6, ClearPendingKeeps
  <2> QED BY <1>2, <1>6, <2>1, <2>2
<1>7. CASE CloseAccepted
  <2>1. bar.lot \in Lots /\ pendingClose[bar.lot] = bar.id
    BY <1>7 DEF CloseAccepted, AwaitsTrue, BarAwaits, Sent
  <2>2. pendingClose' = pendingClose BY <1>0, <1>7, <2>1 DEF CloseAccepted
  <2> QED BY <1>3, <1>7, <2>2 DEF CloseAccepted, CancelStopsOf
<1>8. CASE CloseRefused
  <2>1. PICK i \in OrderIds : i = bar.id /\ orders[i].status = "dead"
    BY <1>8 DEF CloseRefused, Sent, MayRefuse
  <2>2. bar.lot \in Lots BY <1>8 DEF CloseRefused, Sent
  <2>3. /\ orders' = orders /\ cancelReq' = cancelReq
        /\ \A k \in Lots : pendingClose[k] # i => pendingClose'[k] = pendingClose[k]
    BY <1>0, <1>8, <2>1, <2>2 DEF CloseRefused, ClearReservation, brokerVars
  <2>4. \A k \in Lots : ~LiveClose(i, k)' BY <2>1, <2>3 DEF LiveClose
  <2> QED BY <1>2, <2>3, <2>4
<1>9. ASSUME NEW i \in OrderIds, UNCHANGED <<pendingClose, cancelReq>>, orders[i].status # "unsent",
             \A j \in OrderIds : j # i => orders'[j] = orders[j]
      PROVE  LiveClosePending'
  BY <1>2, <1>9
<1>10. ASSUME NEW p \in bar.todo, NEW i \in OrderIds, NEW n \in 1..MaxLevel, NEW ok \in BOOLEAN,
              ExitModifyStop(p, i, n, ok)
       PROVE  LiveClosePending'
  <2>1. UNCHANGED <<pendingClose, cancelReq>> BY <1>10 DEF ExitModifyStop, omVars
  <2>2. CASE ok
    <3>1. BrokerModifies(i, ExitSide(p.qty), Abs(p.qty), n) /\ Abs(p.qty) \in Nat /\ n \in Nat
      BY <1>10, <2>2 DEF ExitModifyStop
    <3> QED BY <1>9, <2>1, <3>1, ModifyKeeps
  <2>3. CASE ~ok BY <1>3, <1>10, <2>1, <2>3 DEF ExitModifyStop
  <2> QED BY <2>2, <2>3
<1>11. BarStep => LiveClosePending'
  <2>1. "protective_stop" # "close" OBVIOUS
  <2> QED BY <1>3, <1>4, <1>5, <1>7, <1>8, <1>10, <2>1
    DEF BarStep, BarDispatch, ExitDropped, ExitNewStop, ModifyAccepted, ModifyRefused,
        NewStopAccepted,
        NewStopRefused, ExitRaises, EvaluateEntry, NoEntry, CancelSessionStops, omVars,
            closeVars, brokerVars
<1>12. EntryStep => LiveClosePending'
  BY <1>3, <1>4 DEF EntryStep, DropSignal, ProcessSignal, EntryAccepted, EntryRefused,
      omVars, closeVars, brokerVars
<1>13. ASSUME fillQ # <<>> PROVE Head(fillQ).id \in OrderIds /\ orders[Head(fillQ).id].done > 0
  <2>1. fillQ \in Seq(FillType) BY DEF TypeOK, BrokerType
  <2>2. 1 \in DOMAIN fillQ /\ fillQ[1] = Head(fillQ) BY <1>13, <2>1
  <2> QED BY <1>13, <2>2, HeadFill DEF QueuesTrue
<1>14. CASE CloseFill
  BY <1>6, <1>13, <1>14 DEF CloseFill, TakeFill, CancelStopsOf
<1>15. CASE StopFill
  <2> DEFINE c == pendingClose[owner[Head(fillQ).id]]
  <2>1. c \in OrderIds \cup {NoId} BY <1>0, <1>15, HeadFill DEF StopFill, TakeFill
  <2>2. CASE c = NoId BY <1>3, <1>15, <2>2 DEF StopFill, closeVars
  <2>3. CASE c # NoId
    <3>1. ClearPendingClose(c) /\ orders' = orders /\ cancelReq' = cancelReq \cup {c}
      BY <1>15, <2>3 DEF StopFill
    <3> QED BY <1>6, <2>1, <2>3, <3>1
  <2> QED BY <2>2, <2>3
<1>16. FillStep => LiveClosePending'
  BY <1>3, <1>4, <1>14, <1>15 DEF FillStep, UnownedFill, EntryFill, EntryFillNoStop,
     FillStopAccepted, FillStopRefused, omVars, closeVars, brokerVars
<1>17. UpdateStep => LiveClosePending'
  BY <1>3, <1>6 DEF UpdateStep, OrderUpdate, QueuesTrue, closeVars
<1>18. ASSUME NEW i \in OrderIds, BrokerEnd(i) \/ \E q \in 1..orders[i].left : BrokerFill(i, q)
       PROVE  LiveClosePending'
  <2>1. UNCHANGED <<pendingClose, cancelReq>> BY <1>18 DEF BrokerEnd, BrokerFill, omVars
  <2> QED BY <1>9, <1>18, <2>1, EndKeeps, FillKeeps
<1>19. CASE UNCHANGED vars BY <1>3, <1>19 DEF vars, omVars, brokerVars
<1> QED BY <1>11, <1>12, <1>16, <1>17, <1>18, <1>19 DEF Next, BrokerStep

(* Every step keeps the order registry typed.                               *)
LEMMA RegistersTypeStep ==
  ASSUME TypeOK, RolesOwned, AwaitsTrue, [Next]_vars
  PROVE  owner' \in [OrderIds -> Lots \cup {NoLot}] /\ role' \in [OrderIds -> Roles \cup {"none"}]
<1> USE TypeFacts, AwaitFacts
<1> DEFINE Typed(o, r) == o \in [OrderIds -> Lots \cup {NoLot}] /\ r \in [OrderIds -> Roles \cup {"none"}]
<1>0. Typed(owner, role) BY DEF TypeOK, OrderManagerType
<1>1. CASE UNCHANGED <<owner, role>> BY <1>0, <1>1
<1>2. ASSUME NEW i, NEW l \in Lots, NEW r \in Roles,
             Register(i, l, r) \/ CompleteRegistration(i, l, r) \/ ClearTracking(i)
      PROVE  Typed(owner', role')
  <2>1. CASE Register(i, l, r) BY <1>0, <2>1 DEF Register
  <2>2. CASE CompleteRegistration(i, l, r) BY <1>0, <2>2 DEF CompleteRegistration,
      Register
  <2>3. CASE ClearTracking(i) BY <1>0, <2>3 DEF ClearTracking
  <2> QED BY <1>2, <2>1, <2>2, <2>3
<1>3. ASSUME NEW i, ClearTracking(i) PROVE Typed(owner', role')
  BY <1>0, <1>3 DEF ClearTracking
<1>4. {"entry", "close", "protective_stop"} = Roles BY DEF Roles
<1>5. BarStep => Typed(owner', role')
  BY <1>1, <1>2, <1>3, <1>4 DEF BarStep, BarDispatch, ExitDropped, ExitClose,
      CloseAccepted, CloseRefused, ExitNewStop, ExitModifyStop,
       ModifyAccepted, ModifyRefused, NewStopAccepted, NewStopRefused, ExitRaises,
           EvaluateEntry,
       NoEntry, CancelSessionStops, omVars, Sent
<1>6. EntryStep => Typed(owner', role')
  BY <1>1, <1>2, <1>3, <1>4, HeadQueue DEF EntryStep, DropSignal, ProcessSignal,
      EntryAccepted, EntryRefused, omVars, Sent
<1>7. FillStep => Typed(owner', role')
  BY <1>1, <1>2, <1>3, <1>4, HeadFill DEF FillStep, UnownedFill, CloseFill, StopFill,
      EntryFill, EntryFillNoStop,
     FillStopAccepted, FillStopRefused, omVars, Sent, TakeFill
<1>8. UpdateStep => Typed(owner', role') BY <1>3 DEF UpdateStep, OrderUpdate
<1>9. BrokerStep => Typed(owner', role') BY <1>1 DEF BrokerStep, BrokerEnd, BrokerFill,
    omVars
<1>10. CASE UNCHANGED vars BY <1>1, <1>10 DEF vars, omVars
<1> QED BY <1>5, <1>6, <1>7, <1>8, <1>9, <1>10 DEF Next

(* Every step keeps the close dictionaries typed.                           *)
LEMMA ClosesTypeStep ==
  ASSUME TypeOK, RolesOwned, AwaitsTrue, [Next]_vars
  PROVE  /\ pendingClose' \in [Lots -> OrderIds \cup {NoId}]
         /\ closeKey' \in [OrderIds -> Lots \cup {NoLot}]
<1> USE TypeFacts, AwaitFacts
<1> DEFINE Typed(p, c) == p \in [Lots -> OrderIds \cup {NoId}] /\ c \in [OrderIds -> Lots \cup {NoLot}]
<1>0. Typed(pendingClose, closeKey) BY DEF TypeOK, OrderManagerType
<1>1. CASE UNCHANGED closeVars BY <1>0, <1>1 DEF closeVars
<1>2. ASSUME NEW c, ClearPendingClose(c) PROVE Typed(pendingClose', closeKey')
  BY <1>0, <1>2 DEF ClearPendingClose
<1>3. ASSUME NEW k, NEW i \in OrderIds, closeKey' = closeKey,
             pendingClose' = [pendingClose EXCEPT ![k] = i]
      PROVE  Typed(pendingClose', closeKey')
  BY <1>0, <1>3
<1>4. CASE CloseAccepted BY <1>0, <1>4 DEF CloseAccepted, Sent
<1>5. CASE CloseRefused BY <1>0, <1>5 DEF CloseRefused, ClearReservation
<1>6. BarStep => Typed(pendingClose', closeKey')
  BY <1>1, <1>3, <1>4, <1>5 DEF BarStep, BarDispatch, ExitDropped, ExitClose,
      ExitNewStop, ExitModifyStop,
       ModifyAccepted, ModifyRefused, NewStopAccepted, NewStopRefused, ExitRaises,
           EvaluateEntry,
       NoEntry, CancelSessionStops, omVars, closeVars
<1>7. EntryStep => Typed(pendingClose', closeKey')
  BY <1>1 DEF EntryStep, DropSignal, ProcessSignal, EntryAccepted, EntryRefused, omVars,
      closeVars
<1>8. FillStep => Typed(pendingClose', closeKey')
  BY <1>1, <1>2 DEF FillStep, UnownedFill, CloseFill, StopFill, EntryFill,
      EntryFillNoStop,
     FillStopAccepted, FillStopRefused, omVars, closeVars
<1>9. UpdateStep => Typed(pendingClose', closeKey') BY <1>1, <1>2 DEF UpdateStep,
    OrderUpdate
<1>10. BrokerStep => Typed(pendingClose', closeKey') BY <1>1 DEF BrokerStep, BrokerEnd,
    BrokerFill, omVars, closeVars
<1>11. CASE UNCHANGED vars BY <1>1, <1>11 DEF vars, omVars, closeVars
<1> QED BY <1>6, <1>7, <1>8, <1>9, <1>10, <1>11 DEF Next

(* Every step keeps the stop dictionaries typed.                            *)
LEMMA StopsTypeStep ==
  ASSUME TypeOK, RolesOwned, AwaitsTrue, [Next]_vars
  PROVE  /\ stopOrders' \in [Lots -> SUBSET OrderIds]
         /\ stopKey' \in [OrderIds -> Lots \cup {NoLot}] /\ stopReq' \in [OrderIds -> Nat]
<1> USE TypeFacts, AwaitFacts
<1> DEFINE Typed(o, k, r) == /\ o \in [Lots -> SUBSET OrderIds]
                             /\ k \in [OrderIds -> Lots \cup {NoLot}] /\ r \in [OrderIds -> Nat]
<1>0. Typed(stopOrders, stopKey, stopReq) BY DEF TypeOK, OrderManagerType
<1>1. CASE UNCHANGED stopVars BY <1>0, <1>1 DEF stopVars
<1>2. ASSUME NEW ids, ClearStops(ids) PROVE Typed(stopOrders', stopKey', stopReq')
  BY <1>0, <1>2 DEF ClearStops
<1>3. ASSUME NEW i \in OrderIds, NEW k \in Lots, NEW n \in Nat, TrackStop(i, k, n)
      PROVE  Typed(stopOrders', stopKey', stopReq')
  BY <1>0, <1>3 DEF TrackStop
<1>4. CASE ModifyAccepted BY <1>0, <1>4 DEF ModifyAccepted
<1>5. BarStep => Typed(stopOrders', stopKey', stopReq')
  BY <1>1, <1>2, <1>3, <1>4 DEF BarStep, BarDispatch, ExitDropped, ExitClose,
      CloseAccepted, CloseRefused, ExitNewStop, ExitModifyStop,
       ModifyRefused, NewStopAccepted, NewStopRefused, ExitRaises, EvaluateEntry,
       NoEntry, CancelSessionStops, CancelStopsOf, omVars, stopVars, Sent
<1>6. EntryStep => Typed(stopOrders', stopKey', stopReq')
  BY <1>1 DEF EntryStep, DropSignal, ProcessSignal, EntryAccepted, EntryRefused, omVars,
      stopVars
<1>7. CASE FillStopAccepted
  <2>1. \A side : FirstLevel(side) \in Nat BY FirstLevelType
  <2> QED BY <1>3, <1>7, <2>1 DEF FillStopAccepted, Sent
<1>8. FillStep => Typed(stopOrders', stopKey', stopReq')
  BY <1>1, <1>2, <1>7 DEF FillStep, UnownedFill, CloseFill, StopFill, EntryFill,
      EntryFillNoStop,
     FillStopRefused, CancelStopsOf, omVars, stopVars
<1>9. UpdateStep => Typed(stopOrders', stopKey', stopReq') BY <1>1, <1>2 DEF UpdateStep,
    OrderUpdate, stopVars
<1>10. BrokerStep => Typed(stopOrders', stopKey', stopReq') BY <1>1 DEF BrokerStep,
    BrokerEnd, BrokerFill, omVars, stopVars
<1>11. CASE UNCHANGED vars BY <1>1, <1>11 DEF vars, omVars, stopVars
<1> QED BY <1>5, <1>6, <1>8, <1>9, <1>10, <1>11 DEF Next

(* Every step keeps the signal queue and the portfolio typed.               *)
LEMMA BookTypeStep ==
  ASSUME TypeOK, RolesOwned, [Next]_vars
  PROVE  queue' \in Seq(EntryLots) /\ BookType'
<1> USE TypeFacts
<1>0. queue \in Seq(EntryLots) /\ BookType BY DEF TypeOK, OrderManagerType
<1>1. CASE UNCHANGED <<queue, wide, agg, lotQty, lost, raised>> BY <1>0, <1>1 DEF BookType
<1>2. CASE UNCHANGED <<wide, agg, lotQty, lost, raised>> /\ queue' \in Seq(EntryLots)
  BY <1>0, <1>2 DEF BookType
<1>3. ASSUME NEW r, TakeFill(r), queue' = queue, raised' \subseteq Lots
      PROVE  queue' \in Seq(EntryLots) /\ BookType'
  BY <1>0, <1>3, BookFillType DEF BookType
<1>4. BarStep => queue' \in Seq(EntryLots) /\ BookType'
  BY <1>1, <1>2, AppendQueue DEF BarStep, BarDispatch, ExitDropped, ExitClose,
      CloseAccepted, CloseRefused, ExitNewStop, ExitModifyStop,
       ModifyAccepted, ModifyRefused, NewStopAccepted, NewStopRefused, ExitRaises,
           EvaluateEntry,
       NoEntry, CancelSessionStops, bookVars
<1>5. EntryStep => queue' \in Seq(EntryLots) /\ BookType'
  BY <1>1, <1>2, HeadQueue DEF EntryStep, DropSignal, ProcessSignal, EntryAccepted,
      EntryRefused, bookVars
<1>6. CASE EntryFillNoStop
  <2>1. owner[Head(fillQ).id] \in Lots BY <1>6, HeadFill DEF EntryFillNoStop, TakeFill
  <2>2. raised' \subseteq Lots BY <1>0, <1>6, <2>1 DEF EntryFillNoStop, BookType
  <2> QED BY <1>3, <1>6, <2>2 DEF EntryFillNoStop
<1>7. raised \subseteq Lots BY <1>0 DEF BookType
<1>8. FillStep => queue' \in Seq(EntryLots) /\ BookType'
  BY <1>1, <1>3, <1>6, <1>7 DEF FillStep, UnownedFill, CloseFill, StopFill, EntryFill,
     FillStopAccepted, FillStopRefused, bookVars
<1>9. UpdateStep => queue' \in Seq(EntryLots) /\ BookType'
  BY <1>1 DEF UpdateStep, OrderUpdate, bookVars
<1>10. BrokerStep => queue' \in Seq(EntryLots) /\ BookType'
  BY <1>1 DEF BrokerStep, BrokerEnd, BrokerFill, bookVars
<1>11. CASE UNCHANGED vars BY <1>1, <1>11 DEF vars, bookVars
<1> QED BY <1>4, <1>5, <1>8, <1>9, <1>10, <1>11 DEF Next

(* Every step keeps the tasks' local variables typed.                       *)
LEMMA TaskTypeStep ==
  ASSUME TypeOK, RolesOwned, AwaitsTrue, [Next]_vars
  PROVE  TaskType'
<1> USE TypeFacts, TaskFacts
<1>0. TaskType /\ NoId \in OrderIds \cup {NoId} BY DEF TypeOK
<1>1. CASE UNCHANGED <<bar, ent, fil>> BY <1>0, <1>1 DEF TaskType
<1>2. ASSUME bar' \in BarType, UNCHANGED <<ent, fil>> PROVE TaskType'
  BY <1>0, <1>2 DEF TaskType
<1>3. BarIdle \in BarType BY DEF BarIdle, BarType, NoId
<1>4. ASSUME NEW rest \in SUBSET bar.todo PROVE GoOn(rest) \in BarType
  BY <1>4, <1>0 DEF GoOn, BarIdle, BarType, NoId
<1>5. ASSUME NEW s \in Strategies, BarDispatch(s) PROVE bar' \in BarType
  BY <1>5, DispatchType
<1>6. ASSUME NEW p \in bar.todo, NEW pc \in {"close", "modify", "stop"}, NEW i \in OrderIds,
             NEW n \in Nat
      PROVE  Await(p, pc, i, n) \in BarType
  BY <1>0 DEF Await, BarType
<1>7. /\ 0 \in Nat /\ bar.todo \in SUBSET bar.todo
      /\ \A p \in bar.todo : bar.todo \ {p} \in SUBSET bar.todo
  OBVIOUS
<1>8. ASSUME NEW p \in bar.todo, NEW i \in OrderIds, NEW n \in 1..MaxLevel, NEW ok \in BOOLEAN,
              ExitClose(p, i) \/ ExitNewStop(p, i, n) \/ ExitModifyStop(p, i, n, ok)
       PROVE  TaskType'
  <2>1. CASE ExitClose(p, i) BY <1>2, <1>6, <1>7, <2>1 DEF ExitClose
  <2>2. CASE ExitNewStop(p, i, n) BY <1>2, <1>6, <1>7, <2>2 DEF ExitNewStop
  <2>3. CASE ExitModifyStop(p, i, n, ok) BY <1>2, <1>6, <2>3 DEF ExitModifyStop
  <2> QED BY <1>8, <2>1, <2>2, <2>3
<1>9. ASSUME NEW p \in bar.todo, NEW i \in OrderIds, ExitClose(p, i) PROVE TaskType'
  BY <1>2, <1>6, <1>7, <1>9 DEF ExitClose
<1>10. ASSUME NEW s \in Strategies, BarDispatch(s) PROVE TaskType'
  BY <1>2, <1>5, <1>10 DEF BarDispatch
<1>11. BarStep => TaskType'
  BY <1>1, <1>2, <1>3, <1>4, <1>7, <1>8, <1>9, <1>10 DEF BarStep, ExitDropped,
      CloseAccepted, CloseRefused,
     ModifyAccepted, ModifyRefused, NewStopAccepted, NewStopRefused, ExitRaises,
     EvaluateEntry, NoEntry, CancelSessionStops, Resume
<1>12. EntryStep => TaskType'
  BY <1>0, <1>1, HeadQueue DEF EntryStep, DropSignal, ProcessSignal, EntryAccepted,
      EntryRefused, TaskType, Idle
<1>13. FillStep => TaskType'
  BY <1>0, <1>1, HeadFill DEF FillStep, UnownedFill, CloseFill, StopFill, EntryFill,
      EntryFillNoStop,
     FillStopAccepted, FillStopRefused, TaskType, Idle, TakeFill
<1>14. UpdateStep => TaskType' BY <1>1 DEF UpdateStep, OrderUpdate
<1>15. BrokerStep => TaskType' BY <1>1 DEF BrokerStep, BrokerEnd, BrokerFill
<1>16. CASE UNCHANGED vars BY <1>1, <1>16 DEF vars
<1> QED BY <1>11, <1>12, <1>13, <1>14, <1>15, <1>16 DEF Next

(* Every step keeps the broker and the queues its callbacks fill typed.     *)
LEMMA BrokerTypeStep ==
  ASSUME TypeOK, RolesOwned, AwaitsTrue, [Next]_vars
  PROVE  BrokerType'
<1> USE TypeFacts
<1>0. BrokerType BY DEF TypeOK
<1>1. CASE UNCHANGED brokerVars BY <1>0, <1>1 DEF BrokerType, brokerVars
<1>2. ASSUME orders' \in [OrderIds -> OrderType], nextId' \in Nat \ {0}, cancelReq' \subseteq OrderIds,
             fillQ' \in Seq(FillType), updQ' \subseteq OrderIds
      PROVE  BrokerType'
  BY <1>2 DEF BrokerType
<1>3. ASSUME NEW i \in OrderIds, NEW l \in Lots, NEW r \in Roles, NEW side \in Sides,
             NEW qty \in Nat, NEW level \in Nat, Place(i, l, r, side, qty, level),
             UNCHANGED <<cancelReq, updQ>>, fillQ' \in Seq(FillType)
      PROVE  BrokerType'
  BY <1>0, <1>3, PlaceType DEF BrokerType
<1>4. ASSUME orders' \in [OrderIds -> OrderType], UNCHANGED <<nextId, cancelReq, fillQ, updQ>>
      PROVE  BrokerType'
  BY <1>0, <1>4 DEF BrokerType
<1>5. ASSUME UNCHANGED <<orders, nextId, updQ>>, cancelReq' \subseteq OrderIds, fillQ' \in Seq(FillType)
      PROVE  BrokerType'
  BY <1>0, <1>5 DEF BrokerType
<1>6. fillQ \in Seq(FillType) /\ cancelReq \subseteq OrderIds BY <1>0 DEF BrokerType
<1>7. ASSUME NEW p \in bar.todo, NEW i \in OrderIds, NEW n \in 1..MaxLevel, NEW ok \in BOOLEAN,
             ExitModifyStop(p, i, n, ok)
      PROVE  BrokerType'
  <2>1. UNCHANGED <<nextId, cancelReq, fillQ, updQ>> BY <1>7 DEF ExitModifyStop
  <2>2. CASE ok
    <3>1. BrokerModifies(i, ExitSide(p.qty), Abs(p.qty), n) BY <1>7, <2>2 DEF
        ExitModifyStop
    <3>2. orders' \in [OrderIds -> OrderType] BY <3>1, ModifyType
    <3> QED BY <1>4, <2>1, <3>2
  <2>3. CASE ~ok BY <1>1, <1>7, <2>1, <2>3 DEF ExitModifyStop, brokerVars
  <2> QED BY <2>2, <2>3
<1>8. CASE CloseAccepted
  <2>1. stopOrders[bar.lot] \subseteq OrderIds
    BY <1>8, AwaitFacts DEF CloseAccepted, Sent, TypeOK, OrderManagerType
  <2> QED BY <1>5, <1>6, <1>8, <2>1 DEF CloseAccepted, CancelStopsOf
<1>9. /\ 0 \in Nat /\ {"entry", "close", "protective_stop"} = Roles
  BY DEF Roles
<1>10. BarStep => BrokerType'
  BY <1>1, <1>3, <1>5, <1>6, <1>7, <1>8, <1>9 DEF BarStep, BarDispatch, ExitDropped,
      ExitClose, CloseRefused,
     ExitNewStop, ModifyAccepted, ModifyRefused, NewStopAccepted, NewStopRefused,
         ExitRaises,
     EvaluateEntry, NoEntry, CancelSessionStops
<1>11. EntryStep => BrokerType'
  BY <1>1, <1>3, <1>6, <1>9, HeadQueue DEF EntryStep, DropSignal, ProcessSignal,
      EntryAccepted, EntryRefused
<1>12. ASSUME NEW r, TakeFill(r) PROVE fillQ' \in Seq(FillType) BY <1>12, BookFillType
<1>13. CASE CloseFill
  <2>1. owner[Head(fillQ).id] \in Lots BY <1>13, HeadFill DEF CloseFill, TakeFill
  <2>2. stopOrders[owner[Head(fillQ).id]] \subseteq OrderIds BY <2>1 DEF TypeOK,
      OrderManagerType
  <2> QED BY <1>5, <1>6, <1>12, <1>13, <2>2 DEF CloseFill, CancelStopsOf
<1>14. CASE StopFill
  <2> DEFINE c == pendingClose[owner[Head(fillQ).id]]
  <2>1. c \in OrderIds \cup {NoId} BY <1>14, HeadFill DEF StopFill, TakeFill, TypeOK,
      OrderManagerType
  <2>2. cancelReq' \subseteq OrderIds BY <1>6, <1>14, <2>1 DEF StopFill
  <2> QED BY <1>5, <1>12, <1>14, <2>2 DEF StopFill
<1>15. ASSUME NEW j \in OrderIds, EntryFill(j) PROVE BrokerType'
  <2> DEFINE f == Head(fillQ)
  <2>1. f.id \in OrderIds /\ owner[f.id] \in Lots /\ f.qty \in Nat
    BY <1>15, HeadFill DEF EntryFill, TakeFill
  <2>2. -orders[f.id].side \in Sides BY <2>1, OrderFacts
  <2>3. fillQ' \in Seq(FillType) BY <1>12, <1>15 DEF EntryFill
  <2>4. FirstLevel(-orders[f.id].side) \in Nat BY FirstLevelType
  <2> QED BY <1>3, <1>9, <1>15, <2>1, <2>2, <2>3, <2>4 DEF EntryFill
<1>16. FillStep => BrokerType'
  BY <1>1, <1>5, <1>6, <1>12, <1>13, <1>14, <1>15 DEF FillStep, UnownedFill,
      EntryFillNoStop,
     FillStopAccepted, FillStopRefused
<1>17. UpdateStep => BrokerType' BY <1>0 DEF UpdateStep, OrderUpdate, BrokerType
<1>18. ASSUME NEW i \in OrderIds, BrokerEnd(i) PROVE BrokerType'
  <2>1. orders[i] \in OrderType BY OrderFacts
  <2>2. [orders[i] EXCEPT !.status = "dead"] \in OrderType BY <2>1 DEF OrderType, Statuses
  <2> QED BY <1>0, <1>18, <2>2 DEF BrokerType, BrokerEnd
<1>19. ASSUME NEW i \in OrderIds, NEW q \in 1..orders[i].left, BrokerFill(i, q) PROVE BrokerType'
  <2>1. q \in Nat BY <1>19, OrderFacts
  <2>2. fillQ' \in Seq(FillType) BY <1>6, <1>19, <2>1 DEF BrokerFill, FillType
  <2>3. orders' \in [OrderIds -> OrderType] BY <1>19, BrokerFillType
  <2> QED BY <1>0, <1>19, <2>2, <2>3 DEF BrokerFill, BrokerType
<1>20. BrokerStep => BrokerType' BY <1>18, <1>19 DEF BrokerStep
<1>21. CASE UNCHANGED vars BY <1>1, <1>21 DEF vars, brokerVars
<1> QED BY <1>10, <1>11, <1>16, <1>17, <1>20, <1>21 DEF Next

-----------------------------------------------------------------------------

(* The initial state: nothing sent, nothing tracked, the adopted lot booked. *)
LEMMA InitIInv == Init => IInv
<1> SUFFICES ASSUME Init PROVE IInv OBVIOUS
<1> USE ConstantsAssumption DEF ConstantsAssumption
<1>1. OrderManagerType /\ RolesOwned
  BY DEF Init, OrderManagerType, RolesOwned, NoId, Roles, Lots
<1>2. BookType BY DEF Init, BookType, Lots
<1>3. Unsent \in OrderType BY DEF Unsent, OrderType, Statuses, Sides
<1>4. BrokerType BY <1>3 DEF Init, BrokerType
<1>5. TaskType BY DEF Init, TaskType, BarType, BarIdle, Idle, NoId
<1>6. IndexesAgree BY DEF Init, IndexesAgree, Lots
<1>7. \A i \in OrderIds : orders[i].status = "unsent" BY DEF Init, Unsent
<1>8. SentTracked /\ FreshIds BY <1>7 DEF Init, SentTracked, FreshIds
<1>9. LostOnlyAfterEnd /\ QueuesTrue BY DEF Init, LostOnlyAfterEnd, QueuesTrue
<1>10. AwaitsTrue BY DEF Init, AwaitsTrue, BarAwaits, DrainAwaits, BarIdle, Idle
<1>11. LiveClosePending /\ StopsOwned BY <1>7 DEF Init, LiveClosePending, LiveClose, StopsOwned
<1> QED BY <1>1, <1>2, <1>4, <1>5, <1>6, <1>8, <1>9, <1>10, <1>11 DEF IInv, TypeOK

(* No step of any task or of the broker leaves the inductive invariant. *)
LEMMA StepIInv == IInv /\ [Next]_vars => IInv'
<1> SUFFICES ASSUME IInv, [Next]_vars PROVE IInv' OBVIOUS
<1>1. /\ TypeOK /\ IndexesAgree /\ SentTracked /\ LostOnlyAfterEnd /\ FreshIds
      /\ RolesOwned /\ QueuesTrue /\ AwaitsTrue /\ LiveClosePending /\ StopsOwned
  BY DEF IInv
<1>2. TypeOK'
  BY <1>1, RegistersTypeStep, ClosesTypeStep, StopsTypeStep, BookTypeStep, TaskTypeStep,
     BrokerTypeStep DEF TypeOK, OrderManagerType
<1>3. StopIndex /\ CloseIndex BY <1>1 DEF IndexesAgree, StopIndex, CloseIndex
<1>4. StopIndex' /\ StopsOwned' BY <1>1, <1>3, StopIndexStep
<1>5. CloseIndex' BY <1>1, <1>3, CloseIndexStep
<1>6. IndexesAgree' BY <1>4, <1>5 DEF IndexesAgree, StopIndex, CloseIndex
<1>7. RolesOwned' /\ SentTracked' BY <1>1, RolesOwnedStep, SentTrackedStep
<1>8. LostOnlyAfterEnd' BY <1>1, LostStep
<1>9. FreshIds' /\ QueuesTrue' BY <1>1, FreshIdsStep, QueuesTrueStep
<1>10. AwaitsTrue' BY <1>1, BarAwaitsStep, DrainAwaitsStep DEF AwaitsTrue
<1>11. LiveClosePending' BY <1>1, LiveClosePendingStep
<1> QED BY <1>2, <1>4, <1>6, <1>7, <1>8, <1>9, <1>10, <1>11 DEF IInv

(* IInv holds in every reachable state. *)
THEOREM Inductive == Spec => []IInv
<1>1. Init => IInv BY InitIInv
<1>2. IInv /\ [Next]_vars => IInv' BY StepIInv
<1> QED BY <1>1, <1>2, PTL DEF Spec

(* The manager's dictionaries, the books, the broker's orders and the        *)
(* local variables of the tasks always have their types.                     *)
THEOREM TypeCorrect == Spec => []TypeOK
<1>1. IInv => TypeOK BY DEF IInv
<1> QED BY <1>1, Inductive, PTL

(* However the bar loop and the drains interleave around their awaits, the   *)
(* forward and reverse dictionaries of stops and closes never disagree.      *)
THEOREM IndexesAlwaysAgree == Spec => []IndexesAgree
<1>1. IInv => IndexesAgree BY DEF IInv
<1> QED BY <1>1, Inductive, PTL

(* tracked_open_order_ids always covers the orders the broker works, in the  *)
(* role and for the lot they were sent for.                                  *)
THEOREM WorkingOrdersAlwaysTracked == Spec => []WorkingOrdersTracked
<1>1. IInv => WorkingOrdersTracked BY DEF IInv, SentTracked, WorkingOrdersTracked
<1> QED BY <1>1, Inductive, PTL

(* Only an order that the broker had ended loses a fill's owner.             *)
THEOREM LostFillsOnlyAfterEnd == Spec => []LostOnlyAfterEnd
<1>1. IInv => LostOnlyAfterEnd BY DEF IInv
<1> QED BY <1>1, Inductive, PTL

(* The pending-close index never lets a second close go out for a lot while  *)
(* one is at work, unfilled and not being cancelled.                         *)
THEOREM NeverTwoLiveCloses == Spec => []OneLiveClose
<1>1. IInv => OneLiveClose BY DEF IInv, LiveClosePending, OneLiveClose
<1> QED BY <1>1, Inductive, PTL

-----------------------------------------------------------------------------
(* A simulated run: the drains are called inline, between two steps of the  *)
(* bar loop, so what the loop read before an await is still so after it.    *)

(* The bar loop's snapshot is the book while the loop works on it: no fill  *)
(* is drained before the loop is back at rest.                              *)
SnapshotTrue ==
  /\ \A k \in Lots : k[2] = NoTrade => lotQty[k] = 0
  /\ bar.pc = "idle" => bar.todo = {}
  /\ \A p \in bar.todo : p.qty = Book(p.lot)

(* What dispatch reads from the portfolio is the book of each lot it names. *)
LEMMA DispatchReadsBook ==
  ASSUME SnapshotTrue, NEW s \in Strategies
  PROVE  \A p \in Positions(s) : p.qty = Book(p.lot)
<1>1. \A p \in OpenLots(s) : p.qty = Book(p.lot)
  <2> SUFFICES ASSUME NEW l \in Lots, lotQty[l] # 0 PROVE lotQty[l] = Book(l)
    BY DEF OpenLots
  <2> QED BY DEF SnapshotTrue, Book
<1>2. \A p \in Aggregate(s) : p.qty = Book(p.lot) BY DEF Aggregate, Book
<1> QED BY <1>1, <1>2 DEF Positions

(* Only a dispatch adds to the loop's snapshot; at rest nothing is left.    *)
LEMMA SnapshotShrinks ==
  ASSUME TypeOK, SnapshotTrue, BarStep, \A s \in Strategies : ~BarDispatch(s)
  PROVE  bar'.todo \subseteq bar.todo /\ (bar'.pc = "idle" => bar'.todo = {})
<1>1. \A rest \in SUBSET bar.todo :
        GoOn(rest).todo \subseteq bar.todo /\ (GoOn(rest).pc = "idle" => GoOn(rest).todo = {})
  BY DEF GoOn, BarIdle
<1>2. BarIdle.todo = {} BY DEF BarIdle
<1>3. \A p, i, n : \A pc \in {"close", "modify", "stop"} :
        Await(p, pc, i, n).todo \subseteq bar.todo /\ Await(p, pc, i, n).pc # "idle"
  BY TaskFacts DEF Await, BarType
<1>4. bar.todo \in SUBSET bar.todo /\ \A p \in bar.todo : bar.todo \ {p} \in SUBSET bar.todo
  OBVIOUS
<1>5. CASE CancelSessionStops BY <1>5 DEF CancelSessionStops, SnapshotTrue
<1>6. ASSUME NEW p \in bar.todo, NEW i \in OrderIds, NEW n \in 1..MaxLevel, NEW ok \in BOOLEAN,
             ExitClose(p, i) \/ ExitNewStop(p, i, n) \/ ExitModifyStop(p, i, n, ok)
      PROVE  bar'.todo \subseteq bar.todo /\ bar'.pc # "idle"
  BY <1>3, <1>6 DEF ExitClose, ExitNewStop, ExitModifyStop
<1>7. ASSUME NEW p \in bar.todo, NEW i \in OrderIds, ExitClose(p, i)
      PROVE  bar'.todo \subseteq bar.todo /\ bar'.pc # "idle"
  BY <1>3, <1>7 DEF ExitClose
<1>8. ASSUME \/ CloseAccepted \/ CloseRefused \/ ModifyAccepted \/ ModifyRefused
             \/ NewStopAccepted \/ NewStopRefused \/ ExitRaises \/ NoEntry
             \/ \E l \in EntryLots : EvaluateEntry(l)
             \/ \E p \in bar.todo : ExitDropped(p)
      PROVE  bar'.todo \subseteq bar.todo /\ (bar'.pc = "idle" => bar'.todo = {})
  BY <1>1, <1>2, <1>4, <1>8 DEF ExitDropped, CloseAccepted, CloseRefused, ModifyAccepted,
     ModifyRefused, NewStopAccepted, NewStopRefused, ExitRaises, EvaluateEntry, NoEntry, Resume
<1> QED BY <1>5, <1>6, <1>7, <1>8 DEF BarStep

LEMMA SnapshotStep ==
  ASSUME ~Concurrent, TypeOK, RolesOwned, SnapshotTrue, [Next]_vars
  PROVE  SnapshotTrue'
<1>1. ASSUME UNCHANGED <<agg, lotQty>>, bar'.todo \subseteq bar.todo,
             bar'.pc = "idle" => bar'.todo = {}
      PROVE  SnapshotTrue'
  BY <1>1 DEF SnapshotTrue, Book
<1>2. ASSUME NEW s \in Strategies, BarDispatch(s) PROVE SnapshotTrue'
  <2>1. bar'.todo = Positions(s) /\ bar'.pc # "idle" BY <1>2 DEF BarDispatch, BarIdle
  <2>2. UNCHANGED <<agg, lotQty>> BY <1>2 DEF BarDispatch, bookVars
  <2> QED BY <2>1, <2>2, DispatchReadsBook DEF SnapshotTrue, Book
<1>3. ASSUME NEW r, TakeFill(r), bar' = bar PROVE SnapshotTrue'
  <2>1. bar.pc = "idle" BY <1>3 DEF TakeFill, MayRun
  <2>2. \A k \in Lots : k[2] = NoTrade => lotQty'[k] = lotQty[k]
    BY <1>3 DEF TakeFill, BookFill
  <2> QED BY <1>3, <2>1, <2>2 DEF SnapshotTrue
<1>4. CASE UNCHANGED <<agg, lotQty, bar>> BY <1>1, <1>4 DEF SnapshotTrue
<1>5. BarStep => SnapshotTrue'
  <2>1. BarStep => UNCHANGED <<agg, lotQty>>
    BY DEF BarStep, BarDispatch, ExitDropped, ExitClose, CloseAccepted, CloseRefused,
       ExitNewStop, ExitModifyStop, ModifyAccepted, ModifyRefused, NewStopAccepted,
       NewStopRefused, ExitRaises, EvaluateEntry, NoEntry, CancelSessionStops, bookVars
  <2> QED BY <1>1, <1>2, <2>1, SnapshotShrinks
<1>6. EntryStep => SnapshotTrue'
  BY <1>4 DEF EntryStep, DropSignal, ProcessSignal, EntryAccepted, EntryRefused, bookVars
<1>7. FillStep => SnapshotTrue'
  BY <1>3, <1>4 DEF FillStep, UnownedFill, CloseFill, StopFill, EntryFill,
     EntryFillNoStop, FillStopAccepted, FillStopRefused, bookVars
<1>8. UpdateStep => SnapshotTrue' BY <1>4 DEF UpdateStep, OrderUpdate, bookVars
<1>9. BrokerStep => SnapshotTrue' BY <1>4 DEF BrokerStep, BrokerEnd, BrokerFill, bookVars
<1>10. CASE UNCHANGED vars BY <1>4, <1>10 DEF vars, bookVars
<1> QED BY <1>5, <1>6, <1>7, <1>8, <1>9, <1>10 DEF Next

(* A close is sent for the snapshot's quantity, on the other side.          *)
SentWithinLot ==
  nextId' # nextId /\ orders'[nextId].role = "close" =>
    LET o == orders'[nextId] IN -o.side * Book(o.lot) >= o.left

LEMMA CloseSentWithinLot ==
  ASSUME TypeOK, FreshIds, RolesOwned, SnapshotTrue, [Next]_vars
  PROVE  SentWithinLot
<1> USE TypeFacts
<1>1. CASE nextId' = nextId BY <1>1 DEF SentWithinLot
<1>2. ASSUME NEW i, NEW l, NEW r, NEW side, NEW qty, NEW level, r # "close",
             Place(i, l, r, side, qty, level)
      PROVE  SentWithinLot
  BY <1>2, PlaceKeeps DEF SentWithinLot
<1>3. ASSUME NEW p \in bar.todo, NEW i \in OrderIds, ExitClose(p, i) PROVE SentWithinLot
  <2>1. Place(i, p.lot, "close", ExitSide(p.qty), Abs(p.qty), 0) BY <1>3 DEF ExitClose
  <2>2. nextId = i /\ orders'[i].lot = p.lot /\ orders'[i].side = ExitSide(p.qty)
    BY <2>1, PlaceKeeps
  <2>3. orders'[i].left = Abs(p.qty) BY <2>1 DEF Place, TypeOK, BrokerType
  <2>4. p.qty = Book(p.lot) /\ p.qty \in Int BY DEF SnapshotTrue
  <2>5. -ExitSide(p.qty) * p.qty >= Abs(p.qty) BY <2>4 DEF ExitSide, Abs
  <2> QED BY <2>2, <2>3, <2>4, <2>5 DEF SentWithinLot
<1>4. "entry" # "close" /\ "protective_stop" # "close" OBVIOUS
<1>5. BarStep => SentWithinLot
  BY <1>1, <1>2, <1>3, <1>4 DEF BarStep, BarDispatch, ExitDropped, CloseAccepted,
     CloseRefused, ExitNewStop, ExitModifyStop, ModifyAccepted, ModifyRefused,
     NewStopAccepted, NewStopRefused, ExitRaises, EvaluateEntry, NoEntry,
     CancelSessionStops, brokerVars
<1>6. EntryStep => SentWithinLot
  BY <1>1, <1>2, <1>4 DEF EntryStep, DropSignal, ProcessSignal, EntryAccepted,
     EntryRefused, brokerVars
<1>7. FillStep => SentWithinLot
  BY <1>1, <1>2, <1>4 DEF FillStep, UnownedFill, CloseFill, StopFill, EntryFill,
     EntryFillNoStop, FillStopAccepted, FillStopRefused, brokerVars
<1>8. UpdateStep \/ BrokerStep => SentWithinLot
  BY <1>1 DEF UpdateStep, OrderUpdate, BrokerStep, BrokerEnd, BrokerFill
<1>9. CASE UNCHANGED vars BY <1>1, <1>9 DEF vars, brokerVars
<1> QED BY <1>5, <1>6, <1>7, <1>8, <1>9 DEF Next

(* In a simulated run no close is for more than the lot holds when it is    *)
(* sent.  With live tasks a fill drained during an await makes it false     *)
(* (run om_stale_exit).                                                     *)
THEOREM InlineCloseWithinLot == ASSUME ~Concurrent PROVE Spec => CloseWithinLot
<1>1. Init => SnapshotTrue
  BY ConstantsAssumption DEF Init, SnapshotTrue, BarIdle
<1>2. IInv /\ SnapshotTrue /\ [Next]_vars => SnapshotTrue' BY SnapshotStep DEF IInv
<1>3. IInv /\ SnapshotTrue /\ [Next]_vars => [SentWithinLot]_vars
  BY CloseSentWithinLot DEF IInv
<1>4. CloseWithinLot <=> [][SentWithinLot]_vars BY DEF CloseWithinLot, SentWithinLot
<1> QED BY <1>1, <1>2, <1>3, <1>4, Inductive, PTL DEF Spec

(* What the pending-close index says of a lot's close: it was sent and is   *)
(* tracked as one, the reverse index or the bar loop's await names it, and  *)
(* the news of its end is still queued.                                     *)
FillQueued(i) == \E n \in DOMAIN fillQ : fillQ[n].id = i
PendingOf(k, i) ==
  /\ orders[i].status # "unsent" /\ orders[i].role = "close" /\ role[i] = "close"
  /\ closeKey[i] = k \/ (bar.pc = "close" /\ bar.id = i /\ bar.lot = k)
  /\ orders[i].status = "filled" => FillQueued(i)
  /\ orders[i].status = "dead" => i \in updQ
PendingTrue == \A k \in Lots, i \in OrderIds : pendingClose[k] = i => PendingOf(k, i)

(* Draining another order's fill leaves those of order i queued.            *)
LEMMA OtherFillTaken ==
  ASSUME TypeOK, NEW i, FillQueued(i), fillQ' = Tail(fillQ), Head(fillQ).id # i
  PROVE  FillQueued(i)'
<1>1. fillQ \in Seq(FillType) BY DEF TypeOK, BrokerType
<1>2. PICK n \in DOMAIN fillQ : fillQ[n].id = i BY DEF FillQueued
<1>3. fillQ # <<>> /\ n \in 1..Len(fillQ) BY <1>1, <1>2
<1>4. Head(fillQ) = fillQ[1] BY <1>1, <1>3
<1>5. n # 1 BY <1>2, <1>4
<1>6. n - 1 \in DOMAIN Tail(fillQ) /\ Tail(fillQ)[n - 1] = fillQ[n] BY <1>1, <1>3, <1>5
<1> QED BY <1>2, <1>6 DEF FillQueued

(* A step that neither releases nor answers a pending close keeps what the  *)
(* index says of it.                                                        *)
LEMMA PendingKept ==
  ASSUME TypeOK, RolesOwned, FreshIds, [Next]_vars,
         NEW k \in Lots, NEW i \in OrderIds, PendingOf(k, i),
         role'[i] = "close", closeKey'[i] = closeKey[i],
         bar' = bar \/ bar.pc # "close",
         i \in updQ => i \in updQ',
         orders'[i].status = orders[i].status, FillQueued(i) => FillQueued(i)'
  PROVE  PendingOf(k, i)'
<1>1. Kept(i) BY OrdersKeep DEF PendingOf
<1> QED BY <1>1 DEF PendingOf, Kept

(* While the tasks are at rest, releasing close c removes every entry for it.*)
LEMMA PendingReleased ==
  ASSUME TypeOK, PendingTrue, NEW c \in OrderIds, bar.pc = "idle", ClearPendingClose(c),
         NEW k \in Lots, NEW i \in OrderIds, pendingClose'[k] = i
  PROVE  i # c /\ pendingClose[k] = i /\ closeKey'[i] = closeKey[i]
<1>1. i # NoId BY DEF OrderIds, NoId
<1>2. pendingClose[k] = i BY <1>1, ClearPendingKeeps
<1>3. closeKey[i] = k BY <1>2 DEF PendingTrue, PendingOf
<1>4. i # c BY <1>1, <1>2, <1>3, ClearPendingKeeps
<1> QED BY <1>2, <1>4, ClearPendingKeeps

LEMMA PendingBarStep ==
  ASSUME IInv, PendingTrue, [Next]_vars, BarStep PROVE PendingTrue'
<1> USE TypeFacts DEF IInv
<1>1. ASSUME bar' = bar \/ bar.pc # "close", UNCHANGED <<closeVars, fillQ, updQ>>,
             \A i \in OrderIds : orders[i].role = "close" /\ orders[i].status # "unsent"
               => role'[i] = role[i] /\ orders'[i].status = orders[i].status
      PROVE  PendingTrue'
  <2> SUFFICES ASSUME NEW k \in Lots, NEW i \in OrderIds, pendingClose'[k] = i
               PROVE  PendingOf(k, i)'
    BY DEF PendingTrue
  <2>1. PendingOf(k, i) BY <1>1 DEF PendingTrue, closeVars
  <2>2. role'[i] = "close" /\ orders'[i].status = orders[i].status
    BY <1>1, <2>1 DEF PendingOf
  <2> QED BY <1>1, <2>1, <2>2, PendingKept DEF closeVars, FillQueued
<1>2. ASSUME bar' = bar \/ bar.pc # "close", UNCHANGED <<role, closeVars, orders, fillQ, updQ>>
      PROVE  PendingTrue'
  BY <1>1, <1>2
<1>3. ASSUME NEW p \in bar.todo, NEW i \in OrderIds, NEW n \in 1..MaxLevel, ExitNewStop(p, i, n)
      PROVE  PendingTrue'
  <2>1. /\ orders[i].status = "unsent"
        /\ \A j \in OrderIds : j # i => orders'[j] = orders[j] /\ role'[j] = role[j]
    BY <1>3, PlaceKeeps, RegisterKeeps DEF ExitNewStop, Roles
  <2> QED BY <1>1, <1>3, <2>1 DEF ExitNewStop
<1>4. ASSUME NEW p \in bar.todo, NEW i \in OrderIds, NEW n \in 1..MaxLevel, NEW ok \in BOOLEAN,
             ExitModifyStop(p, i, n, ok)
      PROVE  PendingTrue'
  <2>1. \A j \in OrderIds : orders'[j].status = orders[j].status
    <3>1. CASE ok
      <4>1. BrokerModifies(i, ExitSide(p.qty), Abs(p.qty), n) /\ Abs(p.qty) \in Nat /\ n \in Nat
        BY <1>4, <3>1 DEF ExitModifyStop
      <4> QED BY <4>1, ModifyKeeps
    <3>2. CASE ~ok BY <1>4, <3>2 DEF ExitModifyStop
    <3> QED BY <3>1, <3>2
  <2>2. bar.pc # "close" /\ UNCHANGED <<role, closeVars, fillQ, updQ>>
    BY <1>4 DEF ExitModifyStop, omVars, closeVars
  <2> QED BY <1>1, <2>1, <2>2
<1>5. ASSUME bar.pc = "stop", UNCHANGED <<closeVars, brokerVars>>,
             Register(bar.id, bar.lot, "protective_stop") \/ ClearTracking(bar.id)
      PROVE  PendingTrue'
  <2>1. Sent(bar.id, bar.lot, "protective_stop") BY <1>5, AwaitFacts
  <2>2. \A j \in OrderIds : j # bar.id => role'[j] = role[j]
    BY <1>5, <2>1, RegisterKeeps, ClearTrackingKeeps DEF Sent, Roles
  <2> QED BY <1>1, <1>5, <2>1, <2>2 DEF Sent, brokerVars
<1>6. ASSUME NEW p \in bar.todo, NEW i \in OrderIds, ExitClose(p, i) PROVE PendingTrue'
  <2>1. /\ orders'[i].status = "working" /\ orders'[i].role = "close" /\ role'[i] = "close"
        /\ orders[i].status = "unsent"
        /\ \A j \in OrderIds : j # i => orders'[j] = orders[j] /\ role'[j] = role[j]
    BY <1>6, PlaceKeeps, RegisterKeeps DEF ExitClose, Roles
  <2>2. bar'.pc = "close" /\ bar'.id = i /\ bar'.lot = p.lot /\ bar.pc # "close"
    BY <1>6, TaskFacts DEF ExitClose, Await, BarType
  <2>3. /\ \A k \in Lots : pendingClose'[k] = IF k = p.lot THEN i ELSE pendingClose[k]
        /\ UNCHANGED <<closeKey, fillQ, updQ>>
    BY <1>6 DEF ExitClose, TypeOK, OrderManagerType
  <2> SUFFICES ASSUME NEW k \in Lots, NEW j \in OrderIds, pendingClose'[k] = j
               PROVE  PendingOf(k, j)'
    BY DEF PendingTrue
  <2>4. CASE k = p.lot BY <2>1, <2>2, <2>3, <2>4 DEF PendingOf
  <2>5. CASE k # p.lot
    <3>1. PendingOf(k, j) BY <2>3, <2>5 DEF PendingTrue
    <3>2. j # i BY <2>1, <3>1 DEF PendingOf
    <3>3. role'[j] = "close" /\ orders'[j].status = orders[j].status
      BY <2>1, <3>1, <3>2 DEF PendingOf
    <3> QED BY <2>2, <2>3, <3>1, <3>3, PendingKept DEF FillQueued
  <2> QED BY <2>4, <2>5
<1>7. CASE CloseAccepted
  <2>1. Sent(bar.id, bar.lot, "close") /\ pendingClose[bar.lot] = bar.id
    BY <1>7 DEF CloseAccepted, AwaitsTrue, BarAwaits
  <2>2. PendingOf(bar.lot, bar.id) BY <2>1 DEF PendingTrue, Sent
  <2>3. \A j \in OrderIds : role'[j] = role[j]
    BY <1>7, <2>1, <2>2, CompleteKeeps DEF CloseAccepted, Sent, Roles, PendingOf
  <2>4. /\ pendingClose' = pendingClose
        /\ \A j \in OrderIds : closeKey'[j] = IF j = bar.id THEN bar.lot ELSE closeKey[j]
    BY <1>7, <2>1 DEF CloseAccepted, Sent, TypeOK, OrderManagerType
  <2>5. UNCHANGED <<orders, fillQ, updQ>> BY <1>7 DEF CloseAccepted
  <2>6. closeKey[bar.id] = NoLot BY <1>7 DEF CloseAccepted, AwaitsTrue, BarAwaits
  <2> SUFFICES ASSUME NEW k \in Lots, NEW j \in OrderIds, pendingClose'[k] = j
               PROVE  PendingOf(k, j)'
    BY DEF PendingTrue
  <2>7. PendingOf(k, j) BY <2>4 DEF PendingTrue
  <2>8. closeKey'[j] = k BY <2>4, <2>6, <2>7 DEF PendingOf
  <2> QED BY <2>3, <2>5, <2>7, <2>8 DEF PendingOf, FillQueued
<1>8. CASE CloseRefused
  <2>1. Sent(bar.id, bar.lot, "close") /\ closeKey[bar.id] = NoLot
    BY <1>8 DEF CloseRefused, AwaitsTrue, BarAwaits
  <2>2. \A j \in OrderIds : j # bar.id => role'[j] = role[j]
    BY <1>8, <2>1, ClearTrackingKeeps DEF CloseRefused, Sent
  <2>3. /\ \A k \in Lots : pendingClose'[k] =
             IF k = bar.lot /\ pendingClose[k] = bar.id THEN NoId ELSE pendingClose[k]
        /\ UNCHANGED <<closeKey, orders, fillQ, updQ>>
    BY <1>8, <2>1 DEF CloseRefused, ClearReservation, Sent, TypeOK, OrderManagerType, brokerVars
  <2> SUFFICES ASSUME NEW k \in Lots, NEW j \in OrderIds, pendingClose'[k] = j
               PROVE  PendingOf(k, j)'
    BY DEF PendingTrue
  <2>4. j # NoId BY DEF OrderIds, NoId
  <2>5. pendingClose[k] = j BY <2>3, <2>4
  <2>6. PendingOf(k, j) BY <2>5 DEF PendingTrue
  <2>7. j # bar.id BY <2>1, <2>3, <2>4, <2>5, <2>6 DEF PendingOf
  <2> QED BY <2>2, <2>3, <2>6, <2>7 DEF PendingOf, FillQueued
<1>9. CASE NewStopAccepted \/ NewStopRefused
  BY <1>5, <1>9 DEF NewStopAccepted, NewStopRefused
<1>10. ASSUME \/ \E st \in Strategies : BarDispatch(st)
              \/ \E p \in bar.todo : ExitDropped(p)
              \/ \E l \in EntryLots : EvaluateEntry(l)
              \/ ModifyAccepted \/ ModifyRefused \/ ExitRaises \/ NoEntry \/ CancelSessionStops
       PROVE  PendingTrue'
  <2>1. bar.pc # "close" /\ UNCHANGED <<role, closeVars, orders, fillQ, updQ>>
    BY <1>10 DEF BarDispatch, ExitDropped, ModifyAccepted, ModifyRefused, ExitRaises,
       EvaluateEntry, NoEntry, CancelSessionStops, omVars, closeVars, brokerVars
  <2> QED BY <1>2, <2>1
<1> QED BY <1>3, <1>4, <1>6, <1>7, <1>8, <1>9, <1>10 DEF BarStep

LEMMA PendingDrainStep ==
  ASSUME ~Concurrent, IInv, PendingTrue, [Next]_vars, EntryStep \/ FillStep \/ UpdateStep
  PROVE  PendingTrue'
<1> USE TypeFacts DEF IInv
<1>1. ASSUME bar' = bar, UNCHANGED <<closeVars, updQ>>,
             \A k \in Lots, i \in OrderIds : PendingOf(k, i) /\ FillQueued(i) => FillQueued(i)',
             \A i \in OrderIds : orders[i].role = "close" /\ orders[i].status # "unsent"
               => role'[i] = role[i] /\ orders'[i].status = orders[i].status
      PROVE  PendingTrue'
  <2> SUFFICES ASSUME NEW k \in Lots, NEW i \in OrderIds, pendingClose'[k] = i
               PROVE  PendingOf(k, i)'
    BY DEF PendingTrue
  <2>1. PendingOf(k, i) BY <1>1 DEF PendingTrue, closeVars
  <2>2. role'[i] = "close" /\ orders'[i].status = orders[i].status
    BY <1>1, <2>1 DEF PendingOf
  <2> QED BY <1>1, <2>1, <2>2, PendingKept DEF closeVars
<1>2. ASSUME bar' = bar, UNCHANGED <<closeVars, updQ, fillQ>>,
             \A i \in OrderIds : orders[i].role = "close" /\ orders[i].status # "unsent"
               => role'[i] = role[i] /\ orders'[i].status = orders[i].status
      PROVE  PendingTrue'
  BY <1>1, <1>2 DEF FillQueued
<1>3. ASSUME NEW i \in OrderIds, NEW side \in EntrySides, ProcessSignal(i, side)
      PROVE  PendingTrue'
  <2>1. PICK l \in Lots : l = Head(queue) BY <1>3, HeadQueue DEF ProcessSignal
  <2>2. Place(i, l, "entry", side, OrderQty, 0) /\ Register(i, l, "entry")
    BY <1>3, <2>1 DEF ProcessSignal
  <2>3. /\ orders[i].status = "unsent"
        /\ \A j \in OrderIds : j # i => orders'[j] = orders[j] /\ role'[j] = role[j]
    BY <2>1, <2>2, PlaceKeeps, RegisterKeeps DEF Roles
  <2>4. bar' = bar /\ UNCHANGED <<closeVars, updQ, fillQ>> BY <1>3 DEF ProcessSignal
  <2> QED BY <1>2, <2>3, <2>4
<1>4. CASE EntryAccepted \/ EntryRefused
  <2>1. Sent(ent.id, ent.lot, "entry") BY <1>4, AwaitFacts DEF EntryAccepted, EntryRefused
  <2>2. \A j \in OrderIds : j # ent.id => role'[j] = role[j]
    BY <1>4, <2>1, CompleteKeeps, ClearTrackingKeeps DEF EntryAccepted, EntryRefused, Sent, Roles
  <2>3. bar' = bar /\ UNCHANGED <<closeVars, brokerVars>> BY <1>4 DEF EntryAccepted, EntryRefused
  <2> QED BY <1>2, <2>1, <2>2, <2>3 DEF Sent, brokerVars
<1>5. CASE DropSignal BY <1>2, <1>5 DEF DropSignal, omVars, closeVars, brokerVars
<1>6. EntryStep => PendingTrue' BY <1>3, <1>4, <1>5 DEF EntryStep
<1>7. ASSUME NEW r, r # "close", TakeFill(r)
      PROVE  \A k \in Lots, i \in OrderIds : PendingOf(k, i) /\ FillQueued(i) => FillQueued(i)'
  BY <1>7, OtherFillTaken DEF TakeFill, PendingOf
<1>8. CASE UnownedFill \/ EntryFillNoStop
  <2>1. \/ TakeFill("none") \/ TakeFill("entry")
    BY <1>8 DEF UnownedFill, EntryFillNoStop
  <2>2. bar' = bar /\ UNCHANGED <<role, closeVars, orders, updQ>>
    BY <1>8 DEF UnownedFill, EntryFillNoStop, omVars, closeVars
  <2> QED BY <1>1, <1>7, <2>1, <2>2
<1>9. ASSUME NEW j \in OrderIds, EntryFill(j) PROVE PendingTrue'
  <2>1. PICK l \in Lots : l = owner[Head(fillQ).id]
    BY <1>9, HeadFill DEF EntryFill, TakeFill
  <2>2. /\ Place(j, l, "protective_stop", -orders[Head(fillQ).id].side, Head(fillQ).qty,
                 FirstLevel(-orders[Head(fillQ).id].side))
        /\ Register(j, l, "protective_stop") /\ TakeFill("entry")
    BY <1>9, <2>1 DEF EntryFill
  <2>3. /\ orders[j].status = "unsent"
        /\ \A i \in OrderIds : i # j => orders'[i] = orders[i] /\ role'[i] = role[i]
    BY <2>1, <2>2, PlaceKeeps, RegisterKeeps DEF Roles
  <2>4. bar' = bar /\ UNCHANGED <<closeVars, updQ>> BY <1>9 DEF EntryFill
  <2> QED BY <1>1, <1>7, <2>2, <2>3, <2>4
<1>10. CASE FillStopAccepted \/ FillStopRefused
  <2>1. Sent(fil.id, fil.lot, "protective_stop")
    BY <1>10, AwaitFacts DEF FillStopAccepted, FillStopRefused
  <2>2. \A j \in OrderIds : j # fil.id => role'[j] = role[j]
    BY <1>10, <2>1, RegisterKeeps, ClearTrackingKeeps DEF FillStopAccepted, FillStopRefused, Sent, Roles
  <2>3. bar' = bar /\ UNCHANGED <<closeVars, brokerVars>>
    BY <1>10 DEF FillStopAccepted, FillStopRefused
  <2> QED BY <1>2, <2>1, <2>2, <2>3 DEF Sent, brokerVars
(* A released close is no longer pending, and the others keep their news.   *)
<1>11. ASSUME NEW c \in OrderIds, bar' = bar, bar.pc = "idle", ClearPendingClose(c),
              orders' = orders,
              \A i \in OrderIds : i # c /\ (\E k \in Lots : PendingOf(k, i)) =>
                /\ role'[i] = role[i] /\ (FillQueued(i) => FillQueued(i)')
                /\ (i \in updQ => i \in updQ')
       PROVE  PendingTrue'
  <2> SUFFICES ASSUME NEW k \in Lots, NEW i \in OrderIds, pendingClose'[k] = i
               PROVE  PendingOf(k, i)'
    BY DEF PendingTrue
  <2>1. i # c /\ pendingClose[k] = i /\ closeKey'[i] = closeKey[i] BY <1>11, PendingReleased
  <2>2. PendingOf(k, i) BY <2>1 DEF PendingTrue
  <2>3. role'[i] = "close" BY <1>11, <2>1, <2>2 DEF PendingOf
  <2> QED BY <1>11, <2>1, <2>2, <2>3, PendingKept
<1>12. CASE CloseFill
  <2> DEFINE h == Head(fillQ).id
  <2>1. h \in OrderIds /\ fillQ' = Tail(fillQ) /\ bar.pc = "idle"
    BY <1>12, HeadFill DEF CloseFill, TakeFill, MayRun
  <2>2. ClearPendingClose(h) /\ bar' = bar /\ UNCHANGED <<role, orders, updQ>>
    BY <1>12 DEF CloseFill
  <2>3. \A i \in OrderIds : i # h /\ FillQueued(i) => FillQueued(i)' BY <2>1, OtherFillTaken
  <2> HIDE DEF h
  <2> QED BY <1>11, <2>1, <2>2, <2>3
<1>13. CASE StopFill
  <2> DEFINE c == pendingClose[owner[Head(fillQ).id]]
  <2>1. c \in OrderIds \cup {NoId} /\ TakeFill("protective_stop") /\ bar.pc = "idle"
    BY <1>13, HeadFill DEF StopFill, TakeFill, MayRun, TypeOK, OrderManagerType
  <2>2. bar' = bar /\ UNCHANGED <<role, orders, updQ>> BY <1>13 DEF StopFill
  <2>3. c = NoId => UNCHANGED closeVars BY <1>13 DEF StopFill
  <2>4. c # NoId => ClearPendingClose(c) BY <1>13 DEF StopFill
  <2> HIDE DEF c
  <2>5. CASE c = NoId BY <1>1, <1>7, <2>1, <2>2, <2>3, <2>5
  <2>6. CASE c # NoId
    <3>1. \A i \in OrderIds : (\E k \in Lots : PendingOf(k, i)) /\ FillQueued(i) => FillQueued(i)'
      BY <1>7, <2>1
    <3> QED BY <1>11, <2>1, <2>2, <2>4, <2>6, <3>1
  <2> QED BY <2>5, <2>6
<1>14. FillStep => PendingTrue'
  BY <1>8, <1>9, <1>10, <1>12, <1>13 DEF FillStep
<1>15. ASSUME NEW u \in OrderIds, OrderUpdate(u) PROVE PendingTrue'
  <2>1. /\ bar.pc = "idle" /\ bar' = bar /\ UNCHANGED <<orders, fillQ>> /\ updQ' = updQ \ {u}
        /\ ClearTracking(u)
    BY <1>15 DEF OrderUpdate, MayRun
  <2>2. \A i \in OrderIds : i # u => role'[i] = role[i] BY <2>1, ClearTrackingKeeps
  <2>3. CASE role[u] = "close"
    <3>1. ClearPendingClose(u) BY <1>15, <2>3 DEF OrderUpdate
    <3> QED BY <1>11, <2>1, <2>2, <3>1 DEF FillQueued
  <2>4. CASE role[u] # "close"
    <3>1. UNCHANGED closeVars BY <1>15, <2>4 DEF OrderUpdate
    <3> SUFFICES ASSUME NEW k \in Lots, NEW i \in OrderIds, pendingClose'[k] = i
                 PROVE  PendingOf(k, i)'
      BY DEF PendingTrue
    <3>2. PendingOf(k, i) BY <3>1 DEF PendingTrue, closeVars
    <3>3. i # u /\ role'[i] = "close" BY <2>2, <2>4, <3>2 DEF PendingOf
    <3> QED BY <2>1, <3>1, <3>2, <3>3, PendingKept DEF closeVars, FillQueued
  <2> QED BY <2>3, <2>4
<1> QED BY <1>6, <1>14, <1>15 DEF UpdateStep

LEMMA PendingBrokerStep ==
  ASSUME IInv, PendingTrue, [Next]_vars, BrokerStep PROVE PendingTrue'
<1> USE DEF IInv
<1> SUFFICES ASSUME NEW k \in Lots, NEW i \in OrderIds, pendingClose'[k] = i
             PROVE  PendingOf(k, i)'
  BY DEF PendingTrue
<1>1. bar' = bar /\ UNCHANGED <<role, closeVars>>
  BY DEF BrokerStep, BrokerEnd, BrokerFill, omVars, closeVars
<1>2. PendingOf(k, i) BY <1>1 DEF PendingTrue, closeVars
<1>3. Kept(i) BY <1>2, OrdersKeep DEF PendingOf
<1>4. ASSUME NEW j \in OrderIds, BrokerEnd(j) PROVE PendingOf(k, i)'
  <2>1. updQ' = updQ \cup {j} /\ fillQ' = fillQ BY <1>4 DEF BrokerEnd
  <2>2. /\ orders'[j].status = "dead"
        /\ \A n \in OrderIds : n # j => orders'[n] = orders[n]
    BY <1>4, EndKeeps
  <2> QED BY <1>1, <1>2, <1>3, <2>1, <2>2 DEF PendingOf, Kept, closeVars, FillQueued
<1>5. ASSUME NEW j \in OrderIds, NEW q \in 1..orders[j].left, BrokerFill(j, q)
      PROVE  PendingOf(k, i)'
  <2>1. updQ' = updQ /\ fillQ' = Append(fillQ, [id |-> j, qty |-> q]) /\ fillQ \in Seq(FillType)
    BY <1>5 DEF BrokerFill, TypeOK, BrokerType
  <2>2. FillQueued(i) => FillQueued(i)'
    <3>1. \A n \in DOMAIN fillQ : n \in DOMAIN fillQ' /\ fillQ'[n] = fillQ[n] BY <2>1
    <3> QED BY <3>1 DEF FillQueued
  <2>3. FillQueued(j)'
    <3>1. Len(fillQ) + 1 \in DOMAIN fillQ' /\ fillQ'[Len(fillQ) + 1].id = j BY <2>1
    <3> QED BY <3>1 DEF FillQueued
  <2>4. /\ orders'[j].status \in {"working", "filled"}
        /\ \A n \in OrderIds : n # j => orders'[n] = orders[n]
    BY <1>5, FillKeeps
  <2> QED BY <1>1, <1>2, <1>3, <2>1, <2>2, <2>3, <2>4 DEF PendingOf, Kept, closeVars
<1> QED BY <1>4, <1>5 DEF BrokerStep

(* In a simulated run a lot never waits for a close whose end has been      *)
(* drained, so it can be closed again.  With live tasks a fill drained      *)
(* during the submission's await makes it false (run om_pending_close).     *)
THEOREM InlinePendingCloseReleased == ASSUME ~Concurrent PROVE Spec => []PendingCloseReleased
<1>1. Init => PendingTrue
  BY DEF Init, PendingTrue, OrderIds, NoId
<1>2. IInv /\ PendingTrue /\ [Next]_vars => PendingTrue'
  <2> SUFFICES ASSUME IInv, PendingTrue, [Next]_vars PROVE PendingTrue' OBVIOUS
  <2>1. CASE UNCHANGED vars
    BY <2>1 DEF vars, omVars, brokerVars, PendingTrue, PendingOf, FillQueued
  <2> QED BY <2>1, PendingBarStep, PendingDrainStep, PendingBrokerStep DEF Next
<1>3. IInv /\ PendingTrue => PendingCloseReleased
  <2> SUFFICES ASSUME IInv, PendingTrue, NEW k \in Lots, pendingClose[k] # NoId,
                      Reported(pendingClose[k])
               PROVE  bar.pc = "close" /\ bar.id = pendingClose[k]
    BY DEF PendingCloseReleased
  <2>1. pendingClose[k] \in OrderIds BY DEF IInv, TypeOK, OrderManagerType
  <2>2. PendingOf(k, pendingClose[k]) BY <2>1 DEF PendingTrue
  <2> QED BY <2>2 DEF PendingOf, Reported, FillQueued
<1> QED BY <1>1, <1>2, <1>3, Inductive, PTL DEF Spec

-----------------------------------------------------------------------------
(* Protective stops, whatever the tasks interleave.                         *)

(* A lot keeps its side while it has a tracked stop: the bar loop's         *)
(* snapshot of the position is on the side the stop protects.               *)
SidesKept == \A p \in bar.todo, i \in OrderIds :
  i \in ActiveStops(p.lot) => orders[i].side = ExitSide(p.qty)

(* The broker's stop is no tighter than the recorded price, so a price that *)
(* improves on the record improves on the stop.  While a change is awaited  *)
(* the price asked for stands in for the record, and the stops the bar loop *)
(* and the fill drain are submitting are not yet tracked.                   *)
NotTighter(i, level) == ~Improves(orders[i].side, orders[i].level, level)
NotTighterThanFirst(i) == NotTighter(i, FirstLevel(orders[i].side))
StopsRecorded ==
  /\ \A i \in OrderIds : stopKey[i] # NoLot /\ ~(bar.pc = "modify" /\ bar.id = i)
       => NotTighter(i, stopReq[i])
  /\ bar.pc = "modify" => NotTighter(bar.id, bar.level)
  /\ bar.pc = "stop" => stopKey[bar.id] = NoLot /\ NotTighter(bar.id, bar.level)
  /\ fil.pc = "stop" => stopKey[fil.id] = NoLot /\ NotTighterThanFirst(fil.id)
  /\ fil.pc = "stop" /\ bar.pc \in {"modify", "stop"} => fil.id # bar.id

(* The sides and prices a step may not change: all but those of an order it *)
(* submits or modifies.                                                     *)
SamePrice(i) == orders'[i].side = orders[i].side /\ orders'[i].level = orders[i].level

LEMMA ModifySides ==
  ASSUME TypeOK, NEW i \in OrderIds, NEW side, NEW qty \in Nat, NEW level \in Nat,
         BrokerModifies(i, side, qty, level)
  PROVE  /\ orders'[i].side = orders[i].side /\ orders'[i].level = level
         /\ \A j \in OrderIds : j # i => SamePrice(j)
<1>1. orders \in [OrderIds -> OrderType] BY DEF TypeOK, BrokerType
<1>2. orders[i] \in OrderType BY <1>1
<1>3. orders' = [orders EXCEPT ![i] = [orders[i] EXCEPT !.left = qty - orders[i].done, !.level = level]]
  BY DEF BrokerModifies
<1>4. orders'[i] = [orders[i] EXCEPT !.left = qty - orders[i].done, !.level = level]
  BY <1>1, <1>3
<1>5. \A j \in OrderIds : j # i => orders'[j] = orders[j] BY <1>1, <1>3
<1> QED BY <1>2, <1>4, <1>5 DEF OrderType, SamePrice

LEMMA BrokerSides ==
  ASSUME TypeOK, BrokerStep PROVE \A i \in OrderIds : SamePrice(i)
<1>1. orders \in [OrderIds -> OrderType] BY DEF TypeOK, BrokerType
<1>2. ASSUME NEW i \in OrderIds, BrokerEnd(i) PROVE \A j \in OrderIds : SamePrice(j)
  <2>1. orders' = [orders EXCEPT ![i] = [orders[i] EXCEPT !.status = "dead"]]
    BY <1>2 DEF BrokerEnd
  <2>2. orders[i] \in OrderType BY <1>1
  <2> QED BY <1>1, <2>1, <2>2 DEF OrderType, SamePrice
<1>3. ASSUME NEW i \in OrderIds, NEW q \in 1..orders[i].left, BrokerFill(i, q)
      PROVE  \A j \in OrderIds : SamePrice(j)
  <2> DEFINE st == IF q = orders[i].left THEN "filled" ELSE orders[i].status
  <2>1. orders' = [orders EXCEPT ![i] = [orders[i] EXCEPT !.left = @ - q, !.done = @ + q, !.status = st]]
    BY <1>3 DEF BrokerFill
  <2>2. orders[i] \in OrderType BY <1>1
  <2> HIDE DEF st
  <2> QED BY <1>1, <2>1, <2>2 DEF OrderType, SamePrice
<1> QED BY <1>2, <1>3 DEF BrokerStep

(* The orders the stop records speak of have been sent.                     *)
LEMMA RecordsSent ==
  ASSUME IInv
  PROVE  /\ \A i \in OrderIds : stopKey[i] # NoLot => orders[i].status # "unsent"
         /\ bar.pc \in {"modify", "stop"} => /\ bar.id \in OrderIds /\ bar.level \in Nat
                                             /\ orders[bar.id].status # "unsent"
         /\ bar.pc = "stop" => bar.lot \in Lots
         /\ fil.pc = "stop" => /\ fil.id \in OrderIds /\ fil.lot \in Lots
                               /\ orders[fil.id].status # "unsent"
<1>1. TypeOK /\ AwaitsTrue /\ StopsOwned BY DEF IInv
<1> QED BY <1>1, AwaitFacts DEF StopsOwned, Sent

(* A step that prices nothing, tracks nothing and leaves the awaits alone,  *)
(* or ends them, keeps what is recorded.                                    *)
PricesKept == \A i \in OrderIds : orders[i].status # "unsent" => SamePrice(i)
StopsForgotten == \A i \in OrderIds :
  \/ stopKey'[i] = NoLot
  \/ stopKey'[i] = stopKey[i] /\ stopReq'[i] = stopReq[i]
BarEnds ==
  \/ bar' = bar
  \/ bar'.pc \notin {"modify", "stop"} /\ bar.pc # "modify"
DrainEnds == fil' = fil \/ fil'.pc # "stop"

LEMMA RecordedKept ==
  ASSUME IInv, StopsRecorded, PricesKept, StopsForgotten, BarEnds, DrainEnds
  PROVE  StopsRecorded'
<1>1. /\ \A i \in OrderIds : stopKey[i] # NoLot => SamePrice(i)
      /\ bar.pc \in {"modify", "stop"} => bar.id \in OrderIds /\ SamePrice(bar.id)
      /\ fil.pc = "stop" => fil.id \in OrderIds /\ SamePrice(fil.id)
  BY RecordsSent DEF PricesKept
<1>2. \A i, n : SamePrice(i) /\ NotTighter(i, n) => NotTighter(i, n)'
  BY DEF SamePrice, NotTighter
<1>3. ASSUME NEW i \in OrderIds, stopKey'[i] # NoLot, ~(bar'.pc = "modify" /\ bar'.id = i)
      PROVE  NotTighter(i, stopReq[i])' 
  <2>1. stopKey'[i] = stopKey[i] /\ stopReq'[i] = stopReq[i] BY <1>3 DEF StopsForgotten
  <2>2. ~(bar.pc = "modify" /\ bar.id = i) BY <1>3 DEF BarEnds
  <2>3. NotTighter(i, stopReq[i]) /\ SamePrice(i) BY <1>1, <1>3, <2>1, <2>2 DEF StopsRecorded
  <2> QED BY <2>1, <2>3 DEF SamePrice, NotTighter
<1>4. bar'.pc = "modify" => NotTighter(bar.id, bar.level)'
  <2>1. bar'.pc = "modify" => bar' = bar BY DEF BarEnds
  <2>2. bar'.pc = "modify" => NotTighter(bar.id, bar.level) /\ SamePrice(bar.id)
    BY <1>1, <2>1 DEF StopsRecorded
  <2> QED BY <2>1, <2>2 DEF SamePrice, NotTighter
<1>5. bar'.pc = "stop" => stopKey'[bar'.id] = NoLot /\ NotTighter(bar.id, bar.level)'
  <2>1. bar'.pc = "stop" => bar' = bar BY DEF BarEnds
  <2>2. bar'.pc = "stop" => /\ NotTighter(bar.id, bar.level) /\ SamePrice(bar.id)
                            /\ bar.id \in OrderIds /\ stopKey[bar.id] = NoLot
    BY <1>1, <2>1 DEF StopsRecorded
  <2> QED BY <2>1, <2>2 DEF SamePrice, NotTighter, StopsForgotten
<1>6. fil'.pc = "stop" => stopKey'[fil'.id] = NoLot /\ NotTighterThanFirst(fil.id)'
  <2>1. fil'.pc = "stop" => fil' = fil BY DEF DrainEnds
  <2>2. fil'.pc = "stop" => /\ NotTighterThanFirst(fil.id) /\ SamePrice(fil.id)
                            /\ fil.id \in OrderIds /\ stopKey[fil.id] = NoLot
    BY <1>1, <2>1 DEF StopsRecorded
  <2> QED BY <2>1, <2>2 DEF SamePrice, NotTighterThanFirst, NotTighter, StopsForgotten
<1>7. fil'.pc = "stop" /\ bar'.pc \in {"modify", "stop"} => fil'.id # bar'.id
  BY DEF BarEnds, DrainEnds, StopsRecorded
<1> QED BY <1>3, <1>4, <1>5, <1>6, <1>7 DEF StopsRecorded

(* What the helpers do to the prices and to the records.                    *)
LEMMA PlacePrices ==
  ASSUME IInv, StopsRecorded, NEW i, NEW l, NEW r, NEW side, NEW qty, NEW level \in Nat,
         Place(i, l, r, side, qty, level)
  PROVE  /\ i \in OrderIds /\ orders[i].status = "unsent" /\ stopKey[i] = NoLot
         /\ ~(bar.pc \in {"modify", "stop"} /\ bar.id = i) /\ ~(fil.pc = "stop" /\ fil.id = i)
         /\ PricesKept /\ NotTighter(i, level)'
<1>1. TypeOK /\ FreshIds BY DEF IInv
<1>2. /\ i \in OrderIds /\ orders[i].status = "unsent" /\ orders'[i].level = level
      /\ \A j \in OrderIds : j # i => orders'[j] = orders[j]
  BY <1>1, PlaceKeeps
<1>3. PricesKept BY <1>2 DEF PricesKept, SamePrice
<1>4. NotTighter(i, level)' BY <1>2 DEF NotTighter, Improves
<1> QED BY <1>2, <1>3, <1>4, RecordsSent

LEMMA ForgottenByClear == ASSUME TypeOK, NEW ids, ClearStops(ids) PROVE StopsForgotten
<1> SUFFICES ASSUME NEW i \in OrderIds
             PROVE  \/ stopKey'[i] = NoLot
                    \/ stopKey'[i] = stopKey[i] /\ stopReq'[i] = stopReq[i]
  BY DEF StopsForgotten
<1>1. /\ stopKey'[i] = IF i \in ids THEN NoLot ELSE stopKey[i]
      /\ stopReq'[i] = IF i \in ids THEN 0 ELSE stopReq[i]
  BY ClearStopsKeeps
<1> QED BY <1>1

LEMMA NothingPriced == ASSUME orders' = orders PROVE PricesKept
BY DEF PricesKept, SamePrice

LEMMA NothingForgotten == ASSUME UNCHANGED stopVars PROVE StopsForgotten
BY DEF StopsForgotten, stopVars

(* A stop that an await tracks is recorded at the price it was sent with.   *)
LEMMA TrackedRecorded ==
  ASSUME IInv, StopsRecorded, orders' = orders,
         NEW i \in OrderIds, NEW k \in Lots, NEW n \in Nat, TrackStop(i, k, n), NotTighter(i, n),
         BarEnds, DrainEnds,
         ~(bar'.pc \in {"modify", "stop"} /\ bar'.id = i), ~(fil'.pc = "stop" /\ fil'.id = i)
  PROVE  StopsRecorded'
<1>1. TypeOK BY DEF IInv
<1>2. /\ stopReq'[i] = n
      /\ \A j \in OrderIds : j # i => stopKey'[j] = stopKey[j] /\ stopReq'[j] = stopReq[j]
  BY <1>1, TrackStopKeeps
<1>3. NotTighter(i, n)' BY DEF NotTighter
<1>4. ASSUME NEW j \in OrderIds, stopKey'[j] # NoLot, ~(bar'.pc = "modify" /\ bar'.id = j)
      PROVE  NotTighter(j, stopReq[j])'
  <2>1. CASE j = i BY <1>2, <2>1 DEF NotTighter
  <2>2. CASE j # i
    <3>1. NotTighter(j, stopReq[j]) BY <1>2, <1>4, <2>2 DEF StopsRecorded, BarEnds
    <3> QED BY <1>2, <2>2, <3>1 DEF NotTighter
  <2> QED BY <2>1, <2>2
<1>5. bar'.pc \in {"modify", "stop"} => bar' = bar /\ bar.id \in OrderIds /\ bar.id # i
  BY RecordsSent DEF BarEnds
<1>6. fil'.pc = "stop" => fil' = fil /\ fil.id \in OrderIds /\ fil.id # i
  BY RecordsSent DEF DrainEnds
<1>7. bar'.pc = "modify" => NotTighter(bar.id, bar.level)'
  BY <1>5 DEF StopsRecorded, NotTighter
<1>8. bar'.pc = "stop" => stopKey'[bar'.id] = NoLot /\ NotTighter(bar.id, bar.level)'
  BY <1>2, <1>5 DEF StopsRecorded, NotTighter
<1>9. fil'.pc = "stop" => stopKey'[fil'.id] = NoLot /\ NotTighterThanFirst(fil.id)'
  BY <1>2, <1>6 DEF StopsRecorded, NotTighterThanFirst, NotTighter
<1>10. fil'.pc = "stop" /\ bar'.pc \in {"modify", "stop"} => fil'.id # bar'.id
  BY <1>5, <1>6 DEF StopsRecorded
<1> QED BY <1>4, <1>7, <1>8, <1>9, <1>10 DEF StopsRecorded

(* ensure_protective_stop sends a new stop, or asks for a better price.     *)
LEMMA NewStopRecorded ==
  ASSUME IInv, StopsRecorded, NEW p \in bar.todo, NEW i \in OrderIds, NEW n \in 1..MaxLevel,
         ExitNewStop(p, i, n)
  PROVE  StopsRecorded'
<1>1. TypeOK BY DEF IInv
<1>2. /\ Place(i, p.lot, "protective_stop", ExitSide(p.qty), Abs(p.qty), n)
      /\ UNCHANGED <<stopVars, fil>>
  BY DEF ExitNewStop
<1>3. n \in Nat BY <1>1, TypeFacts
<1>4. /\ i \in OrderIds /\ stopKey[i] = NoLot /\ ~(fil.pc = "stop" /\ fil.id = i)
      /\ PricesKept /\ NotTighter(i, n)' /\ orders[i].status = "unsent"
  BY <1>2, <1>3, PlacePrices
<1>5. bar.pc = "exits" /\ bar'.pc = "stop" /\ bar'.id = i /\ bar'.level = n
  BY <1>1, TaskFacts DEF ExitNewStop, Await, BarType
<1>6. stopKey' = stopKey /\ stopReq' = stopReq /\ fil' = fil BY <1>2 DEF stopVars
<1>7. ASSUME NEW j \in OrderIds, stopKey'[j] # NoLot PROVE NotTighter(j, stopReq[j])'
  <2>1. SamePrice(j) /\ NotTighter(j, stopReq[j])
    BY <1>4, <1>5, <1>6, <1>7, RecordsSent DEF PricesKept, StopsRecorded
  <2> QED BY <1>6, <2>1 DEF SamePrice, NotTighter
<1>8. fil'.pc = "stop" => stopKey'[fil'.id] = NoLot /\ NotTighterThanFirst(fil.id)'
  <2>1. fil.pc = "stop" => /\ SamePrice(fil.id) /\ stopKey[fil.id] = NoLot
                           /\ NotTighterThanFirst(fil.id)
    BY <1>4, RecordsSent DEF PricesKept, StopsRecorded
  <2> QED BY <1>6, <2>1 DEF SamePrice, NotTighterThanFirst, NotTighter
<1> QED BY <1>4, <1>5, <1>6, <1>7, <1>8 DEF StopsRecorded, NotTighter

(* The step that asks for a better price is the only one that moves the     *)
(* price of a sent order, and it does not move it the other way.            *)
LEMMA ModifyTightens ==
  ASSUME IInv, SidesKept, StopsRecorded, NEW p \in bar.todo, NEW i \in OrderIds,
         NEW n \in 1..MaxLevel, NEW ok \in BOOLEAN, ExitModifyStop(p, i, n, ok)
  PROVE  /\ stopKey[i] # NoLot /\ NotTighter(i, n)'
         /\ \A j \in OrderIds : j # i => SamePrice(j)
         /\ ~Improves(orders[i].side, orders[i].level, orders'[i].level)
<1>1. TypeOK /\ IndexesAgree BY DEF IInv
<1>2. /\ i \in ActiveStops(p.lot) /\ Improves(ExitSide(p.qty), n, stopReq[i])
      /\ bar.pc = "exits"
  BY DEF ExitModifyStop, IsActiveStop
<1>3. p.lot \in Lots /\ n \in Nat /\ NoLot \notin Lots /\ Abs(p.qty) \in Nat
  BY <1>1, TypeFacts
<1>4. stopKey[i] # NoLot BY <1>1, <1>2, <1>3 DEF ActiveStops, IndexesAgree
<1>5. orders[i].side = ExitSide(p.qty) BY <1>2 DEF SidesKept
<1>6. NotTighter(i, stopReq[i]) BY <1>2, <1>4 DEF StopsRecorded
<1>7. stopReq[i] \in Nat /\ orders[i].level \in Nat
  BY <1>1, OrderFacts DEF TypeOK, OrderManagerType, OrderType
<1>8. ~Improves(orders[i].side, orders[i].level, n)
  BY <1>2, <1>3, <1>5, <1>6, <1>7 DEF NotTighter, Improves
<1>9. CASE ok
  <2>1. BrokerModifies(i, ExitSide(p.qty), Abs(p.qty), n) BY <1>9 DEF ExitModifyStop
  <2>2. /\ orders'[i].side = orders[i].side /\ orders'[i].level = n
        /\ \A j \in OrderIds : j # i => SamePrice(j)
    <3>1. \A j \in OrderIds : j # i => SamePrice(j) BY <1>1, <1>3, <2>1, ModifySides
    <3> QED BY <1>1, <1>3, <2>1, <3>1, ModifySides
  <2> QED BY <1>3, <1>4, <1>8, <2>2 DEF NotTighter, Improves
<1>10. CASE ~ok
  <2>1. orders' = orders BY <1>10 DEF ExitModifyStop
  <2> QED BY <1>4, <1>7, <1>8, <2>1 DEF NotTighter, Improves, SamePrice
<1> QED BY <1>9, <1>10

LEMMA ModifyRecorded ==
  ASSUME IInv, SidesKept, StopsRecorded, NEW p \in bar.todo, NEW i \in OrderIds,
         NEW n \in 1..MaxLevel, NEW ok \in BOOLEAN, ExitModifyStop(p, i, n, ok)
  PROVE  StopsRecorded'
<1>1. TypeOK BY DEF IInv
<1>2. /\ stopKey[i] # NoLot /\ NotTighter(i, n)' /\ \A j \in OrderIds : j # i => SamePrice(j)
  BY ModifyTightens
<1>3. bar.pc = "exits" /\ bar'.pc = "modify" /\ bar'.id = i /\ bar'.level = n
  BY <1>1, TaskFacts DEF ExitModifyStop, Await, BarType
<1>4. stopKey' = stopKey /\ stopReq' = stopReq /\ fil' = fil
  BY DEF ExitModifyStop, omVars, stopVars
<1>5. ASSUME NEW j \in OrderIds, stopKey'[j] # NoLot, j # i PROVE NotTighter(j, stopReq[j])'
  <2>1. SamePrice(j) /\ NotTighter(j, stopReq[j])
    BY <1>2, <1>3, <1>4, <1>5 DEF StopsRecorded
  <2> QED BY <1>4, <2>1 DEF SamePrice, NotTighter
<1>6. fil'.pc = "stop" => fil'.id # i /\ stopKey'[fil'.id] = NoLot /\ NotTighterThanFirst(fil.id)'
  <2>1. fil.pc = "stop" => /\ fil.id # i /\ SamePrice(fil.id) /\ stopKey[fil.id] = NoLot
                           /\ NotTighterThanFirst(fil.id)
    BY <1>2, RecordsSent DEF StopsRecorded
  <2> QED BY <1>4, <2>1 DEF SamePrice, NotTighterThanFirst, NotTighter
<1> QED BY <1>2, <1>3, <1>4, <1>5, <1>6 DEF StopsRecorded, NotTighterThanFirst, NotTighter

(* The rest of ensure_protective_stop.                                      *)
LEMMA ModifyAnswered ==
  ASSUME IInv, StopsRecorded, ModifyAccepted \/ ModifyRefused PROVE StopsRecorded'
<1>1. TypeOK BY DEF IInv
<1>2. orders' = orders /\ fil' = fil /\ bar.pc = "modify" /\ bar'.pc \notin {"modify", "stop"}
  BY GoOnPc DEF ModifyAccepted, ModifyRefused, Resume, brokerVars
<1>3. bar.id \in OrderIds /\ bar.level \in Nat BY <1>2, RecordsSent
<1>4. stopReq \in [OrderIds -> Nat] BY <1>1 DEF TypeOK, OrderManagerType
<1>5. ASSUME NEW j \in OrderIds, stopKey'[j] # NoLot
      PROVE  /\ stopKey[j] # NoLot
             /\ stopReq'[j] = IF j = bar.id THEN bar.level ELSE stopReq[j]
  <2>1. CASE ModifyAccepted BY <1>3, <1>4, <1>5, <2>1 DEF ModifyAccepted
  <2>2. CASE ModifyRefused BY <1>1, <1>5, <2>2, ClearStopsKeeps DEF ModifyRefused
  <2> QED BY <2>1, <2>2
<1>6. ASSUME NEW j \in OrderIds, stopKey'[j] # NoLot PROVE NotTighter(j, stopReq[j])'
  <2>1. CASE j = bar.id BY <1>2, <1>5, <1>6, <2>1 DEF StopsRecorded, NotTighter
  <2>2. CASE j # bar.id BY <1>2, <1>5, <1>6, <2>2 DEF StopsRecorded, NotTighter
  <2> QED BY <2>1, <2>2
<1>7. fil'.pc = "stop" => stopKey'[fil'.id] = NoLot /\ NotTighterThanFirst(fil.id)'
  <2>1. fil.pc = "stop" => /\ fil.id \in OrderIds /\ stopKey[fil.id] = NoLot
                           /\ NotTighterThanFirst(fil.id)
    BY RecordsSent DEF StopsRecorded
  <2> QED BY <1>2, <1>5, <2>1 DEF NotTighterThanFirst, NotTighter
<1> QED BY <1>2, <1>6, <1>7 DEF StopsRecorded

LEMMA NewStopTracked ==
  ASSUME IInv, StopsRecorded, NewStopAccepted PROVE StopsRecorded'
<1>1. /\ orders' = orders /\ fil' = fil /\ bar.pc = "stop" /\ bar'.pc \notin {"modify", "stop"}
      /\ TrackStop(bar.id, bar.lot, bar.level)
  BY GoOnPc DEF NewStopAccepted, Resume, brokerVars
<1>2. bar.id \in OrderIds /\ bar.lot \in Lots /\ bar.level \in Nat BY <1>1, RecordsSent
<1>3. NotTighter(bar.id, bar.level) /\ ~(fil'.pc = "stop" /\ fil'.id = bar.id)
  BY <1>1 DEF StopsRecorded
<1>4. BarEnds /\ DrainEnds BY <1>1 DEF BarEnds, DrainEnds
<1> QED BY <1>1, <1>2, <1>3, <1>4, TrackedRecorded

LEMMA FillStopTracked ==
  ASSUME IInv, StopsRecorded, FillStopAccepted PROVE StopsRecorded'
<1>1. /\ orders' = orders /\ bar' = bar /\ fil.pc = "stop" /\ fil'.pc # "stop"
      /\ TrackStop(fil.id, fil.lot, FirstLevel(orders[fil.id].side))
  BY DEF FillStopAccepted, brokerVars, Idle
<1>2. fil.id \in OrderIds /\ fil.lot \in Lots /\ FirstLevel(orders[fil.id].side) \in Nat
  BY <1>1, RecordsSent, FirstLevelType
<1>3. NotTighter(fil.id, FirstLevel(orders[fil.id].side)) /\ ~(bar'.pc \in {"modify", "stop"} /\ bar'.id = fil.id)
  BY <1>1 DEF StopsRecorded, NotTighterThanFirst
<1>4. BarEnds /\ DrainEnds BY <1>1 DEF BarEnds, DrainEnds
<1> QED BY <1>1, <1>2, <1>3, <1>4, TrackedRecorded

LEMMA EntryFillRecorded ==
  ASSUME IInv, StopsRecorded, NEW j \in OrderIds, EntryFill(j) PROVE StopsRecorded'
<1> DEFINE f == Head(fillQ)
<1>0. PICK side : side = -orders[f.id].side OBVIOUS
<1>1. /\ Place(j, owner[f.id], "protective_stop", side, f.qty, FirstLevel(side))
      /\ UNCHANGED <<stopVars, bar>> /\ fil'.pc = "stop" /\ fil'.id = j
  BY <1>0 DEF EntryFill
<1> HIDE DEF f
<1>8. FirstLevel(side) \in Nat BY FirstLevelType
<1>9. orders'[j].side = side BY <1>1, PlaceKeeps DEF IInv
<1>2. /\ j \in OrderIds /\ stopKey[j] = NoLot /\ ~(bar.pc \in {"modify", "stop"} /\ bar.id = j)
      /\ PricesKept /\ NotTighter(j, FirstLevel(side))'
  BY <1>1, <1>8, PlacePrices DEF NotTighter
<1>7. NotTighterThanFirst(j)' BY <1>2, <1>9 DEF NotTighterThanFirst, NotTighter
<1>3. stopKey' = stopKey /\ stopReq' = stopReq /\ bar' = bar BY <1>1 DEF stopVars
<1>4. ASSUME NEW i \in OrderIds, stopKey'[i] # NoLot, ~(bar'.pc = "modify" /\ bar'.id = i)
      PROVE  NotTighter(i, stopReq[i])'
  <2>1. SamePrice(i) /\ NotTighter(i, stopReq[i])
    BY <1>2, <1>3, <1>4, RecordsSent DEF PricesKept, StopsRecorded
  <2> QED BY <1>3, <2>1 DEF SamePrice, NotTighter
<1>5. bar'.pc \in {"modify", "stop"} => NotTighter(bar.id, bar.level)'
  <2>1. bar.pc \in {"modify", "stop"} => SamePrice(bar.id) /\ NotTighter(bar.id, bar.level)
    BY <1>2, RecordsSent DEF PricesKept, StopsRecorded
  <2> QED BY <1>3, <2>1 DEF SamePrice, NotTighter
<1>6. bar'.pc = "stop" => stopKey'[bar'.id] = NoLot BY <1>3 DEF StopsRecorded
<1> QED BY <1>1, <1>2, <1>3, <1>4, <1>5, <1>6, <1>7 DEF StopsRecorded, NotTighter

(* Each task keeps what is recorded.                                        *)
LEMMA BarRecorded ==
  ASSUME IInv, SidesKept, StopsRecorded, BarStep PROVE StopsRecorded'
<1>1. TypeOK BY DEF IInv
<1>2. ASSUME NEW p \in bar.todo, NEW i \in OrderIds, ExitClose(p, i) PROVE StopsRecorded'
  <2>1. /\ Place(i, p.lot, "close", ExitSide(p.qty), Abs(p.qty), 0) /\ bar.pc = "exits"
        /\ UNCHANGED stopVars /\ fil' = fil
    BY <1>2 DEF ExitClose
  <2>2. bar'.pc = "close" BY <1>1, <1>2, TaskFacts DEF ExitClose, Await, BarType
  <2>3. PricesKept /\ StopsForgotten BY <2>1, PlacePrices, NothingForgotten
  <2>4. BarEnds /\ DrainEnds BY <2>1, <2>2 DEF BarEnds, DrainEnds
  <2> QED BY <2>3, <2>4, RecordedKept
<1>3. ASSUME CloseAccepted PROVE StopsRecorded'
  <2>1. /\ orders' = orders /\ fil' = fil /\ ClearStops(stopOrders[bar.lot])
        /\ bar.pc = "close" /\ bar'.pc \notin {"modify", "stop"}
    BY <1>3, GoOnPc DEF CloseAccepted, CancelStopsOf, Resume
  <2>2. PricesKept /\ StopsForgotten BY <1>1, <2>1, NothingPriced, ForgottenByClear
  <2>3. BarEnds BY <2>1 DEF BarEnds
  <2>4. DrainEnds BY <2>1 DEF DrainEnds
  <2> QED BY <2>2, <2>3, <2>4, RecordedKept
<1>4. ASSUME CancelSessionStops PROVE StopsRecorded'
  <2> DEFINE ids == {i \in OrderIds : stopKey[i] # NoLot /\ owner[i] # NoLot
                                      /\ owner[i][1] \in SessionOnly}
  <2>1. ClearStops(ids) /\ orders' = orders /\ bar' = bar /\ fil' = fil
    BY <1>4 DEF CancelSessionStops
  <2> HIDE DEF ids
  <2>2. PricesKept /\ StopsForgotten BY <1>1, <2>1, NothingPriced, ForgottenByClear
  <2>3. BarEnds /\ DrainEnds BY <2>1 DEF BarEnds, DrainEnds
  <2> QED BY <2>2, <2>3, RecordedKept
<1>5. ASSUME UNCHANGED stopVars, orders' = orders, fil' = fil, bar.pc # "modify",
             bar'.pc \notin {"modify", "stop"}
      PROVE  StopsRecorded'
  <2>1. PricesKept /\ StopsForgotten BY <1>5, NothingPriced, NothingForgotten
  <2>2. BarEnds BY <1>5 DEF BarEnds
  <2>3. DrainEnds BY <1>5 DEF DrainEnds
  <2> QED BY <2>1, <2>2, <2>3, RecordedKept
<1>6. CloseRefused \/ NewStopRefused => StopsRecorded'
  BY <1>5, GoOnPc DEF CloseRefused, NewStopRefused, Resume, brokerVars
<1>7. ExitRaises \/ NoEntry => StopsRecorded'
  BY <1>5 DEF ExitRaises, NoEntry, omVars, stopVars, brokerVars, BarIdle
<1>8. ASSUME NEW p \in bar.todo, ExitDropped(p) PROVE StopsRecorded'
  BY <1>5, <1>8, GoOnPc DEF ExitDropped, omVars, stopVars, brokerVars
<1>9. ASSUME NEW l \in EntryLots, EvaluateEntry(l) PROVE StopsRecorded'
  BY <1>5, <1>9 DEF EvaluateEntry, omVars, stopVars, brokerVars, BarIdle
<1>10. ASSUME NEW s \in Strategies, BarDispatch(s) PROVE StopsRecorded'
  BY <1>5, <1>10 DEF BarDispatch, omVars, stopVars, brokerVars, BarIdle
<1> QED
  BY <1>2, <1>3, <1>4, <1>6, <1>7, <1>8, <1>9, <1>10, NewStopRecorded, ModifyRecorded,
     ModifyAnswered, NewStopTracked DEF BarStep

LEMMA EntryRecorded == ASSUME IInv, StopsRecorded, EntryStep PROVE StopsRecorded'
<1>1. UNCHANGED stopVars /\ bar' = bar /\ fil' = fil
  BY DEF EntryStep, DropSignal, ProcessSignal, EntryAccepted, EntryRefused, omVars, stopVars
<1>2. BarEnds /\ DrainEnds BY <1>1 DEF BarEnds, DrainEnds
<1>3. DropSignal \/ EntryAccepted \/ EntryRefused => PricesKept
  BY NothingPriced DEF DropSignal, EntryAccepted, EntryRefused, brokerVars
<1>4. ASSUME NEW i \in OrderIds, NEW side \in EntrySides, ProcessSignal(i, side)
      PROVE  PricesKept
  BY <1>4, PlacePrices DEF ProcessSignal
<1> QED BY <1>1, <1>2, <1>3, <1>4, NothingForgotten, RecordedKept DEF EntryStep

LEMMA DrainRecorded ==
  ASSUME IInv, StopsRecorded, FillStep \/ UpdateStep PROVE StopsRecorded'
<1>1. TypeOK BY DEF IInv
<1>2. ASSUME orders' = orders, bar' = bar, fil' = fil \/ fil'.pc # "stop",
             UNCHANGED stopVars \/ \E ids : ClearStops(ids)
      PROVE  StopsRecorded'
  <2>1. PricesKept BY <1>2, NothingPriced
  <2>2. StopsForgotten BY <1>1, <1>2, NothingForgotten, ForgottenByClear
  <2>3. BarEnds /\ DrainEnds BY <1>2 DEF BarEnds, DrainEnds
  <2> QED BY <2>1, <2>2, <2>3, RecordedKept
<1>3. UnownedFill \/ EntryFillNoStop => StopsRecorded'
  BY <1>2 DEF UnownedFill, EntryFillNoStop, omVars, stopVars
<1>4. CloseFill => StopsRecorded' BY <1>2 DEF CloseFill, CancelStopsOf
<1>5. StopFill => StopsRecorded' BY <1>2 DEF StopFill
<1>6. FillStopRefused => StopsRecorded' BY <1>2 DEF FillStopRefused, brokerVars, Idle
<1>7. ASSUME NEW i \in OrderIds, OrderUpdate(i) PROVE StopsRecorded'
  BY <1>2, <1>7 DEF OrderUpdate
<1> QED
  BY <1>3, <1>4, <1>5, <1>6, <1>7, EntryFillRecorded, FillStopTracked DEF FillStep, UpdateStep

LEMMA BrokerRecorded == ASSUME IInv, StopsRecorded, BrokerStep PROVE StopsRecorded'
<1>1. UNCHANGED stopVars /\ bar' = bar /\ fil' = fil
  BY DEF BrokerStep, BrokerEnd, BrokerFill, omVars, stopVars
<1>2. PricesKept BY BrokerSides DEF PricesKept, IInv
<1>3. BarEnds /\ DrainEnds BY <1>1 DEF BarEnds, DrainEnds
<1> QED BY <1>1, <1>2, <1>3, NothingForgotten, RecordedKept

LEMMA StopsRecordedStep ==
  ASSUME IInv, SidesKept, StopsRecorded, [Next]_vars PROVE StopsRecorded'
<1>1. CASE UNCHANGED vars
  <2>1. UNCHANGED stopVars /\ orders' = orders /\ bar' = bar /\ fil' = fil
    BY <1>1 DEF vars, omVars, stopVars, brokerVars
  <2>2. BarEnds /\ DrainEnds BY <2>1 DEF BarEnds, DrainEnds
  <2> QED BY <2>1, <2>2, NothingForgotten, NothingPriced, RecordedKept
<1> QED BY <1>1, BarRecorded, EntryRecorded, DrainRecorded, BrokerRecorded DEF Next

(* No step moves the price of an order at work the wrong way.               *)
LEMMA PriceStep ==
  ASSUME IInv, SidesKept, StopsRecorded, [Next]_vars, NEW i \in OrderIds,
         orders[i].status = "working"
  PROVE  ~Improves(orders[i].side, orders[i].level, orders'[i].level)
<1>1. TypeOK BY DEF IInv
<1>2. orders[i].level \in Nat BY <1>1, OrderFacts DEF OrderType
<1>3. ASSUME PricesKept PROVE ~Improves(orders[i].side, orders[i].level, orders'[i].level)
  BY <1>2, <1>3 DEF PricesKept, SamePrice, Improves
<1>4. ASSUME NEW p \in bar.todo, NEW j \in OrderIds, NEW n \in 1..MaxLevel, NEW ok \in BOOLEAN,
             ExitModifyStop(p, j, n, ok)
      PROVE  ~Improves(orders[i].side, orders[i].level, orders'[i].level)
  <2>1. CASE j = i BY <1>4, <2>1, ModifyTightens
  <2>2. CASE j # i
    <3>1. SamePrice(i) BY <1>4, <2>2, ModifyTightens
    <3> QED BY <1>2, <3>1 DEF SamePrice, Improves
  <2> QED BY <2>1, <2>2
<1>5. ASSUME NEW j, NEW l, NEW r, NEW side, NEW qty, NEW level \in Nat,
             Place(j, l, r, side, qty, level)
      PROVE  PricesKept
  BY <1>5, PlacePrices
<1>6. BrokerStep => PricesKept BY <1>1, BrokerSides DEF PricesKept
<1>7. [BarStep]_vars => PricesKept \/ \E p \in bar.todo, j \in OrderIds, n \in 1..MaxLevel,
                                ok \in BOOLEAN : ExitModifyStop(p, j, n, ok)
  <2>1. orders' = orders => PricesKept BY NothingPriced
  <2>2. UNCHANGED vars => orders' = orders BY DEF vars, brokerVars
  <2>3. ASSUME NEW p \in bar.todo, NEW j \in OrderIds, NEW n \in 1..MaxLevel,
               ExitClose(p, j) \/ ExitNewStop(p, j, n)
        PROVE  PricesKept
    BY <1>1, <1>5, <2>3, TypeFacts DEF ExitClose, ExitNewStop
  <2>4. \A p \in bar.todo, j \in OrderIds : ExitClose(p, j) => PricesKept
    BY <1>5 DEF ExitClose
  <2>5. CloseAccepted \/ CloseRefused \/ ModifyAccepted \/ ModifyRefused \/ NewStopAccepted
          \/ NewStopRefused \/ ExitRaises \/ NoEntry \/ CancelSessionStops => orders' = orders
    BY DEF CloseAccepted, CloseRefused, ModifyAccepted, ModifyRefused, NewStopAccepted,
       NewStopRefused, ExitRaises, NoEntry, CancelSessionStops, brokerVars
  <2>6. \A p : ExitDropped(p) => orders' = orders BY DEF ExitDropped, brokerVars
  <2>7. \A s : BarDispatch(s) => orders' = orders BY DEF BarDispatch, brokerVars
  <2>8. \A l : EvaluateEntry(l) => orders' = orders BY DEF EvaluateEntry, brokerVars
  <2> QED BY <2>1, <2>2, <2>3, <2>4, <2>5, <2>6, <2>7, <2>8 DEF BarStep
<1>8. EntryStep => PricesKept
  <2>1. DropSignal \/ EntryAccepted \/ EntryRefused => PricesKept
    BY NothingPriced DEF DropSignal, EntryAccepted, EntryRefused, brokerVars
  <2>2. \A j \in OrderIds, side \in EntrySides : ProcessSignal(j, side) => PricesKept
    BY <1>5 DEF ProcessSignal
  <2> QED BY <2>1, <2>2 DEF EntryStep
<1>9. FillStep \/ UpdateStep => PricesKept
  <2>1. UnownedFill \/ CloseFill \/ StopFill \/ EntryFillNoStop \/ FillStopAccepted
          \/ FillStopRefused => PricesKept
    BY NothingPriced DEF UnownedFill, CloseFill, StopFill, EntryFillNoStop, FillStopAccepted,
       FillStopRefused, brokerVars
  <2>2. \A j \in OrderIds : OrderUpdate(j) => PricesKept
    BY NothingPriced DEF OrderUpdate
  <2>3. \A j \in OrderIds : EntryFill(j) => PricesKept
    BY <1>5, FirstLevelType DEF EntryFill
  <2> QED BY <2>1, <2>2, <2>3 DEF FillStep, UpdateStep
<1> QED BY <1>3, <1>4, <1>6, <1>7, <1>8, <1>9 DEF Next

(* While a lot keeps its side, a working protective stop is only ever       *)
(* tightened, whatever the tasks interleave and whatever the broker refuses.*)
(* The hypothesis is needed: a lot that turns records a price on the other  *)
(* side, and the price of the turn after it improves on that one.           *)
THEOREM StopNeverLoosensOnItsSide == Spec /\ []SidesKept => StopNeverLoosens
<1>1. Init => StopsRecorded
  BY DEF Init, StopsRecorded, BarIdle, Idle
<1>2. IInv /\ SidesKept /\ StopsRecorded /\ [Next]_vars => StopsRecorded'
  BY StopsRecordedStep
<1>3. IInv /\ SidesKept /\ StopsRecorded /\ [Next]_vars
        => [\A i \in OrderIds :
              orders[i].status = "working" /\ orders[i].role = "protective_stop"
                => ~Improves(orders[i].side, orders[i].level, orders'[i].level)]_vars
  BY PriceStep
<1> QED BY <1>1, <1>2, <1>3, Inductive, PTL DEF Spec, StopNeverLoosens
=============================================================================
