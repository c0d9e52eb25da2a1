----------------------------- MODULE CoverProofs -----------------------------
(***************************************************************************)
(* A lot of a protected strategy stays covered: ProtectedUnlessRevoked for *)
(* every instance of OrderManager.                                         *)
(*                                                                         *)
(* The property speaks of a quiet state, in which every fill is booked.    *)
(* Between two such states the stops at work and the fills that are still  *)
(* queued cover the lot together: a fill of a stop moves its quantity from *)
(* the order to the queue, and booking it takes as much from the lot.      *)
(***************************************************************************)
EXTENDS OrderManagerProofs, Sums

Exits(k) == {i \in OrderIds : \E r \in ExitRoles : Sent(i, k, r)}

(* What each order has left as a stop at work for the lot, and what each    *)
(* queued fill of one of its exits will take from it.                       *)
AtWork(k) == [i \in OrderIds |-> IF i \in StopsAtWork(k) THEN orders[i].left ELSE 0]
Queued(k) == [n \in 1..Len(fillQ) |-> IF fillQ[n].id \in Exits(k) THEN fillQ[n].qty ELSE 0]

WorkTotal(k) == Total(AtWork(k), OrderIds)
QueuedTotal(k) == Total(Queued(k), 1..Len(fillQ))
Covered(k, d) == d * lotQty[k] <= WorkTotal(k) + QueuedTotal(k)
Claimed(k, d) == /\ k \in Lots /\ d \in Sides /\ k[1] \in Protected /\ k # AdoptedLot
                 /\ Standing(k, d)

(* An owner is the lot the order was sent for, prices are in their bounds,  *)
(* and a lot without a trade id has no book of its own.                     *)
OwnersTrue == \A i \in OrderIds : owner[i] # NoLot => Sent(i, owner[i], role[i])
LevelsBounded == bar.level <= MaxLevel /\ \A i \in OrderIds : stopReq[i] <= MaxLevel
NoTradeEmpty == \A k \in Lots : k[2] = NoTrade => lotQty[k] = 0
CoverInv == /\ OwnersTrue /\ LevelsBounded /\ NoTradeEmpty
            /\ \A k \in Lots, d \in Sides : Claimed(k, d) => Covered(k, d)

-----------------------------------------------------------------------------
(* The two sums. *)

LEMMA FiniteIds == IsFiniteSet(OrderIds) /\ OrderIds = 1..MaxOrders
BY ConstantsAssumption, FS_Interval DEF OrderIds, ConstantsAssumption

SumsTyped ==
  \A k \in Lots :
    /\ \A i \in OrderIds : AtWork(k)[i] \in Nat
    /\ Len(fillQ) \in Nat
    /\ \A n \in 1..Len(fillQ) : Queued(k)[n] \in Nat /\ fillQ[n] \in FillType
    /\ WorkTotal(k) \in Nat /\ QueuedTotal(k) \in Nat

LEMMA SumsType == TypeOK => SumsTyped
<1> SUFFICES ASSUME TypeOK, NEW k \in Lots
             PROVE  /\ \A i \in OrderIds : AtWork(k)[i] \in Nat
                    /\ Len(fillQ) \in Nat
                    /\ \A n \in 1..Len(fillQ) : Queued(k)[n] \in Nat /\ fillQ[n] \in FillType
                    /\ WorkTotal(k) \in Nat /\ QueuedTotal(k) \in Nat
  BY DEF SumsTyped
<1>1. \A i \in OrderIds : AtWork(k)[i] \in Nat BY OrderFacts DEF AtWork
<1>2. fillQ \in Seq(FillType) BY DEF TypeOK, BrokerType
<1>3. Len(fillQ) \in Nat /\ \A n \in 1..Len(fillQ) : fillQ[n] \in FillType BY <1>2
<1>4. \A n \in 1..Len(fillQ) : Queued(k)[n] \in Nat BY <1>3 DEF Queued, FillType
<1>5. WorkTotal(k) \in Nat BY <1>1, FiniteIds, TotalNat DEF WorkTotal
<1>6. IsFiniteSet(1..Len(fillQ)) BY <1>3, FS_Interval
<1>7. QueuedTotal(k) \in Nat BY <1>4, <1>6, TotalNat DEF QueuedTotal
<1> QED BY <1>1, <1>3, <1>4, <1>5, <1>7

LEMMA SumsTypeNext == TypeOK' => SumsTyped'
BY SumsType, PTL

(* The sum of the property is the sum of what is at work.                   *)
LEMMA LeftIsWork ==
  ASSUME TypeOK, NEW k \in Lots
  PROVE  MapThenSumSet(LAMBDA i : orders[i].left, StopsAtWork(k)) = WorkTotal(k)
<1> DEFINE S == StopsAtWork(k)
           f == [i \in OrderIds |-> orders[i].left]
           Sum(h) == [T \in SUBSET S |-> IF T = {} THEN 0
                        ELSE LET x == CHOOSE x \in T : TRUE IN orders[x].left + h[T \ {x}]]
           Folded(h) == [T \in SUBSET S |-> IF T = {} THEN 0
                        ELSE LET x == CHOOSE x \in T : TRUE IN f[x] + h[T \ {x}]]
           c == CHOOSE h : h = Sum(h)
<1>1. S \in SUBSET OrderIds /\ IsFiniteSet(S) BY FiniteIds, FS_Subset DEF StopsAtWork
<1>2. ASSUME NEW h PROVE Sum(h) = Folded(h)
  <2>1. ASSUME NEW T \in SUBSET S PROVE Sum(h)[T] = Folded(h)[T]
    <3>1. CASE T = {} BY <3>1
    <3>2. CASE T # {}
      <4> DEFINE x == CHOOSE x \in T : TRUE
      <4>1. x \in OrderIds BY <1>1, <3>2
      <4>2. f[x] = orders[x].left BY <4>1
      <4> QED BY <3>2, <4>2
    <3> QED BY <3>1, <3>2
  <2> DEFINE a == Sum(h)  b == Folded(h)
  <2>2. a = [T \in SUBSET S |-> a[T]] /\ b = [T \in SUBSET S |-> b[T]] OBVIOUS
  <2>3. a = b
    <3>1. \A T \in SUBSET S : a[T] = b[T] BY <2>1
    <3> HIDE DEF a, b
    <3> QED BY <2>2, <3>1, SameFunction
  <2> QED BY <2>3
<1>3. PICK g : Adds(g, f, S) BY <1>1, AddsExists
<1>4. g = Sum(g)
  <2>1. g = Folded(g) BY <1>3 DEF Adds
  <2>2. Sum(g) = Folded(g) BY <1>2
  <2> HIDE DEF Sum, Folded
  <2> QED BY <2>1, <2>2
<1>5. c = Sum(c) BY <1>4
<1>6. Adds(c, f, S)
  <2> HIDE DEF c
  <2> QED BY <1>2, <1>5 DEF Adds
<1>7. c = g
  <2> HIDE DEF c, f, S
  <2> QED BY <1>1, <1>3, <1>6, AddsUnique
<1>8. MapThenSumSet(LAMBDA i : orders[i].left, S) = c[S] BY DEF MapThenSumSet, MapThenFoldSet
<1>9. Total(f, S) = g[S] BY <1>1, <1>3, TotalPart
<1>10. Total(AtWork(k), OrderIds) = Total(f, S)
  <2>1. \A i \in S : f[i] \in Int /\ AtWork(k)[i] = f[i] BY <1>1, OrderFacts DEF AtWork
  <2>2. \A i \in OrderIds \ S : AtWork(k)[i] = 0 BY DEF AtWork
  <2>3. \A i \in S : f[i] \in Int BY <2>1
  <2>4. \A i \in S : AtWork(k)[i] = f[i] BY <2>1
  <2>5. PICK all : all = OrderIds OBVIOUS
  <2>6. IsFiniteSet(all) /\ S \in SUBSET all BY <1>1, <2>5, FiniteIds
  <2>7. \A i \in all \ S : AtWork(k)[i] = 0 BY <2>2, <2>5
  <2> HIDE DEF f, S
  <2>8. Total(AtWork(k), all) = Total(f, S) BY <2>3, <2>4, <2>6, <2>7, TotalMasked
  <2> QED BY <2>5, <2>8
<1> QED BY <1>7, <1>8, <1>9, <1>10 DEF WorkTotal

(* The sum of what is at work changes by what one order's value does.       *)
LEMMA WorkSame ==
  ASSUME TypeOK, TypeOK', NEW k \in Lots, \A i \in OrderIds : AtWork(k)'[i] = AtWork(k)[i]
  PROVE  WorkTotal(k)' = WorkTotal(k)
<1>1. PICK f : f = AtWork(k) OBVIOUS
<1>2. PICK g : g = AtWork(k)' OBVIOUS
<1>3. \A i \in OrderIds : f[i] = g[i] BY <1>1, <1>2
<1>4. Total(f, OrderIds) = Total(g, OrderIds) BY <1>3, FiniteIds, TotalSame
<1>5. WorkTotal(k)' = Total(AtWork(k)', OrderIds) 
  BY DEF WorkTotal, Total, MapThenSumSet, MapThenFoldSet
<1> QED BY <1>1, <1>2, <1>4, <1>5 DEF WorkTotal

LEMMA WorkChanges ==
  ASSUME TypeOK, TypeOK', NEW k \in Lots, NEW j \in OrderIds,
         \A i \in OrderIds : i # j => AtWork(k)'[i] = AtWork(k)[i]
  PROVE  WorkTotal(k)' = WorkTotal(k) - AtWork(k)[j] + AtWork(k)'[j]
<1>1. PICK f : f = AtWork(k) OBVIOUS
<1>2. PICK g : g = AtWork(k)' OBVIOUS
<1>3. \A i \in OrderIds : f[i] \in Int /\ g[i] \in Int BY <1>1, <1>2, SumsType, SumsTypeNext DEF SumsTyped
<1>4. \A i \in OrderIds \ {j} : f[i] = g[i] BY <1>1, <1>2
<1>5. Total(g, OrderIds) = Total(f, OrderIds) - f[j] + g[j]
  <2>1. PICK all : all = OrderIds OBVIOUS
  <2>2. IsFiniteSet(all) /\ j \in all BY <2>1, FiniteIds
  <2>3. /\ \A i \in all : f[i] \in Int /\ g[i] \in Int
        /\ \A i \in all \ {j} : f[i] = g[i]
    BY <1>3, <1>4, <2>1
  <2>4. Total(g, all) = Total(f, all) - f[j] + g[j] BY <2>2, <2>3, TotalChange
  <2> QED BY <2>1, <2>4
<1>6. WorkTotal(k)' = Total(AtWork(k)', OrderIds) 
  BY DEF WorkTotal, Total, MapThenSumSet, MapThenFoldSet
<1> QED BY <1>1, <1>2, <1>5, <1>6 DEF WorkTotal

(* Which orders are exits of a lot does not change once they are sent.      *)
LEMMA ExitsKept ==
  ASSUME IInv, [Next]_vars, NEW k \in Lots, NEW i \in OrderIds, orders[i].status # "unsent"
  PROVE  i \in Exits(k)' <=> i \in Exits(k)
<1>1. Kept(i) BY OrdersKeep DEF IInv
<1> QED BY <1>1 DEF Kept, Exits, Sent

(* The sum of the queued fills: unchanged, one more at the end, or the      *)
(* first one gone.                                                          *)
LEMMA QueuedSame ==
  ASSUME IInv, [Next]_vars, NEW k \in Lots, fillQ' = fillQ
  PROVE  QueuedTotal(k)' = QueuedTotal(k)
<1>1. TypeOK /\ QueuesTrue BY DEF IInv
<1>2. PICK f : f = Queued(k) OBVIOUS
<1>3. PICK g : g = Queued(k)' OBVIOUS
<1>4. PICK n : n = Len(fillQ) OBVIOUS
<1>5. n \in Nat /\ \A m \in 1..n : fillQ[m] \in FillType
  BY <1>1, <1>4, SumsType DEF SumsTyped
<1>6. DOMAIN fillQ = 1..n BY <1>1, <1>4 DEF TypeOK, BrokerType
<1>7. ASSUME NEW m \in 1..n PROVE f[m] = g[m]
  <2>1. fillQ[m].id \in OrderIds /\ orders[fillQ[m].id].status # "unsent"
    BY <1>1, <1>5, <1>6 DEF QueuesTrue, FillType
  <2>2. fillQ[m].id \in Exits(k)' <=> fillQ[m].id \in Exits(k) BY <2>1, ExitsKept
  <2> QED BY <1>2, <1>3, <1>4, <2>2 DEF Queued
<1>8. Total(f, 1..n) = Total(g, 1..n)
  <2>1. IsFiniteSet(1..n) BY <1>5, FS_Interval
  <2> QED BY <1>7, <2>1, TotalSame
<1>9. QueuedTotal(k)' = Total(Queued(k)', 1..Len(fillQ'))
  BY DEF QueuedTotal, Total, MapThenSumSet, MapThenFoldSet
<1> QED BY <1>2, <1>3, <1>4, <1>8, <1>9 DEF QueuedTotal

LEMMA QueuedAppend ==
  ASSUME IInv, TypeOK', [Next]_vars, NEW k \in Lots, NEW i \in OrderIds, NEW q \in Nat,
         orders[i].status # "unsent", fillQ' = Append(fillQ, [id |-> i, qty |-> q])
  PROVE  QueuedTotal(k)' = QueuedTotal(k) + (IF i \in Exits(k) THEN q ELSE 0)
<1>1. TypeOK /\ QueuesTrue BY DEF IInv
<1>2. PICK f : f = Queued(k) OBVIOUS
<1>3. PICK g : g = Queued(k)' OBVIOUS
<1>4. PICK n : n = Len(fillQ) OBVIOUS
<1>5. n \in Nat /\ (\A m \in 1..n : fillQ[m] \in FillType) /\ fillQ \in Seq(FillType)
  BY <1>1, <1>4, SumsType DEF SumsTyped, TypeOK, BrokerType
<1>6. DOMAIN fillQ = 1..n BY <1>4, <1>5
<1>7. /\ Len(fillQ') = n + 1 /\ fillQ'[n + 1] = [id |-> i, qty |-> q]
      /\ \A m \in 1..n : fillQ'[m] = fillQ[m]
  BY <1>4, <1>5
<1>8. ASSUME NEW m \in 1..n PROVE f[m] \in Int /\ g[m] = f[m]
  <2>1. fillQ[m].id \in OrderIds /\ orders[fillQ[m].id].status # "unsent"
    BY <1>1, <1>5, <1>6 DEF QueuesTrue, FillType
  <2>2. fillQ[m].id \in Exits(k)' <=> fillQ[m].id \in Exits(k) BY <2>1, ExitsKept
  <2>3. m \in 1..(n + 1) BY <1>5
  <2>4. f[m] \in Nat BY <1>1, <1>2, <1>4, SumsType DEF SumsTyped
  <2>5. f[m] = IF fillQ[m].id \in Exits(k) THEN fillQ[m].qty ELSE 0 BY <1>2, <1>4 DEF Queued
  <2>6. g[m] = IF fillQ'[m].id \in Exits(k)' THEN fillQ'[m].qty ELSE 0
    BY <1>3, <1>7, <2>3 DEF Queued
  <2>7. fillQ'[m] = fillQ[m] BY <1>7
  <2>8. g[m] = f[m] BY <2>2, <2>5, <2>6, <2>7
  <2> QED BY <2>4, <2>8
<1>9. g[n + 1] = IF i \in Exits(k) THEN q ELSE 0
  <2>1. n + 1 \in 1..(n + 1) BY <1>5
  <2>2. i \in Exits(k)' <=> i \in Exits(k) BY ExitsKept
  <2> QED BY <1>3, <1>7, <2>1, <2>2 DEF Queued
<1>10. Total(g, 1..(n + 1)) = Total(f, 1..n) + g[n + 1]
  <2>1. g[n + 1] \in Int BY <1>9
  <2> QED BY <1>5, <1>8, <2>1, TotalAppend
<1>11. QueuedTotal(k)' = Total(Queued(k)', 1..Len(fillQ'))
  BY DEF QueuedTotal, Total, MapThenSumSet, MapThenFoldSet
<1> QED BY <1>2, <1>3, <1>4, <1>7, <1>9, <1>10, <1>11 DEF QueuedTotal

LEMMA QueuedTail ==
  ASSUME IInv, TypeOK', [Next]_vars, NEW k \in Lots, fillQ # <<>>, fillQ' = Tail(fillQ)
  PROVE  LET f == Head(fillQ) IN
         QueuedTotal(k)' = QueuedTotal(k) - (IF f.id \in Exits(k) THEN f.qty ELSE 0)
<1>1. TypeOK /\ QueuesTrue BY DEF IInv
<1>2. PICK f : f = Queued(k) OBVIOUS
<1>3. PICK g : g = Queued(k)' OBVIOUS
<1>4. PICK n : n = Len(fillQ) - 1 OBVIOUS
<1>5. fillQ \in Seq(FillType) /\ Len(fillQ) \in Nat /\ \A m \in 1..Len(fillQ) : fillQ[m] \in FillType
  BY <1>1, SumsType DEF SumsTyped, TypeOK, BrokerType
<1>6. n \in Nat /\ Len(fillQ) = n + 1 /\ DOMAIN fillQ = 1..(n + 1) /\ Head(fillQ) = fillQ[1]
  BY <1>4, <1>5
<1>7. Len(fillQ') = n /\ \A m \in 1..n : fillQ'[m] = fillQ[m + 1]
  BY <1>4, <1>5, <1>6
<1>8. \A m \in 1..(n + 1) :
        /\ f[m] \in Int /\ f[m] = IF fillQ[m].id \in Exits(k) THEN fillQ[m].qty ELSE 0
        /\ fillQ[m].id \in OrderIds /\ orders[fillQ[m].id].status # "unsent"
  <2>1. ASSUME NEW m \in 1..(n + 1) PROVE f[m] \in Nat
    BY <1>1, <1>2, <1>6, SumsType DEF SumsTyped
  <2>2. ASSUME NEW m \in 1..(n + 1)
        PROVE  fillQ[m].id \in OrderIds /\ orders[fillQ[m].id].status # "unsent"
    BY <1>1, <1>5, <1>6 DEF QueuesTrue, FillType
  <2>3. ASSUME NEW m \in 1..(n + 1)
        PROVE  f[m] = IF fillQ[m].id \in Exits(k) THEN fillQ[m].qty ELSE 0
    BY <1>2, <1>6 DEF Queued
  <2> QED BY <2>1, <2>2, <2>3
<1>9. ASSUME NEW m \in 1..n PROVE g[m] = f[m + 1]
  <2>1. m + 1 \in 1..(n + 1) BY <1>6
  <2>2. g[m] = IF fillQ'[m].id \in Exits(k)' THEN fillQ'[m].qty ELSE 0 BY <1>3, <1>7 DEF Queued
  <2>3. fillQ[m + 1].id \in Exits(k)' <=> fillQ[m + 1].id \in Exits(k) BY <1>8, <2>1, ExitsKept
  <2> QED BY <1>7, <1>8, <2>1, <2>2, <2>3
<1>10. Total(g, 1..n) = Total(f, 1..(n + 1)) - f[1]
  <2>1. \A m \in 1..(n + 1) : f[m] \in Int BY <1>8
  <2> QED BY <1>6, <1>9, <2>1, TotalTail
<1>11. QueuedTotal(k)' = Total(Queued(k)', 1..Len(fillQ'))
  BY DEF QueuedTotal, Total, MapThenSumSet, MapThenFoldSet
<1>12. f[1] = IF Head(fillQ).id \in Exits(k) THEN Head(fillQ).qty ELSE 0
  <2>1. 1 \in 1..(n + 1) BY <1>6
  <2> QED BY <1>6, <1>8, <2>1
<1> QED BY <1>2, <1>3, <1>6, <1>7, <1>10, <1>11, <1>12 DEF QueuedTotal

-----------------------------------------------------------------------------
(* Owners, prices and lots without a trade id. *)

LEMMA OwnersStep == ASSUME IInv, OwnersTrue, [Next]_vars PROVE OwnersTrue'
<1>0. TypeOK /\ RolesOwned /\ FreshIds /\ AwaitsTrue /\ NoLot \notin Lots BY TypeFacts DEF IInv
<1>1. \A i, l, r : Sent(i, l, r) => Sent(i, l, r)' BY <1>0, SentKeeps
<1>2. CASE UNCHANGED <<owner, role>> BY <1>1, <1>2 DEF OwnersTrue
<1>3. ASSUME NEW i \in OrderIds, NEW l \in Lots, NEW r \in Roles, Sent(i, l, r)',
             Register(i, l, r) \/ CompleteRegistration(i, l, r)
      PROVE  OwnersTrue'
  <2>1. /\ \/ owner'[i] = l /\ role'[i] = r
           \/ owner'[i] = owner[i] /\ role'[i] = role[i]
        /\ \A j \in OrderIds : j # i => owner'[j] = owner[j] /\ role'[j] = role[j]
    BY <1>0, <1>3, RegisterKeeps, CompleteKeeps
  <2> SUFFICES ASSUME NEW j \in OrderIds, owner'[j] # NoLot PROVE Sent(j, owner[j], role[j])'
    BY DEF OwnersTrue
  <2>2. CASE owner'[j] = owner[j] /\ role'[j] = role[j]
    <3>1. Sent(j, owner[j], role[j]) BY <2>2 DEF OwnersTrue
    <3>2. PICK a, b : a = owner[j] /\ b = role[j] OBVIOUS
    <3>3. Sent(j, a, b)' BY <1>1, <3>1, <3>2
    <3> QED BY <2>2, <3>2, <3>3 DEF Sent
  <2>3. CASE j = i /\ owner'[i] = l /\ role'[i] = r BY <1>3, <2>3 DEF Sent
  <2> QED BY <2>1, <2>2, <2>3
<1>4. ASSUME NEW i \in OrderIds, ClearTracking(i) PROVE OwnersTrue'
  <2>1. /\ owner'[i] = NoLot
        /\ \A j \in OrderIds : j # i => owner'[j] = owner[j] /\ role'[j] = role[j]
    BY <1>0, <1>4, ClearTrackingKeeps
  <2> SUFFICES ASSUME NEW j \in OrderIds, owner'[j] # NoLot PROVE Sent(j, owner[j], role[j])'
    BY DEF OwnersTrue
  <2>2. owner'[j] = owner[j] /\ role'[j] = role[j] BY <2>1
  <2>3. Sent(j, owner[j], role[j]) BY <2>2 DEF OwnersTrue
  <2>4. PICK a, b : a = owner[j] /\ b = role[j] OBVIOUS
  <2>5. Sent(j, a, b)' BY <1>1, <2>3, <2>4
  <2> QED BY <2>2, <2>4, <2>5 DEF Sent
<1>5. ASSUME NEW i \in OrderIds, NEW l \in Lots, NEW r \in Roles, NEW side, NEW qty, NEW level,
             Place(i, l, r, side, qty, level), Register(i, l, r)
      PROVE  OwnersTrue'
  <2>1. Sent(i, l, r)' BY <1>0, <1>5, PlaceSends
  <2> QED BY <1>3, <1>5, <2>1
<1>6. ASSUME NEW i \in OrderIds, NEW l \in Lots, NEW r \in Roles, Sent(i, l, r),
             Register(i, l, r) \/ CompleteRegistration(i, l, r)
      PROVE  OwnersTrue'
  BY <1>1, <1>3, <1>6
<1>7. BarStep => OwnersTrue'
  <2>1. ASSUME NEW p \in bar.todo, NEW i \in OrderIds, NEW n \in 1..MaxLevel,
               ExitClose(p, i) \/ ExitNewStop(p, i, n)
        PROVE  OwnersTrue'
    BY <1>0, <1>5, <2>1, TypeFacts DEF ExitClose, ExitNewStop, Roles
  <2>2. \A p \in bar.todo, i \in OrderIds : ExitClose(p, i) => OwnersTrue'
    BY <1>0, <1>5, TypeFacts DEF ExitClose, Roles
  <2>3. CloseAccepted \/ CloseRefused => OwnersTrue'
    BY <1>0, <1>4, <1>6, AwaitFacts DEF CloseAccepted, CloseRefused, Sent, Roles
  <2>4. NewStopAccepted \/ NewStopRefused => OwnersTrue'
    BY <1>0, <1>4, <1>6, AwaitFacts DEF NewStopAccepted, NewStopRefused, Sent, Roles
  <2>5. ModifyAccepted \/ ModifyRefused \/ ExitRaises \/ NoEntry \/ CancelSessionStops
          => OwnersTrue'
    BY <1>2 DEF ModifyAccepted, ModifyRefused, ExitRaises, NoEntry, CancelSessionStops, omVars
  <2>6. /\ \A p : ExitDropped(p) => OwnersTrue'
        /\ \A p, i, n, ok : ExitModifyStop(p, i, n, ok) => OwnersTrue'
        /\ \A s : BarDispatch(s) => OwnersTrue'
        /\ \A l : EvaluateEntry(l) => OwnersTrue'
    BY <1>2 DEF ExitDropped, ExitModifyStop, BarDispatch, EvaluateEntry, omVars
  <2> QED BY <2>1, <2>2, <2>3, <2>4, <2>5, <2>6 DEF BarStep
<1>8. EntryStep => OwnersTrue'
  <2>1. DropSignal => OwnersTrue' BY <1>2 DEF DropSignal, omVars
  <2>2. \A i \in OrderIds, side \in EntrySides : ProcessSignal(i, side) => OwnersTrue'
    BY <1>0, <1>5, HeadQueue, TypeFacts DEF ProcessSignal, Roles
  <2>3. EntryAccepted \/ EntryRefused => OwnersTrue'
    BY <1>0, <1>4, <1>6, AwaitFacts DEF EntryAccepted, EntryRefused, Sent, Roles
  <2> QED BY <2>1, <2>2, <2>3 DEF EntryStep
<1>9. FillStep => OwnersTrue'
  <2>1. UnownedFill \/ CloseFill \/ StopFill \/ EntryFillNoStop => OwnersTrue'
    BY <1>2 DEF UnownedFill, CloseFill, StopFill, EntryFillNoStop, omVars
  <2>2. \A j \in OrderIds : EntryFill(j) => OwnersTrue'
    BY <1>0, <1>5, HeadFill DEF EntryFill, TakeFill, Roles
  <2>3. FillStopAccepted \/ FillStopRefused => OwnersTrue'
    BY <1>0, <1>4, <1>6, AwaitFacts DEF FillStopAccepted, FillStopRefused, Sent, Roles
  <2> QED BY <2>1, <2>2, <2>3 DEF FillStep
<1>10. UpdateStep => OwnersTrue' BY <1>4 DEF UpdateStep, OrderUpdate
<1>11. BrokerStep => OwnersTrue' BY <1>2 DEF BrokerStep, BrokerEnd, BrokerFill, omVars
<1>12. CASE UNCHANGED vars BY <1>2, <1>12 DEF vars, omVars
<1> QED BY <1>7, <1>8, <1>9, <1>10, <1>11, <1>12 DEF Next

LEMMA LevelsStep == ASSUME IInv, LevelsBounded, [Next]_vars PROVE LevelsBounded'
<1>0. TypeOK /\ AwaitsTrue /\ MaxLevel \in Nat
  BY ConstantsAssumption DEF IInv, ConstantsAssumption
<1>1. stopReq \in [OrderIds -> Nat] BY <1>0 DEF TypeOK, OrderManagerType
<1> DEFINE Bounded == \A i \in OrderIds : stopReq'[i] <= MaxLevel
<1>2. ASSUME stopReq' = stopReq PROVE Bounded BY <1>2 DEF LevelsBounded
<1>3. ASSUME NEW ids, ClearStops(ids) PROVE Bounded
  BY <1>0, <1>1, <1>3 DEF ClearStops, LevelsBounded
<1>4. ASSUME NEW i \in OrderIds, NEW k \in Lots, NEW n \in Nat, n <= MaxLevel, TrackStop(i, k, n)
      PROVE  Bounded
  BY <1>0, <1>4, TrackStopKeeps DEF LevelsBounded
<1>5. BarStep => Bounded
  <2>1. CloseAccepted \/ CancelSessionStops \/ ModifyRefused => Bounded
    BY <1>3 DEF CloseAccepted, CancelSessionStops, ModifyRefused, CancelStopsOf
  <2>2. ModifyAccepted => Bounded BY <1>1 DEF ModifyAccepted, LevelsBounded
  <2>3. NewStopAccepted => Bounded
    BY <1>0, <1>4, AwaitFacts DEF NewStopAccepted, Sent, LevelsBounded
  <2>4. CloseRefused \/ NewStopRefused \/ ExitRaises \/ NoEntry => Bounded
    BY <1>2 DEF CloseRefused, NewStopRefused, ExitRaises, NoEntry, stopVars, omVars
  <2>5. /\ \A p : ExitDropped(p) => Bounded
        /\ \A p, i : ExitClose(p, i) => Bounded
        /\ \A p, i, n : ExitNewStop(p, i, n) => Bounded
        /\ \A p, i, n, ok : ExitModifyStop(p, i, n, ok) => Bounded
        /\ \A s : BarDispatch(s) => Bounded
        /\ \A l : EvaluateEntry(l) => Bounded
    BY <1>2 DEF ExitDropped, ExitClose, ExitNewStop, ExitModifyStop, BarDispatch, EvaluateEntry,
       stopVars, omVars
  <2> QED BY <2>1, <2>2, <2>3, <2>4, <2>5 DEF BarStep
<1>6. EntryStep => Bounded
  BY <1>2 DEF EntryStep, DropSignal, ProcessSignal, EntryAccepted, EntryRefused, stopVars, omVars
<1>7. FillStep => Bounded
  <2>1. CloseFill \/ StopFill => Bounded BY <1>3 DEF CloseFill, StopFill, CancelStopsOf
  <2>2. FillStopAccepted => Bounded
    <3>1. \A side : FirstLevel(side) \in Nat /\ FirstLevel(side) <= MaxLevel BY FirstLevelType
    <3> QED BY <1>0, <1>4, <3>1, AwaitFacts DEF FillStopAccepted, Sent
  <2>3. UnownedFill \/ EntryFillNoStop \/ FillStopRefused => Bounded
    BY <1>2 DEF UnownedFill, EntryFillNoStop, FillStopRefused, stopVars, omVars
  <2>4. \A j : EntryFill(j) => Bounded BY <1>2 DEF EntryFill, stopVars
  <2> QED BY <2>1, <2>2, <2>3, <2>4 DEF FillStep
<1>8. UpdateStep => Bounded
  <2>1. ASSUME NEW i \in OrderIds, OrderUpdate(i) PROVE Bounded
    <3>1. CASE role[i] = "protective_stop" BY <1>3, <2>1, <3>1 DEF OrderUpdate
    <3>2. CASE role[i] # "protective_stop" BY <1>2, <2>1, <3>2 DEF OrderUpdate, stopVars
    <3> QED BY <3>1, <3>2
  <2> QED BY <2>1 DEF UpdateStep
<1>9. BrokerStep => Bounded BY <1>2 DEF BrokerStep, BrokerEnd, BrokerFill, omVars, stopVars
<1>10. UNCHANGED vars => Bounded BY <1>2 DEF vars, omVars, stopVars
<1>11. Bounded BY <1>5, <1>6, <1>7, <1>8, <1>9, <1>10 DEF Next
<1>12. bar'.level <= MaxLevel
  <2>1. CASE bar' = bar BY <2>1 DEF LevelsBounded
  <2>2. CASE bar'.level = 0 BY <1>0, <2>2
  <2>3. ASSUME NEW p, NEW pc, NEW i, NEW n, n <= MaxLevel, bar' = Await(p, pc, i, n)
        PROVE  bar'.level <= MaxLevel
    <3>1. bar \in BarType BY <1>0, TaskFacts
    <3>2. bar'.level = n BY <2>3, <3>1 DEF Await, BarType
    <3> QED BY <2>3, <3>2
  <2>4. \A rest : GoOn(rest).level = 0 BY DEF GoOn, BarIdle
  <2>5. BarStep => bar'.level <= MaxLevel
    <3>1. /\ \A s : BarDispatch(s) => bar'.level = 0
          /\ \A p : ExitDropped(p) => bar'.level = 0
          /\ \A l : EvaluateEntry(l) => bar'.level = 0
      <4>1. \A p : ExitDropped(p) => bar'.level = 0 BY <2>4 DEF ExitDropped
      <4>2. \A l : EvaluateEntry(l) => bar'.level = 0 BY DEF EvaluateEntry, BarIdle
      <4>3. \A s : BarDispatch(s) => bar'.level = 0 BY DEF BarDispatch, BarIdle
      <4> QED BY <4>1, <4>2, <4>3
    <3>2. CloseAccepted \/ CloseRefused \/ ModifyAccepted \/ ModifyRefused \/ NewStopAccepted
            \/ NewStopRefused \/ ExitRaises \/ NoEntry => bar'.level = 0
      BY <2>4 DEF CloseAccepted, CloseRefused, ModifyAccepted, ModifyRefused, NewStopAccepted,
         NewStopRefused, ExitRaises, NoEntry, Resume, BarIdle
    <3>3. CancelSessionStops => bar' = bar BY DEF CancelSessionStops
    <3>4. \A p, i : ExitClose(p, i) => bar'.level <= MaxLevel
      BY <1>0, <2>3 DEF ExitClose
    <3>5. \A p, i : \A n \in 1..MaxLevel : ExitNewStop(p, i, n) => bar'.level <= MaxLevel
      BY <1>0, <2>3 DEF ExitNewStop
    <3>6. \A p, i, ok : \A n \in 1..MaxLevel : ExitModifyStop(p, i, n, ok) => bar'.level <= MaxLevel
      BY <1>0, <2>3 DEF ExitModifyStop
    <3> QED BY <2>1, <2>2, <3>1, <3>2, <3>3, <3>4, <3>5, <3>6 DEF BarStep
  <2>6. EntryStep \/ FillStep \/ UpdateStep \/ BrokerStep \/ UNCHANGED vars => bar' = bar
    BY DEF EntryStep, DropSignal, ProcessSignal, EntryAccepted, EntryRefused, FillStep,
       UnownedFill, CloseFill, StopFill, EntryFill, EntryFillNoStop, FillStopAccepted,
       FillStopRefused, UpdateStep, OrderUpdate, BrokerStep, BrokerEnd, BrokerFill, vars
  <2> QED BY <2>1, <2>5, <2>6 DEF Next
<1> QED BY <1>11, <1>12 DEF LevelsBounded

-----------------------------------------------------------------------------
(* What a step may do to a lot's cover. *)

Unmoved == UNCHANGED <<lotQty, fillQ>>
StepKinds ==
  \/ orders' = orders /\ Unmoved
  \/ /\ Unmoved
     /\ \E i \in OrderIds, l \in Lots, r \in Roles, side \in Sides, qty \in Nat, level \in Nat :
          Place(i, l, r, side, qty, level)
  \/ \E p \in bar.todo, i \in OrderIds, n \in 1..MaxLevel :
       ExitModifyStop(p, i, n, TRUE) /\ Unmoved
  \/ \E i \in OrderIds : BrokerEnd(i) /\ Unmoved
  \/ \E i \in OrderIds : \E q \in 1..orders[i].left : BrokerFill(i, q) /\ lotQty' = lotQty
  \/ (UnownedFill \/ CloseFill \/ StopFill \/ EntryFillNoStop) /\ orders' = orders
  \/ \E j \in OrderIds : EntryFill(j)

LEMMA EveryStepKind == ASSUME IInv, [Next]_vars PROVE StepKinds
<1>0. TypeOK BY DEF IInv
<1>1. BarStep => StepKinds
  <2>1. ASSUME NEW p \in bar.todo, NEW i \in OrderIds, ExitClose(p, i) PROVE StepKinds
    <3>1. /\ Place(i, p.lot, "close", ExitSide(p.qty), Abs(p.qty), 0) /\ Unmoved
          /\ p.lot \in Lots /\ ExitSide(p.qty) \in Sides /\ Abs(p.qty) \in Nat /\ 0 \in Nat
          /\ "close" \in Roles
      BY <1>0, <2>1, TypeFacts DEF ExitClose, bookVars, Unmoved, Roles
    <3> QED BY <3>1 DEF StepKinds
  <2>2. ASSUME NEW p \in bar.todo, NEW i \in OrderIds, NEW n \in 1..MaxLevel, ExitNewStop(p, i, n)
        PROVE  StepKinds
    <3>1. /\ Place(i, p.lot, "protective_stop", ExitSide(p.qty), Abs(p.qty), n) /\ Unmoved
          /\ p.lot \in Lots /\ ExitSide(p.qty) \in Sides /\ Abs(p.qty) \in Nat /\ n \in Nat
          /\ "protective_stop" \in Roles
      BY <1>0, <2>2, TypeFacts DEF ExitNewStop, bookVars, Unmoved, Roles
    <3> QED BY <3>1 DEF StepKinds
  <2>3. ASSUME NEW p \in bar.todo, NEW i \in OrderIds, NEW n \in 1..MaxLevel, NEW ok \in BOOLEAN,
               ExitModifyStop(p, i, n, ok)
        PROVE  StepKinds
    <3>1. Unmoved BY <2>3 DEF ExitModifyStop, bookVars, Unmoved
    <3>2. CASE ok = TRUE BY <2>3, <3>1, <3>2 DEF StepKinds
    <3>3. CASE ok = FALSE BY <2>3, <3>1, <3>3 DEF StepKinds, ExitModifyStop
    <3> QED BY <3>2, <3>3
  <2>4. CloseAccepted \/ CloseRefused \/ ModifyAccepted \/ ModifyRefused \/ NewStopAccepted
          \/ NewStopRefused \/ ExitRaises \/ NoEntry \/ CancelSessionStops
        => orders' = orders /\ Unmoved
    BY DEF CloseAccepted, CloseRefused, ModifyAccepted, ModifyRefused, NewStopAccepted,
       NewStopRefused, ExitRaises, NoEntry, CancelSessionStops, brokerVars, bookVars, Unmoved
  <2>5. /\ \A p : ExitDropped(p) => orders' = orders /\ Unmoved
        /\ \A s : BarDispatch(s) => orders' = orders /\ Unmoved
        /\ \A l : EvaluateEntry(l) => orders' = orders /\ Unmoved
    BY DEF ExitDropped, BarDispatch, EvaluateEntry, brokerVars, bookVars, Unmoved
  <2>6. orders' = orders /\ Unmoved => StepKinds BY DEF StepKinds
  <2> HIDE DEF StepKinds
  <2> QED BY <2>1, <2>2, <2>3, <2>4, <2>5, <2>6 DEF BarStep
<1>2. EntryStep => StepKinds
  <2>1. DropSignal \/ EntryAccepted \/ EntryRefused => StepKinds
    BY DEF DropSignal, EntryAccepted, EntryRefused, brokerVars, bookVars, Unmoved, StepKinds
  <2>2. ASSUME NEW i \in OrderIds, NEW side \in EntrySides, ProcessSignal(i, side)
        PROVE  StepKinds
    <3>1. PICK l \in Lots : l = Head(queue)
      BY <1>0, <2>2, HeadQueue, TypeFacts DEF ProcessSignal
    <3>2. /\ Place(i, l, "entry", side, OrderQty, 0) /\ Unmoved
          /\ side \in Sides /\ OrderQty \in Nat /\ 0 \in Nat /\ "entry" \in Roles
      BY <1>0, <2>2, <3>1, TypeFacts DEF ProcessSignal, bookVars, Unmoved, Roles
    <3> QED BY <3>2 DEF StepKinds
  <2> QED BY <2>1, <2>2 DEF EntryStep
<1>3. FillStep => StepKinds
  <2>1. UnownedFill \/ CloseFill \/ StopFill \/ EntryFillNoStop => orders' = orders
    BY DEF UnownedFill, CloseFill, StopFill, EntryFillNoStop
  <2>2. FillStopAccepted \/ FillStopRefused => orders' = orders /\ Unmoved
    BY DEF FillStopAccepted, FillStopRefused, brokerVars, bookVars, Unmoved
  <2> QED BY <2>1, <2>2 DEF FillStep, StepKinds
<1>4. UpdateStep => StepKinds
  BY DEF UpdateStep, OrderUpdate, bookVars, Unmoved, StepKinds
<1>5. BrokerStep => StepKinds
  <2>1. \A i \in OrderIds : BrokerEnd(i) => Unmoved BY DEF BrokerEnd, bookVars, Unmoved
  <2>2. \A i \in OrderIds : \A q \in 1..orders[i].left : BrokerFill(i, q) => lotQty' = lotQty
    BY DEF BrokerFill, bookVars
  <2> QED BY <2>1, <2>2 DEF BrokerStep, StepKinds
<1>6. UNCHANGED vars => StepKinds BY DEF vars, bookVars, brokerVars, Unmoved, StepKinds
<1> QED BY <1>1, <1>2, <1>3, <1>4, <1>5, <1>6 DEF Next

(* What counts against a lot only grows.                                    *)
LEMMA RevokedGrows ==
  ASSUME IInv, [Next]_vars PROVE raised \subseteq raised' /\ cancelReq \subseteq cancelReq'
<1>1. BarStep => raised' = raised /\ cancelReq \subseteq cancelReq'
  <2>1. CloseAccepted \/ CancelSessionStops => raised' = raised /\ cancelReq \subseteq cancelReq'
    BY DEF CloseAccepted, CancelSessionStops, CancelStopsOf
  <2>2. CloseRefused \/ ModifyAccepted \/ ModifyRefused \/ NewStopAccepted
          \/ NewStopRefused \/ ExitRaises \/ NoEntry => raised' = raised /\ cancelReq' = cancelReq
    BY DEF CloseRefused, ModifyAccepted, ModifyRefused, NewStopAccepted,
       NewStopRefused, ExitRaises, NoEntry, brokerVars
  <2>3. /\ \A p : ExitDropped(p) => raised' = raised /\ cancelReq' = cancelReq
        /\ \A p, i : ExitClose(p, i) => raised' = raised /\ cancelReq' = cancelReq
        /\ \A p, i, n : ExitNewStop(p, i, n) => raised' = raised /\ cancelReq' = cancelReq
        /\ \A p, i, n, ok : ExitModifyStop(p, i, n, ok) => raised' = raised /\ cancelReq' = cancelReq
        /\ \A s : BarDispatch(s) => raised' = raised /\ cancelReq' = cancelReq
        /\ \A l : EvaluateEntry(l) => raised' = raised /\ cancelReq' = cancelReq
    BY DEF ExitDropped, ExitClose, ExitNewStop, ExitModifyStop, BarDispatch, EvaluateEntry,
       brokerVars
  <2> QED BY <2>1, <2>2, <2>3 DEF BarStep
<1>2. EntryStep => raised' = raised /\ cancelReq' = cancelReq
  BY DEF EntryStep, DropSignal, ProcessSignal, EntryAccepted, EntryRefused, brokerVars
<1>3. FillStep => raised \subseteq raised' /\ cancelReq \subseteq cancelReq'
  BY DEF FillStep, UnownedFill, CloseFill, StopFill, EntryFill, EntryFillNoStop,
     FillStopAccepted, FillStopRefused, CancelStopsOf, brokerVars
<1>4. UpdateStep \/ BrokerStep \/ UNCHANGED vars => raised' = raised /\ cancelReq' = cancelReq
  BY DEF UpdateStep, OrderUpdate, BrokerStep, BrokerEnd, BrokerFill, vars, brokerVars
<1> QED BY <1>1, <1>2, <1>3, <1>4 DEF Next

(* So a lot that stands after a step stood before it, if the step kept the  *)
(* sides of its orders and the prices of its stops.                         *)
KeptFor(k) ==
  \A i \in OrderIds : orders[i].status # "unsent" =>
    /\ orders'[i].side = orders[i].side
    /\ Sent(i, k, "protective_stop") => orders'[i].level = orders[i].level

LEMMA StandingBack ==
  ASSUME IInv, [Next]_vars, NEW k \in Lots, NEW d \in Sides, KeptFor(k), Standing(k, d)'
  PROVE  Standing(k, d)
<1>1. raised \subseteq raised' /\ cancelReq \subseteq cancelReq' BY RevokedGrows
<1>2. k \notin raised BY <1>1 DEF Standing
<1>3. ASSUME NEW i \in OrderIds PROVE EntersOn(i, k, d)
  <2> SUFFICES ASSUME Sent(i, k, "entry") PROVE orders[i].side = d BY DEF EntersOn
  <2>1. Sent(i, k, "entry")' BY SentKeeps DEF IInv
  <2>2. orders'[i].side = d BY <2>1 DEF Standing, EntersOn
  <2> QED BY <2>2 DEF KeptFor, Sent
<1>4. ASSUME NEW i \in OrderIds PROVE LeavesFrom(i, k, d)
  <2> SUFFICES ASSUME NEW r \in ExitRoles, Sent(i, k, r)
               PROVE  /\ orders[i].side = -d /\ ~Revoked(i)
                      /\ orders[i].role = "protective_stop" => orders[i].level = FirstLevel(-d)
    BY DEF LeavesFrom
  <2>1. Sent(i, k, r)' /\ Kept(i) BY SentKeeps, OrdersKeep DEF IInv, Sent
  <2>2. /\ orders'[i].side = -d /\ ~Revoked(i)'
        /\ orders'[i].role = "protective_stop" => orders'[i].level = FirstLevel(-d)
    BY <2>1 DEF Standing, LeavesFrom
  <2>3. ~Revoked(i) BY <1>1, <2>1, <2>2 DEF Revoked, Kept
  <2>4. orders'[i].side = orders[i].side BY DEF KeptFor, Sent
  <2>5. orders[i].role = "protective_stop"
          => orders'[i].level = orders[i].level /\ orders'[i].role = "protective_stop"
    BY <2>1 DEF KeptFor, Sent, Kept
  <2> QED BY <2>2, <2>3, <2>4, <2>5
<1> QED BY <1>2, <1>3, <1>4 DEF Standing

(* A lot with a trade id keeps its cover, kind by kind.                     *)
CoverKept(k, d) == Standing(k, d)' => Standing(k, d) /\ (Covered(k, d) => Covered(k, d)')

LEMMA Signed ==
  \A d \in Sides, a, b \in Int : /\ d * (a + d * b) = d * a + b
                                 /\ d * (a + (-d) * b) = d * a - b
                                 /\ d * a \in Int
<1> SUFFICES ASSUME NEW d \in Sides, NEW a \in Int, NEW b \in Int
             PROVE  /\ d * (a + d * b) = d * a + b
                    /\ d * (a + (-d) * b) = d * a - b
                    /\ d * a \in Int
  OBVIOUS
<1>1. CASE d = 1 BY <1>1
<1>2. CASE d = -1 BY <1>2
<1> QED BY <1>1, <1>2 DEF Sides

LEMMA MoreIsCover ==
  ASSUME IInv, IInv', NEW k \in Lots, NEW d \in Sides, lotQty' = lotQty,
         WorkTotal(k)' + QueuedTotal(k)' >= WorkTotal(k) + QueuedTotal(k)
  PROVE  Covered(k, d) => Covered(k, d)'
<1>1. TypeOK /\ TypeOK' BY DEF IInv
<1>2. lotQty[k] \in Int BY <1>1 DEF TypeOK, BookType
<1>3. d * lotQty[k] \in Int BY <1>2, Signed
<1>4. /\ WorkTotal(k) \in Nat /\ QueuedTotal(k) \in Nat
      /\ WorkTotal(k)' \in Nat /\ QueuedTotal(k)' \in Nat
  BY <1>1, SumsType, SumsTypeNext DEF SumsTyped
<1> QED BY <1>3, <1>4 DEF Covered

LEMMA RestKeepsCover ==
  ASSUME IInv, IInv', [Next]_vars, NEW k \in Lots, NEW d \in Sides, orders' = orders, Unmoved
  PROVE  CoverKept(k, d)
<1>1. TypeOK /\ TypeOK' BY DEF IInv
<1>2. WorkTotal(k)' = WorkTotal(k)
  <2>1. \A i \in OrderIds : AtWork(k)'[i] = AtWork(k)[i] BY DEF AtWork, StopsAtWork
  <2> QED BY <1>1, <2>1, WorkSame
<1>3. QueuedTotal(k)' = QueuedTotal(k) BY QueuedSame DEF Unmoved
<1>4. KeptFor(k) BY DEF KeptFor
<1>5. Covered(k, d) => Covered(k, d)'
  <2>1. WorkTotal(k) \in Nat /\ QueuedTotal(k) \in Nat BY <1>1, SumsType DEF SumsTyped
  <2> QED BY <1>2, <1>3, <2>1, MoreIsCover DEF Unmoved
<1> QED BY <1>4, <1>5, StandingBack DEF CoverKept

LEMMA PlaceKeepsCover ==
  ASSUME IInv, IInv', [Next]_vars, NEW k \in Lots, NEW d \in Sides, Unmoved,
         NEW i, NEW l, NEW r, NEW side, NEW qty, NEW level, Place(i, l, r, side, qty, level)
  PROVE  CoverKept(k, d)
<1>1. TypeOK /\ TypeOK' /\ FreshIds BY DEF IInv
<1>2. /\ i \in OrderIds /\ orders[i].status = "unsent"
      /\ \A j \in OrderIds : j # i => orders'[j] = orders[j]
  BY <1>1, PlaceKeeps
<1>3. KeptFor(k) BY <1>2 DEF KeptFor
<1>4. WorkTotal(k)' = WorkTotal(k) - AtWork(k)[i] + AtWork(k)'[i]
  <2>1. \A j \in OrderIds : j # i => AtWork(k)'[j] = AtWork(k)[j]
    BY <1>2 DEF AtWork, StopsAtWork
  <2> QED BY <1>1, <1>2, <2>1, WorkChanges
<1>5. AtWork(k)[i] = 0 BY <1>2 DEF AtWork, StopsAtWork
<1>6. QueuedTotal(k)' = QueuedTotal(k) BY QueuedSame DEF Unmoved
<1>7. /\ AtWork(k)'[i] \in Nat /\ WorkTotal(k) \in Nat /\ QueuedTotal(k) \in Nat
  BY <1>1, <1>2, SumsType, SumsTypeNext DEF SumsTyped
<1>8. Covered(k, d) => Covered(k, d)'
  <2>1. WorkTotal(k)' + QueuedTotal(k)' >= WorkTotal(k) + QueuedTotal(k)
    BY <1>4, <1>5, <1>6, <1>7
  <2> QED BY <2>1, MoreIsCover DEF Unmoved
<1> QED BY <1>3, <1>8, StandingBack DEF CoverKept

(* A stop that is tightened leaves its lot without a claim: its price is    *)
(* compared with one that is at least the first.                            *)
LEMMA TightenedIsNotFirst ==
  ASSUME LevelsBounded, TypeOK, NEW i \in OrderIds, stopReq[i] # 0,
         NEW side \in Sides, NEW n \in Nat, Improves(side, n, stopReq[i])
  PROVE  n # FirstLevel(side)
<1>1. stopReq[i] \in Nat /\ MaxLevel \in Nat /\ stopReq[i] <= MaxLevel
  BY ConstantsAssumption DEF LevelsBounded, TypeOK, OrderManagerType, ConstantsAssumption
<1> QED BY <1>1 DEF Improves, FirstLevel

LEMMA ModifyKeepsCover ==
  ASSUME IInv, IInv', [Next]_vars, LevelsBounded, NEW k \in Lots, NEW d \in Sides, Unmoved,
         NEW p \in bar.todo, NEW i \in OrderIds, NEW n \in 1..MaxLevel,
         ExitModifyStop(p, i, n, TRUE)
  PROVE  CoverKept(k, d)
<1> SUFFICES ASSUME Standing(k, d)' PROVE Standing(k, d) /\ (Covered(k, d) => Covered(k, d)')
  BY DEF CoverKept
<1>1. TypeOK /\ TypeOK' BY DEF IInv
<1>2. /\ BrokerModifies(i, ExitSide(p.qty), Abs(p.qty), n) /\ Abs(p.qty) \in Nat /\ n \in Nat
      /\ orders[i].side = ExitSide(p.qty) /\ ExitSide(p.qty) \in Sides
      /\ Improves(ExitSide(p.qty), n, stopReq[i]) /\ stopReq[i] # 0
  BY <1>1, TypeFacts DEF ExitModifyStop, BrokerModifies, IsActiveStop, ActiveStops
<1>3. /\ orders[i].status = "working" /\ orders'[i].status = "working"
      /\ orders'[i].lot = orders[i].lot /\ orders'[i].role = orders[i].role
      /\ \A j \in OrderIds : j # i => orders'[j] = orders[j]
  BY <1>1, <1>2, ModifyKeeps
<1>4. orders'[i].side = orders[i].side /\ orders'[i].level = n BY <1>1, <1>2, ModifySides
<1>5. ~ (orders[i].lot = k /\ orders[i].role = "protective_stop")
  <2> SUFFICES ASSUME orders[i].lot = k, orders[i].role = "protective_stop" PROVE FALSE OBVIOUS
  <2>1. Sent(i, k, "protective_stop")' BY <1>3 DEF Sent
  <2>2. orders'[i].side = -d /\ orders'[i].level = FirstLevel(-d)
    BY <1>3, <2>1 DEF Standing, LeavesFrom, ExitRoles
  <2>3. n # FirstLevel(ExitSide(p.qty)) BY <1>1, <1>2, TightenedIsNotFirst
  <2> QED BY <1>2, <1>4, <2>2, <2>3
<1>6. KeptFor(k) BY <1>3, <1>4, <1>5 DEF KeptFor, Sent
<1>7. WorkTotal(k)' = WorkTotal(k)
  <2>1. \A j \in OrderIds : AtWork(k)'[j] = AtWork(k)[j]
    BY <1>3, <1>5 DEF AtWork, StopsAtWork
  <2> QED BY <1>1, <2>1, WorkSame
<1>8. QueuedTotal(k)' = QueuedTotal(k) BY QueuedSame DEF Unmoved
<1>9. Covered(k, d) => Covered(k, d)'
  <2>1. WorkTotal(k) \in Nat /\ QueuedTotal(k) \in Nat BY <1>1, SumsType DEF SumsTyped
  <2> QED BY <1>7, <1>8, <2>1, MoreIsCover DEF Unmoved
<1> QED BY <1>6, <1>9, StandingBack

LEMMA EndKeepsCover ==
  ASSUME IInv, IInv', [Next]_vars, NEW k \in Lots, NEW d \in Sides, Unmoved,
         NEW i \in OrderIds, BrokerEnd(i)
  PROVE  CoverKept(k, d)
<1> SUFFICES ASSUME Standing(k, d)' PROVE Standing(k, d) /\ (Covered(k, d) => Covered(k, d)')
  BY DEF CoverKept
<1>1. TypeOK /\ TypeOK' BY DEF IInv
<1>2. /\ orders[i].status = "working" /\ orders'[i].status = "dead"
      /\ orders'[i].lot = orders[i].lot /\ orders'[i].role = orders[i].role
      /\ \A j \in OrderIds : j # i => orders'[j] = orders[j]
  BY <1>1, EndKeeps
<1>3. KeptFor(k)
  <2>1. BrokerStep BY DEF BrokerStep
  <2> QED BY <1>1, <2>1, BrokerSides DEF KeptFor, SamePrice
<1>4. ~ (orders[i].lot = k /\ orders[i].role = "protective_stop")
  <2> SUFFICES ASSUME orders[i].lot = k, orders[i].role = "protective_stop" PROVE FALSE OBVIOUS
  <2>1. Sent(i, k, "protective_stop")' BY <1>2 DEF Sent
  <2>2. ~Revoked(i)' BY <2>1 DEF Standing, LeavesFrom, ExitRoles
  <2> QED BY <1>2, <2>2 DEF Revoked
<1>5. WorkTotal(k)' = WorkTotal(k)
  <2>1. \A j \in OrderIds : AtWork(k)'[j] = AtWork(k)[j]
    BY <1>2, <1>4 DEF AtWork, StopsAtWork
  <2> QED BY <1>1, <2>1, WorkSame
<1>6. QueuedTotal(k)' = QueuedTotal(k) BY QueuedSame DEF Unmoved
<1>7. Covered(k, d) => Covered(k, d)'
  <2>1. WorkTotal(k) \in Nat /\ QueuedTotal(k) \in Nat BY <1>1, SumsType DEF SumsTyped
  <2> QED BY <1>5, <1>6, <2>1, MoreIsCover DEF Unmoved
<1> QED BY <1>3, <1>7, StandingBack

(* A fill of a stop leaves the order for the queue; any other only adds.    *)
LEMMA FillKeepsCover ==
  ASSUME IInv, IInv', [Next]_vars, NEW k \in Lots, NEW d \in Sides, lotQty' = lotQty,
         NEW i \in OrderIds, NEW q \in 1..orders[i].left, BrokerFill(i, q)
  PROVE  CoverKept(k, d)
<1>1. TypeOK /\ TypeOK' BY DEF IInv
<1>2. /\ orders[i].status = "working" /\ orders'[i].lot = orders[i].lot
      /\ orders'[i].role = orders[i].role /\ q \in Nat
      /\ \A j \in OrderIds : j # i => orders'[j] = orders[j]
  BY <1>1, FillKeeps
<1>3. KeptFor(k)
  <2>1. BrokerStep BY DEF BrokerStep
  <2> QED BY <1>1, <2>1, BrokerSides DEF KeptFor, SamePrice
<1>4. /\ orders'[i].left = orders[i].left - q
      /\ orders'[i].status = IF q = orders[i].left THEN "filled" ELSE "working"
  <2> DEFINE st == IF q = orders[i].left THEN "filled" ELSE "working"
  <2>1. orders' = [orders EXCEPT ![i] = [orders[i] EXCEPT !.left = @ - q, !.done = @ + q, !.status = st]]
    BY <1>2 DEF BrokerFill
  <2>2. orders \in [OrderIds -> OrderType] /\ orders[i] \in OrderType
    BY <1>1, OrderFacts DEF TypeOK, BrokerType
  <2> HIDE DEF st
  <2>3. orders'[i].left = orders[i].left - q /\ orders'[i].status = st
    BY <2>1, <2>2 DEF OrderType
  <2> QED BY <2>3 DEF st
<1>5. WorkTotal(k)' = WorkTotal(k) - AtWork(k)[i] + AtWork(k)'[i]
  <2>1. \A j \in OrderIds : j # i => AtWork(k)'[j] = AtWork(k)[j]
    BY <1>2 DEF AtWork, StopsAtWork
  <2> QED BY <1>1, <2>1, WorkChanges
<1>6. QueuedTotal(k)' = QueuedTotal(k) + (IF i \in Exits(k) THEN q ELSE 0)
  <2>1. fillQ' = Append(fillQ, [id |-> i, qty |-> q]) BY DEF BrokerFill
  <2>2. orders[i].status # "unsent" BY <1>2
  <2> QED BY <1>1, <1>2, <2>1, <2>2, QueuedAppend
<1>7. \/ AtWork(k)'[i] = AtWork(k)[i] - q /\ i \in Exits(k)
      \/ AtWork(k)'[i] = AtWork(k)[i]
  <2>1. CASE i \in StopsAtWork(k)
    <3>1. AtWork(k)[i] = orders[i].left BY <2>1 DEF AtWork
    <3>2. i \in Exits(k) BY <1>2, <2>1 DEF StopsAtWork, Exits, Sent, ExitRoles
    <3>3. AtWork(k)'[i] = orders[i].left - q
      <4>1. CASE q = orders[i].left
        <5>1. i \notin StopsAtWork(k)' BY <1>4, <4>1 DEF StopsAtWork
        <5>2. orders[i].left - q = 0 BY <1>2, <4>1
        <5> QED BY <5>1, <5>2 DEF AtWork
      <4>2. CASE q # orders[i].left
        <5>1. i \in StopsAtWork(k)' BY <1>2, <1>4, <2>1, <4>2 DEF StopsAtWork
        <5> QED BY <1>4, <5>1 DEF AtWork
      <4> QED BY <4>1, <4>2
    <3> QED BY <3>1, <3>2, <3>3
  <2>2. CASE i \notin StopsAtWork(k)
    <3>1. i \notin StopsAtWork(k)' BY <1>2, <2>2 DEF StopsAtWork
    <3> QED BY <2>2, <3>1 DEF AtWork
  <2> QED BY <2>1, <2>2
<1>8. Covered(k, d) => Covered(k, d)'
  <2>1. /\ AtWork(k)[i] \in Nat /\ AtWork(k)'[i] \in Nat
        /\ WorkTotal(k) \in Nat /\ QueuedTotal(k) \in Nat
    BY <1>1, SumsType, SumsTypeNext DEF SumsTyped
  <2>2. WorkTotal(k)' + QueuedTotal(k)' >= WorkTotal(k) + QueuedTotal(k)
    BY <1>2, <1>5, <1>6, <1>7, <2>1
  <2> QED BY <2>2, MoreIsCover
<1> QED BY <1>3, <1>8, StandingBack DEF CoverKept

(* What drain_fills does to a lot when it books a fill: an entry of the lot *)
(* adds to it, an exit takes as much from it as leaves the queue.           *)
LEMMA BookedFor ==
  ASSUME IInv, IInv', OwnersTrue, [Next]_vars, NEW k \in Lots, k[2] # NoTrade, NEW d \in Sides,
         Standing(k, d), NEW r \in Roles \cup {"none"}, TakeFill(r)
  PROVE  LET q == Head(fillQ).qty
             entered == owner[Head(fillQ).id] = k /\ r = "entry" IN
         /\ q \in Nat
         /\ entered => /\ orders[Head(fillQ).id].side = d
                       /\ d * lotQty'[k] = d * lotQty[k] + q
                       /\ QueuedTotal(k)' = QueuedTotal(k)
         /\ ~entered => d * lotQty'[k] - QueuedTotal(k)' = d * lotQty[k] - QueuedTotal(k)
<1> DEFINE f == Head(fillQ)
           s == orders[f.id].side
<1>1. TypeOK /\ TypeOK' /\ RolesOwned /\ QueuesTrue /\ SentTracked /\ NoLot \notin Lots
  BY TypeFacts DEF IInv
<1>2. f.id \in OrderIds /\ f.qty \in Nat /\ fillQ # <<>> /\ role[f.id] = r
  BY <1>1, HeadFill DEF TakeFill
<1>3. orders[f.id].status # "unsent"
  <2>1. fillQ \in Seq(FillType) BY <1>1 DEF TypeOK, BrokerType
  <2>2. 1 \in DOMAIN fillQ /\ f = fillQ[1] BY <1>2, <2>1
  <2> QED BY <1>1, <2>2 DEF QueuesTrue
<1>4. lotQty[k] \in Int /\ QueuedTotal(k) \in Nat /\ QueuedTotal(k)' \in Nat
  BY <1>1, SumsType, SumsTypeNext DEF SumsTyped, TypeOK, BookType
<1>5. lotQty'[k] = IF k = owner[f.id] THEN lotQty[k] + s * f.qty ELSE lotQty[k]
  BY DEF TakeFill, BookFill
<1>6. QueuedTotal(k)' = QueuedTotal(k) - (IF f.id \in Exits(k) THEN f.qty ELSE 0)
  <2>1. fillQ' = Tail(fillQ) BY DEF TakeFill
  <2> QED BY <1>1, <1>2, <2>1, QueuedTail
<1> HIDE DEF f, s
<1>7. CASE owner[f.id] = k /\ r = "entry"
  <2>1. Sent(f.id, k, "entry") BY <1>1, <1>2, <1>7 DEF OwnersTrue
  <2>2. s = d BY <1>2, <2>1 DEF Standing, EntersOn, s
  <2>3. f.id \notin Exits(k) BY <2>1 DEF Exits, Sent, ExitRoles
  <2>4. d * lotQty'[k] = d * lotQty[k] + f.qty
    <3>1. lotQty'[k] = lotQty[k] + d * f.qty BY <1>5, <1>7, <2>2
    <3>2. PICK a, b : a = lotQty[k] /\ b = f.qty OBVIOUS
    <3>3. a \in Int /\ b \in Int BY <1>2, <1>4, <3>2
    <3>4. d * (a + d * b) = d * a + b BY <3>3, Signed
    <3> QED BY <3>1, <3>2, <3>4
  <2>5. QueuedTotal(k)' = QueuedTotal(k) BY <1>4, <1>6, <2>3
  <2> QED BY <1>2, <1>7, <2>2, <2>4, <2>5 DEF f, s
<1>8. CASE owner[f.id] = k /\ r # "entry"
  <2>1. Sent(f.id, k, r) BY <1>1, <1>2, <1>8 DEF OwnersTrue
  <2>2. r \in ExitRoles BY <1>1, <1>2, <1>8 DEF RolesOwned, Roles, ExitRoles
  <2>3. s = -d BY <1>2, <2>1, <2>2 DEF Standing, LeavesFrom, s
  <2>4. f.id \in Exits(k) BY <1>2, <2>1, <2>2 DEF Exits
  <2>5. d * lotQty'[k] = d * lotQty[k] - f.qty
    <3>1. lotQty'[k] = lotQty[k] + (-d) * f.qty BY <1>5, <1>8, <2>3
    <3>2. PICK a, b : a = lotQty[k] /\ b = f.qty OBVIOUS
    <3>3. a \in Int /\ b \in Int BY <1>2, <1>4, <3>2
    <3>4. d * (a + (-d) * b) = d * a - b BY <3>3, Signed
    <3> QED BY <3>1, <3>2, <3>4
  <2>6. d * lotQty[k] \in Int BY <1>4, Signed
  <2>7. d * lotQty'[k] - QueuedTotal(k)' = d * lotQty[k] - QueuedTotal(k)
    BY <1>2, <1>4, <1>6, <2>4, <2>5, <2>6
  <2> QED BY <1>2, <1>8, <2>7 DEF f
<1>9. CASE owner[f.id] # k
  <2>1. f.id \notin Exits(k)
    <3> SUFFICES ASSUME NEW x \in ExitRoles, Sent(f.id, k, x) PROVE FALSE BY DEF Exits
    <3>1. ~Revoked(f.id) BY <1>2 DEF Standing, LeavesFrom
    <3>2. orders[f.id].status \in {"working", "filled"}
      <4>1. orders[f.id].status \in Statuses BY <1>1, <1>2, OrderFacts DEF OrderType
      <4> QED BY <1>3, <3>1, <4>1 DEF Revoked, Statuses
    <3>3. owner[f.id] = k BY <1>1, <1>2, <3>2 DEF SentTracked, Sent
    <3> QED BY <1>9, <3>3
  <2>2. lotQty'[k] = lotQty[k] /\ QueuedTotal(k)' = QueuedTotal(k) BY <1>4, <1>5, <1>6, <1>9, <2>1
  <2> QED BY <1>2, <1>9, <2>2 DEF f
<1> QED BY <1>7, <1>8, <1>9

(* Booking a fill without sending a stop keeps the cover: an entry of a     *)
(* protected lot whose stop could not be sent leaves the lot no claim.      *)
LEMMA BookKeepsCover ==
  ASSUME IInv, IInv', OwnersTrue, [Next]_vars, NEW k \in Lots, k[2] # NoTrade, NEW d \in Sides,
         k[1] \in Protected, orders' = orders,
         UnownedFill \/ CloseFill \/ StopFill \/ EntryFillNoStop
  PROVE  CoverKept(k, d)
<1> SUFFICES ASSUME Standing(k, d)' PROVE Standing(k, d) /\ (Covered(k, d) => Covered(k, d)')
  BY DEF CoverKept
<1>1. TypeOK /\ TypeOK' BY DEF IInv
<1>2. KeptFor(k) BY DEF KeptFor
<1>3. Standing(k, d) BY <1>2, StandingBack
<1>4. PICK r \in Roles \cup {"none"} : TakeFill(r) /\ (r = "entry" => EntryFillNoStop)
  <2>1. UnownedFill => TakeFill("none") BY DEF UnownedFill
  <2>2. CloseFill => TakeFill("close") BY DEF CloseFill
  <2>3. StopFill => TakeFill("protective_stop") BY DEF StopFill
  <2>4. EntryFillNoStop => TakeFill("entry") BY DEF EntryFillNoStop
  <2> QED BY <2>1, <2>2, <2>3, <2>4 DEF Roles
<1>5. ~ (owner[Head(fillQ).id] = k /\ r = "entry")
  <2>1. EntryFillNoStop /\ owner[Head(fillQ).id] = k => k \in raised' BY DEF EntryFillNoStop
  <2> QED BY <1>4, <2>1 DEF Standing
<1>6. d * lotQty'[k] - QueuedTotal(k)' = d * lotQty[k] - QueuedTotal(k)
  BY <1>3, <1>4, <1>5, BookedFor
<1>7. WorkTotal(k)' = WorkTotal(k)
  <2>1. \A i \in OrderIds : AtWork(k)'[i] = AtWork(k)[i] BY DEF AtWork, StopsAtWork
  <2> QED BY <1>1, <2>1, WorkSame
<1>8. /\ WorkTotal(k) \in Nat /\ QueuedTotal(k) \in Nat /\ QueuedTotal(k)' \in Nat
      /\ d * lotQty[k] \in Int /\ d * lotQty'[k] \in Int
  <2>1. lotQty[k] \in Int /\ lotQty'[k] \in Int BY <1>1 DEF TypeOK, BookType
  <2> QED BY <1>1, <2>1, Signed, SumsType, SumsTypeNext DEF SumsTyped
<1>9. Covered(k, d) => Covered(k, d)' BY <1>6, <1>7, <1>8 DEF Covered
<1> QED BY <1>3, <1>9

(* _submit_protective_stop sends a stop for as much as the fill added.      *)
LEMMA EntryKeepsCover ==
  ASSUME IInv, IInv', OwnersTrue, [Next]_vars, NEW k \in Lots, k[2] # NoTrade, NEW d \in Sides,
         NEW j \in OrderIds, EntryFill(j)
  PROVE  CoverKept(k, d)
<1> SUFFICES ASSUME Standing(k, d)' PROVE Standing(k, d) /\ (Covered(k, d) => Covered(k, d)')
  BY DEF CoverKept
<1>1. TypeOK /\ TypeOK' /\ FreshIds BY DEF IInv
<1>2. PICK l, side, qty, level :
        /\ l = owner[Head(fillQ).id] /\ qty = Head(fillQ).qty
        /\ Place(j, l, "protective_stop", side, qty, level)
  BY DEF EntryFill
<1>3. /\ orders[j].status = "unsent"
      /\ \A i \in OrderIds : i # j => orders'[i] = orders[i]
  BY <1>1, <1>2, PlaceKeeps
<1>4. /\ orders'[j].status = "working" /\ orders'[j].lot = l /\ orders'[j].left = qty
      /\ orders'[j].role = "protective_stop"
  <2>1. orders \in [OrderIds -> OrderType] BY <1>1 DEF TypeOK, BrokerType
  <2>2. orders'[j] = [status |-> "working", lot |-> l, role |-> "protective_stop",
                      side |-> side, left |-> qty, done |-> 0, level |-> level]
    BY <1>2, <2>1 DEF Place
  <2> QED BY <2>2
<1>5. KeptFor(k) BY <1>3 DEF KeptFor
<1>6. Standing(k, d) BY <1>5, StandingBack
<1>7. TakeFill("entry") /\ "entry" \in Roles \cup {"none"} BY DEF EntryFill, Roles
<1>8. /\ qty \in Nat
      /\ l = k => d * lotQty'[k] = d * lotQty[k] + qty /\ QueuedTotal(k)' = QueuedTotal(k)
      /\ l # k => d * lotQty'[k] - QueuedTotal(k)' = d * lotQty[k] - QueuedTotal(k)
  BY <1>2, <1>6, <1>7, BookedFor
<1>9. WorkTotal(k)' = WorkTotal(k) - AtWork(k)[j] + AtWork(k)'[j]
  <2>1. \A i \in OrderIds : i # j => AtWork(k)'[i] = AtWork(k)[i]
    BY <1>3 DEF AtWork, StopsAtWork
  <2> QED BY <1>1, <2>1, WorkChanges
<1>10. AtWork(k)[j] = 0 /\ AtWork(k)'[j] = IF l = k THEN qty ELSE 0
  <2>1. AtWork(k)[j] = 0 BY <1>3 DEF AtWork, StopsAtWork
  <2>2. j \in StopsAtWork(k)' <=> l = k BY <1>4 DEF StopsAtWork
  <2>3. AtWork(k)'[j] = IF l = k THEN qty ELSE 0 BY <1>4, <2>2 DEF AtWork
  <2> QED BY <2>1, <2>3
<1>11. /\ WorkTotal(k) \in Nat /\ QueuedTotal(k) \in Nat /\ QueuedTotal(k)' \in Nat
       /\ d * lotQty[k] \in Int /\ d * lotQty'[k] \in Int
  <2>1. lotQty[k] \in Int /\ lotQty'[k] \in Int BY <1>1 DEF TypeOK, BookType
  <2> QED BY <1>1, <2>1, Signed, SumsType, SumsTypeNext DEF SumsTyped
<1>12. Covered(k, d) => Covered(k, d)'
  <2>1. CASE l = k BY <1>8, <1>9, <1>10, <1>11, <2>1 DEF Covered
  <2>2. CASE l # k BY <1>8, <1>9, <1>10, <1>11, <2>2 DEF Covered
  <2> QED BY <2>1, <2>2
<1> QED BY <1>6, <1>12

-----------------------------------------------------------------------------
(* The invariant. *)

LEMMA NoTradeStep == ASSUME IInv, NoTradeEmpty, [Next]_vars PROVE NoTradeEmpty'
<1>1. lotQty' = lotQty => NoTradeEmpty' BY DEF NoTradeEmpty
<1>2. \A r : TakeFill(r) => NoTradeEmpty' BY DEF TakeFill, BookFill, NoTradeEmpty
<1>3. StepKinds BY EveryStepKind
<1> QED BY <1>1, <1>2, <1>3 DEF StepKinds, Unmoved, UnownedFill, CloseFill, StopFill, EntryFill,
        EntryFillNoStop

LEMMA CoverStep == ASSUME IInv, IInv', CoverInv, [Next]_vars PROVE CoverInv'
<1>1. OwnersTrue' /\ LevelsBounded' /\ NoTradeEmpty'
  BY OwnersStep, LevelsStep, NoTradeStep DEF CoverInv
<1> SUFFICES ASSUME NEW k \in Lots, NEW d \in Sides, Claimed(k, d)' PROVE Covered(k, d)'
  BY <1>1 DEF CoverInv
<1>2. Standing(k, d)' /\ k[1] \in Protected /\ k # AdoptedLot BY DEF Claimed
<1>3. CASE k[2] = NoTrade
  <2>1. lotQty'[k] = 0 BY <1>1, <1>3 DEF NoTradeEmpty
  <2>2. WorkTotal(k)' \in Nat /\ QueuedTotal(k)' \in Nat BY SumsTypeNext DEF SumsTyped, IInv
  <2>3. d * lotQty'[k] = 0 BY <2>1 DEF Sides
  <2> QED BY <2>2, <2>3 DEF Covered
<1>4. CASE k[2] # NoTrade
  <2>1. CoverKept(k, d)
    <3>1. CASE orders' = orders /\ Unmoved BY <3>1, RestKeepsCover
    <3>2. ASSUME Unmoved, NEW i, NEW l, NEW r, NEW side, NEW qty, NEW level,
                 Place(i, l, r, side, qty, level)
          PROVE  CoverKept(k, d)
      BY <3>2, PlaceKeepsCover
    <3>3. ASSUME NEW p \in bar.todo, NEW i \in OrderIds, NEW n \in 1..MaxLevel,
                 ExitModifyStop(p, i, n, TRUE), Unmoved
          PROVE  CoverKept(k, d)
      BY <3>3, ModifyKeepsCover DEF CoverInv
    <3>4. ASSUME NEW i \in OrderIds, BrokerEnd(i), Unmoved PROVE CoverKept(k, d)
      BY <3>4, EndKeepsCover
    <3>5. ASSUME NEW i \in OrderIds, NEW q \in 1..orders[i].left, BrokerFill(i, q),
                 lotQty' = lotQty
          PROVE  CoverKept(k, d)
      BY <3>5, FillKeepsCover
    <3>6. CASE (UnownedFill \/ CloseFill \/ StopFill \/ EntryFillNoStop) /\ orders' = orders
      BY <1>2, <1>4, <3>6, BookKeepsCover DEF CoverInv
    <3>7. ASSUME NEW j \in OrderIds, EntryFill(j) PROVE CoverKept(k, d)
      BY <1>4, <3>7, EntryKeepsCover DEF CoverInv
    <3>8. StepKinds BY EveryStepKind
    <3> QED BY <3>1, <3>2, <3>3, <3>4, <3>5, <3>6, <3>7, <3>8 DEF StepKinds
  <2>2. Standing(k, d) BY <1>2, <2>1 DEF CoverKept
  <2>3. Covered(k, d) BY <1>2, <2>2 DEF CoverInv, Claimed
  <2> QED BY <1>2, <2>1, <2>3 DEF CoverKept
<1> QED BY <1>3, <1>4

LEMMA InitCover == Init => CoverInv
<1> SUFFICES ASSUME Init PROVE CoverInv OBVIOUS
<1>1. TypeOK BY InitIInv DEF IInv
<1>2. OwnersTrue /\ LevelsBounded
  BY ConstantsAssumption DEF Init, OwnersTrue, LevelsBounded, BarIdle, ConstantsAssumption
<1>3. \A k \in Lots : k # AdoptedLot \/ k[2] = NoTrade => lotQty[k] = 0 BY DEF Init
<1>4. ASSUME NEW k \in Lots, NEW d \in Sides, Claimed(k, d) PROVE Covered(k, d)
  <2>1. lotQty[k] = 0 BY <1>3, <1>4 DEF Claimed
  <2>2. WorkTotal(k) \in Nat /\ QueuedTotal(k) \in Nat BY <1>1, SumsType DEF SumsTyped
  <2>3. d * lotQty[k] = 0 BY <2>1 DEF Sides
  <2> QED BY <2>2, <2>3 DEF Covered
<1> QED BY <1>2, <1>3, <1>4 DEF CoverInv, NoTradeEmpty

(* In a quiet state nothing is queued, and the stops at work are the cover. *)
LEMMA CoverProtects == IInv /\ CoverInv => ProtectedUnlessRevoked
<1> SUFFICES ASSUME IInv, CoverInv, NEW k \in Lots, NEW d \in Sides, Quiet,
                    k[1] \in Protected, k # AdoptedLot, Standing(k, d)
             PROVE  MapThenSumSet(LAMBDA i : orders[i].left, StopsAtWork(k)) >= d * lotQty[k]
  BY DEF ProtectedUnlessRevoked
<1>1. TypeOK BY DEF IInv
<1>2. Covered(k, d) BY DEF CoverInv, Claimed
<1>3. QueuedTotal(k) = 0
  <2>1. fillQ = <<>> BY DEF Quiet
  <2>2. 1..Len(fillQ) = {} BY <2>1
  <2> QED BY <2>2, TotalEmpty DEF QueuedTotal
<1>4. WorkTotal(k) \in Nat /\ d * lotQty[k] \in Int
  <2>1. lotQty[k] \in Int BY <1>1 DEF TypeOK, BookType
  <2> QED BY <1>1, <2>1, Signed, SumsType DEF SumsTyped
<1>5. WorkTotal(k) >= d * lotQty[k] BY <1>2, <1>3, <1>4 DEF Covered
<1> QED BY <1>1, <1>5, LeftIsWork

(* Whatever the tasks interleave, a lot of a protected strategy whose       *)
(* orders stand has, once the fills are booked, stops for all it holds:     *)
(* each fill of an entry gets a stop for its quantity, and the fills of     *)
(* stops and closes take from the lot what they take from the cover.        *)
THEOREM ProtectedLotsCovered == Spec => []ProtectedUnlessRevoked
<1>1. IInv /\ CoverInv /\ [Next]_vars => IInv' /\ CoverInv'
  <2>1. IInv /\ [Next]_vars => IInv' BY StepIInv
  <2> QED BY <2>1, CoverStep
<1> QED BY <1>1, InitIInv, InitCover, CoverProtects, PTL DEF Spec
=============================================================================
