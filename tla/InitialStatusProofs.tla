------------------------- MODULE InitialStatusProofs -------------------------
(* The promise to the drain holds for any callers, orders and bounds.       *)
EXTENDS InitialStatus, TLAPS

-----------------------------------------------------------------------------
(* Queues and numbers. *)

LEMMA TailNumbers ==
  ASSUME NEW q \in Seq(Update), q # <<>>, Distinct(q)
  PROVE  /\ Head(q) \in Update /\ Tail(q) \in Seq(Update)
         /\ Distinct(Tail(q))
         /\ Head(q).n \in Numbers(q)
         /\ Numbers(Tail(q)) = Numbers(q) \ {Head(q).n}
<1>1. /\ Len(q) \in Nat /\ Len(q) > 0 /\ DOMAIN q = 1..Len(q)
      /\ Head(q) = q[1] /\ Len(Tail(q)) = Len(q) - 1 /\ DOMAIN Tail(q) = 1..(Len(q) - 1)
      /\ \A k \in 1..(Len(q) - 1) : Tail(q)[k] = q[k + 1]
  OBVIOUS
<1>2. Head(q) \in Update /\ Tail(q) \in Seq(Update)
  OBVIOUS
<1>3. Distinct(Tail(q))
  BY <1>1 DEF Distinct
<1>4. Head(q).n \in Numbers(q)
  BY <1>1 DEF Numbers
<1>5. \A k \in 1..(Len(q) - 1) : Tail(q)[k].n \in Numbers(q) \ {Head(q).n}
  BY <1>1 DEF Numbers, Distinct
<1>6. ASSUME NEW k \in DOMAIN q, q[k].n # Head(q).n
      PROVE  q[k].n \in Numbers(Tail(q))
  <2>1. k \in 1..Len(q) /\ k # 1
    BY <1>1, <1>6
  <2>2. k - 1 \in 1..(Len(q) - 1) /\ k = (k - 1) + 1
    BY <1>1, <2>1
  <2>3. Tail(q)[k - 1] = q[k]
    BY <1>1, <2>2
  <2> QED
    BY <1>1, <2>2, <2>3 DEF Numbers
<1>7. Numbers(Tail(q)) = Numbers(q) \ {Head(q).n}
  BY <1>1, <1>5, <1>6 DEF Numbers
<1> QED
  BY <1>2, <1>3, <1>4, <1>7

LEMMA AppendNumbers ==
  ASSUME NEW q \in Seq(Update), Distinct(q), NEW u \in Update, u.n \notin Numbers(q)
  PROVE  /\ Append(q, u) \in Seq(Update) /\ Distinct(Append(q, u))
         /\ Numbers(Append(q, u)) = Numbers(q) \cup {u.n}
<1> DEFINE a == Append(q, u)
<1>1. /\ Len(q) \in Nat /\ DOMAIN q = 1..Len(q) /\ DOMAIN a = 1..(Len(q) + 1)
      /\ a[Len(q) + 1] = u /\ \A k \in 1..Len(q) : a[k] = q[k]
  OBVIOUS
<1>2. a \in Seq(Update)
  OBVIOUS
<1> HIDE DEF a
<1>3. \A k \in DOMAIN q : q[k].n # u.n
  BY DEF Numbers
<1>4. Distinct(a)
  BY <1>1, <1>3 DEF Distinct
<1>5. Numbers(a) = Numbers(q) \cup {u.n}
  <2>1. \A k \in DOMAIN a : a[k].n \in Numbers(q) \cup {u.n}
    BY <1>1 DEF Numbers
  <2>2. \A k \in DOMAIN q : q[k].n \in Numbers(a)
    BY <1>1 DEF Numbers
  <2>3. u.n \in Numbers(a)
    BY <1>1 DEF Numbers
  <2> QED
    BY <2>1, <2>2, <2>3 DEF Numbers
<1> QED
  BY <1>2, <1>4, <1>5 DEF a

(* Putting back what a caller holds.                                        *)
LEMMA PutBackNumbers ==
  ASSUME StatusInv, NEW c \in Callers
  PROVE  /\ Requeued(updates, call[c].update) \in Seq(Update)
         /\ Distinct(Requeued(updates, call[c].update))
         /\ Numbers(Requeued(updates, call[c].update)) = Queued \cup HeldBy(c)
<1>1. call[c].update \in Update \cup {None} /\ updates \in Seq(Update) /\ Distinct(updates)
  BY DEF StatusInv, StatusTypeOK, Call, EachUpdateOnce
<1>2. CASE call[c].update = None
  BY <1>1, <1>2 DEF Requeued, Queued, HeldBy
<1>3. CASE call[c].update # None
  <2>1. call[c].update.n \notin Numbers(updates)
    BY <1>3 DEF StatusInv, EachUpdateOnce, HeldBy, Held, Queued
  <2> QED
    BY <1>1, <1>3, <2>1, AppendNumbers DEF Requeued, Queued, HeldBy
<1> QED
  BY <1>2, <1>3

-----------------------------------------------------------------------------
(* A step of one caller moves numbers between the queue and that caller.    *)

Moves(c) ==
  /\ call' \in [Callers -> Call] /\ \A d \in Callers \ {c} : call'[d] = call[d]
  /\ Distinct(updates)'
  /\ (Queued \cup HeldBy(c))' \subseteq Queued \cup HeldBy(c)
  /\ (Queued \cap HeldBy(c))' = {}
  /\ UNCHANGED <<drained, nUpdates>>
  /\ call'[c].pc = "idle" => call'[c].update = None

LEMMA CallerMoves ==
  ASSUME StatusInv, NEW c \in Callers, Moves(c), StatusTypeOK'
  PROVE  /\ StatusInv'
         /\ Stolen' = Stolen \cup ((Queued \cup HeldBy(c)) \ (Queued \cup HeldBy(c))')
<1>1. \A d \in Callers \ {c} : HeldBy(d)' = HeldBy(d)
  BY DEF Moves, HeldBy
<1>2. \A d \in Callers : d # c => HeldBy(d) \cap (Queued \cup HeldBy(c)) = {}
  BY DEF StatusInv, EachUpdateOnce, Held
<1>3. \A d, e \in Callers : d # e => (HeldBy(d) \cap HeldBy(e))' = {}
  BY <1>1, <1>2 DEF Moves, StatusInv, EachUpdateOnce
<1>4. (Queued \cap Held)' = {}
  BY <1>1, <1>2 DEF Moves, Held
<1>5. (Queued \cup Held)' \subseteq Queued \cup Held
  BY <1>1 DEF Moves, Held
<1>6. (Queued \cup Held) \ (Queued \cup Held)'
        = (Queued \cup HeldBy(c)) \ (Queued \cup HeldBy(c))'
  BY <1>1, <1>2 DEF Moves, Held
<1>7. EachUpdateOnce'
  BY <1>3, <1>4, <1>5 DEF Moves, StatusInv, EachUpdateOnce
<1>8. \A d \in Callers : (call[d].pc = "idle" => call[d].update = None)'
  BY DEF Moves, StatusInv
<1>9. StatusInv'
  BY <1>5, <1>7, <1>8 DEF Moves, StatusInv
<1>10. Stolen' = Stolen \cup ((Queued \cup HeldBy(c)) \ (Queued \cup HeldBy(c))')
  <2>1. Queued \cup Held \subseteq 1..nUpdates /\ (Queued \cup Held) \cap drained = {}
    BY DEF StatusInv, EachUpdateOnce
  <2>2. drained' = drained /\ nUpdates' = nUpdates
    BY DEF Moves
  <2> HIDE DEF StatusInv
  <2> QED
    BY <1>5, <1>6, <2>1, <2>2 DEF Stolen
<1> QED
  BY <1>9, <1>10

-----------------------------------------------------------------------------
(* The steps of the callers. *)

Keeps(c) == (Queued \cup HeldBy(c))' = Queued \cup HeldBy(c)

LEMMA IdleInCall == NoCall \in Call /\ NoAnswer \in Answer
BY DEF NoCall, Call, NoAnswer, Answer

LEMMA CallFields ==
  ASSUME NEW k \in Call
  PROVE  /\ \A u \in Update \cup {None} :
              LET l == [k EXCEPT !.update = u] IN l \in Call /\ l.update = u /\ l.pc = k.pc
         /\ \A e \in Error \cup {None} :
              LET l == [k EXCEPT !.error = e] IN
              l \in Call /\ l.update = k.update /\ l.pc = k.pc
         /\ LET l == [k EXCEPT !.expired = TRUE] IN
            l \in Call /\ l.update = k.update /\ l.pc = k.pc
         /\ LET l == [k EXCEPT !.update = None, !.error = None] IN
            l \in Call /\ l.update = None
BY DEF Call

LEMMA BeginSteps ==
  ASSUME StatusInv, NEW c \in Callers, NEW i \in OrderIds,
         Submit(c) \/ Modify(c, i)
  PROVE  StatusTypeOK' /\ Moves(c) /\ Keeps(c)
<1>1. PICK j \in OrderIds : CallBegins(c, j)
  BY DEF Submit, Modify
<1>2. call[c].pc = "idle" /\ call[c].update = None /\ UNCHANGED <<statusQueues, drained, nUpdates>>
  BY DEF StatusInv, Submit, Modify, reports
<1>3. call' \in [Callers -> Call] /\ call'[c].update = None /\ call'[c].pc = "wait"
  BY <1>1 DEF CallBegins, StatusInv, StatusTypeOK, Call
<1>4. answer' \in [Callers -> Answer]
  BY <1>1, IdleInCall DEF CallBegins, StatusInv, StatusTypeOK
<1>5. \A d \in Callers \ {c} : call'[d] = call[d]
  BY <1>1 DEF CallBegins, StatusInv, StatusTypeOK
<1>6. Queued' = Queued /\ HeldBy(c)' = {} /\ HeldBy(c) = {}
  BY <1>2, <1>3 DEF statusQueues, Queued, HeldBy
<1>7. Moves(c) /\ Keeps(c)
  BY <1>2, <1>3, <1>5, <1>6 DEF Moves, Keeps, StatusInv, EachUpdateOnce, statusQueues
<1>8. StatusTypeOK'
  <2>1. CASE Submit(c)
    BY <2>1, <1>2, <1>3, <1>4, StatusConstants
    DEF Submit, StatusInv, StatusTypeOK, statusQueues, OrderIds, BrokerStatuses
  <2>2. CASE Modify(c, i)
    BY <2>2, <1>2, <1>3, <1>4, StatusConstants
    DEF Modify, StatusInv, StatusTypeOK, statusQueues, reports
  <2> QED
    BY <2>1, <2>2
<1> QED
  BY <1>7, <1>8

LEMMA TakeSteps ==
  ASSUME StatusInv, NEW c \in Callers, TakeUpdate(c) \/ TakeError(c) \/ Deadline(c)
  PROVE  StatusTypeOK' /\ Moves(c) /\ Keeps(c)
<1> USE DEF StatusInv
<1>1. CASE TakeUpdate(c)
  <2>1. /\ Head(updates) \in Update /\ Tail(updates) \in Seq(Update)
        /\ Distinct(Tail(updates)) /\ Head(updates).n \in Queued
        /\ Numbers(Tail(updates)) = Queued \ {Head(updates).n}
    BY <1>1, TailNumbers DEF TakeUpdate, StatusTypeOK, EachUpdateOnce, Queued
  <2>2. /\ call' \in [Callers -> Call] /\ call'[c].update = Head(updates)
        /\ call'[c].pc = "wait"
    <3>1. call[c] \in Call /\ call[c].pc = "wait"
      BY <1>1 DEF TakeUpdate, StatusTypeOK
    <3>2. call' = [call EXCEPT ![c] = [call[c] EXCEPT !.update = Head(updates)]]
      BY <1>1 DEF TakeUpdate
    <3> QED
      BY <2>1, <3>1, <3>2, CallFields DEF StatusTypeOK
  <2>3. \A d \in Callers \ {c} : call'[d] = call[d]
    BY <1>1 DEF TakeUpdate, StatusTypeOK
  <2>4. Head(updates) # None
    BY <2>1, StatusConstants DEF Update
  <2>5. /\ HeldBy(c) = {} /\ HeldBy(c)' = {Head(updates).n}
        /\ Queued' = Queued \ {Head(updates).n}
    BY <1>1, <2>1, <2>2, <2>4 DEF TakeUpdate, HeldBy, Queued
  <2>6. Moves(c) /\ Keeps(c)
    BY <1>1, <2>1, <2>2, <2>3, <2>5 DEF TakeUpdate, Moves, Keeps, reports
  <2>7. StatusTypeOK'
    BY <1>1, <2>1, <2>2 DEF TakeUpdate, StatusTypeOK, statusCounters, reports
  <2> QED
    BY <2>6, <2>7
<1>2. CASE TakeError(c) \/ Deadline(c)
  <2>1. /\ call' \in [Callers -> Call] /\ call'[c].update = call[c].update
        /\ call'[c].pc = "wait" /\ errors' \in Seq(Error)
    <3>1. call[c] \in Call /\ call[c].pc = "wait"
      BY <1>2 DEF TakeError, Deadline, StatusTypeOK
    <3>2. CASE TakeError(c)
      <4>1. Head(errors) \in Error /\ Tail(errors) \in Seq(Error)
        BY <3>2 DEF TakeError, StatusTypeOK
      <4>2. call' = [call EXCEPT ![c] = [call[c] EXCEPT !.error = Head(errors)]]
        BY <3>2 DEF TakeError
      <4>3. LET l == [call[c] EXCEPT !.error = Head(errors)] IN
            l \in Call /\ l.update = call[c].update /\ l.pc = call[c].pc
        BY <3>1, <4>1, CallFields
      <4>4. errors' = Tail(errors)
        BY <3>2 DEF TakeError
      <4> QED
        BY <3>1, <4>1, <4>2, <4>3, <4>4 DEF StatusTypeOK
    <3>3. CASE Deadline(c)
      <4>1. call' = [call EXCEPT ![c] = [call[c] EXCEPT !.expired = TRUE]]
        BY <3>3 DEF Deadline
      <4> QED
        BY <3>1, <3>3, <4>1, CallFields DEF Deadline, StatusTypeOK, statusQueues
    <3> QED
      BY <1>2, <3>2, <3>3
  <2>2. \A d \in Callers \ {c} : call'[d] = call[d]
    BY <1>2 DEF TakeError, Deadline, StatusTypeOK
  <2>3. UNCHANGED <<updates, answer, drained, statusCounters, reports, rejections>>
    BY <1>2 DEF TakeError, Deadline, statusQueues
  <2>4. HeldBy(c)' = HeldBy(c) /\ Queued' = Queued
    BY <2>1, <2>3 DEF HeldBy, Queued
  <2>5. HeldBy(c) \cap Queued = {}
    BY DEF EachUpdateOnce, Held
  <2>6. Moves(c) /\ Keeps(c)
    BY <2>1, <2>2, <2>3, <2>4, <2>5 DEF Moves, Keeps, EachUpdateOnce, reports
  <2>7. StatusTypeOK'
    BY <2>1, <2>3 DEF StatusTypeOK, statusCounters, reports
  <2> QED
    BY <2>6, <2>7
<1> QED
  BY <1>1, <1>2

(* Each way a round ends leaves the caller with no update.                  *)
LEMMA RoundEnds ==
  ASSUME StatusInv, NEW c \in Callers,
         NEW status \in {"pending", "open", "cancelled", "rejected"},
         CallEnds(c, status) \/ AnotherRound(c)
  PROVE  /\ call' \in [Callers -> Call] /\ answer' \in [Callers -> Answer]
         /\ call'[c].update = None /\ \A d \in Callers \ {c} : call'[d] = call[d]
<1> USE DEF StatusInv, StatusTypeOK
<1>1. ASSUME NEW s \in {"pending", "open", "cancelled", "rejected"}, CallEnds(c, s)
      PROVE  /\ call' \in [Callers -> Call] /\ answer' \in [Callers -> Answer]
             /\ call'[c].update = None /\ \A d \in Callers \ {c} : call'[d] = call[d]
  <2>1. [status |-> s, id |-> call[c].id] \in Answer
    BY DEF Call, Answer
  <2>2. NoCall.update = None
    BY DEF NoCall
  <2> QED
    BY <1>1, <2>1, <2>2, IdleInCall DEF CallEnds
<1>2. CASE ~call[c].expired /\ AnotherRound(c)
  <2>1. call' = [call EXCEPT ![c] = [call[c] EXCEPT !.update = None, !.error = None]]
    BY <1>2 DEF AnotherRound
  <2>2. /\ [call[c] EXCEPT !.update = None, !.error = None] \in Call
        /\ [call[c] EXCEPT !.update = None, !.error = None].update = None
    BY CallFields
  <2>3. answer' = answer
    BY <1>2 DEF AnotherRound
  <2> QED
    BY <2>1, <2>2, <2>3
<1>3. CASE call[c].expired /\ AnotherRound(c)
  BY <1>1, <1>3 DEF AnotherRound
<1> QED
  BY <1>1, <1>2, <1>3

LEMMA WaitSteps ==
  ASSUME StatusInv, NEW c \in Callers, NEW first \in BOOLEAN,
         \/ AnsweredByError(c, first) \/ AnsweredByUpdate(c)
         \/ NotAnswered(c) \/ Timeout(c)
  PROVE  /\ StatusTypeOK' /\ Moves(c)
         /\ Keeps(c) \/ (AnsweredByError(c, FALSE) /\ Queued' = Queued /\ HeldBy(c)' = {})
<1> DEFINE put == Requeued(updates, call[c].update)
<1>1. \E s \in {"pending", "open", "cancelled", "rejected"} : CallEnds(c, s) \/ AnotherRound(c)
  BY DEF AnsweredByError, AnsweredByUpdate, NotAnswered, Timeout
<1>2. /\ call' \in [Callers -> Call] /\ answer' \in [Callers -> Answer]
      /\ call'[c].update = None /\ \A d \in Callers \ {c} : call'[d] = call[d]
  BY <1>1, RoundEnds
<1>3. UNCHANGED <<drained, statusCounters, reports>>
  BY DEF AnsweredByError, AnsweredByUpdate, NotAnswered, Timeout
<1>4. rejections' \in Nat
  BY DEF AnsweredByError, AnsweredByUpdate, NotAnswered, Timeout, StatusInv, StatusTypeOK
<1>5. errors' \in Seq(Error)
  <2>1. call[c].error \in Error \cup {None} /\ errors \in Seq(Error)
    BY DEF StatusInv, StatusTypeOK, Call
  <2>2. Requeued(errors, call[c].error) \in Seq(Error)
    BY <2>1 DEF Requeued
  <2>3. errors' = errors \/ errors' = Requeued(errors, call[c].error)
    BY DEF AnsweredByError, AnsweredByUpdate, NotAnswered, Timeout, statusQueues
  <2> QED
    BY <2>1, <2>2, <2>3
<1>6. /\ put \in Seq(Update) /\ Distinct(put)
      /\ Numbers(put) = Queued \cup HeldBy(c)
  BY PutBackNumbers
<1>7. updates \in Seq(Update) /\ Distinct(updates) /\ Queued \cap HeldBy(c) = {}
  BY DEF StatusInv, StatusTypeOK, EachUpdateOnce, Held
<1>8. updates' = put \/ (updates' = updates /\ AnsweredByError(c, FALSE))
  <2>1. CASE Timeout(c)
    BY <2>1 DEF Timeout, Requeued, statusQueues
  <2>2. CASE ~Timeout(c)
    BY <2>2 DEF AnsweredByError, AnsweredByUpdate, NotAnswered
  <2> QED
    BY <2>1, <2>2
<1> HIDE DEF put
<1>9. HeldBy(c)' = {}
  BY <1>2 DEF HeldBy
<1>10. updates' \in Seq(Update) /\ Distinct(updates)'
  BY <1>6, <1>7, <1>8 DEF Distinct
<1>11. \/ Queued' = Queued \cup HeldBy(c)
       \/ Queued' = Queued /\ AnsweredByError(c, FALSE)
  BY <1>6, <1>8 DEF Queued
<1>12. StatusTypeOK'
  BY <1>2, <1>3, <1>4, <1>5, <1>10 DEF StatusInv, StatusTypeOK, statusCounters, reports
<1>13. Moves(c)
  BY <1>2, <1>3, <1>9, <1>10, <1>11 DEF Moves, reports
<1> QED
  BY <1>9, <1>11, <1>12, <1>13 DEF Keeps

(* A caller's step keeps every update, or one is lost beside a rejection.   *)
CallerStep(c) == \/ Submit(c) \/ Deadline(c) \/ Wait(c)
                 \/ \E i \in OrderIds : Modify(c, i)

LEMMA CallerSteps ==
  ASSUME StatusInv, NEW c \in Callers, CallerStep(c)
  PROVE  /\ StatusInv' /\ UNCHANGED <<drained, nUpdates>>
         /\ \/ Stolen' = Stolen
            \/ AnsweredByError(c, FALSE) /\ Stolen' = Stolen \cup HeldBy(c)
<1>1. /\ StatusTypeOK' /\ Moves(c)
      /\ Keeps(c) \/ (AnsweredByError(c, FALSE) /\ Queued' = Queued /\ HeldBy(c)' = {})
  <2>1. CASE Submit(c) \/ \E i \in OrderIds : Modify(c, i)
    <3>1. Submit(c) => 1 \in OrderIds
      BY StatusConstants DEF Submit, OrderIds
    <3> QED
      BY <2>1, <3>1, BeginSteps
  <2>2. CASE Deadline(c) \/ TakeUpdate(c) \/ TakeError(c)
    BY <2>2, TakeSteps
  <2>3. CASE \/ \E first \in BOOLEAN : AnsweredByError(c, first)
             \/ AnsweredByUpdate(c) \/ NotAnswered(c) \/ Timeout(c)
    BY <2>3, WaitSteps
  <2> QED
    BY <2>1, <2>2, <2>3 DEF CallerStep, Wait
<1>2. StatusInv' /\ Stolen' = Stolen \cup ((Queued \cup HeldBy(c)) \ (Queued \cup HeldBy(c))')
  BY <1>1, CallerMoves
<1>3. UNCHANGED <<drained, nUpdates>>
  BY <1>1 DEF Moves
<1>4. Queued \cap HeldBy(c) = {}
  BY DEF StatusInv, EachUpdateOnce, Held
<1> QED
  BY <1>1, <1>2, <1>3, <1>4 DEF Keeps

-----------------------------------------------------------------------------
(* The drain and the client's callbacks. *)

LEMMA DrainStep ==
  ASSUME StatusInv, DrainUpdates
  PROVE  /\ StatusInv' /\ Stolen' = Stolen
         /\ \E n \in (1..nUpdates) \ (drained \cup Stolen) : drained' = drained \cup {n}
<1> DEFINE n == Head(updates).n
<1>1. /\ Tail(updates) \in Seq(Update) /\ Distinct(Tail(updates))
      /\ n \in Queued /\ Numbers(Tail(updates)) = Queued \ {n}
  BY TailNumbers DEF StatusInv, StatusTypeOK, EachUpdateOnce, DrainUpdates, Queued
<1>2. /\ updates' = Tail(updates) /\ drained' = drained \cup {n}
      /\ UNCHANGED <<errors, call, answer, statusCounters, reports, rejections>>
  BY DEF DrainUpdates
<1> HIDE DEF n
<1>3. Queued' = Queued \ {n} /\ Held' = Held
  BY <1>1, <1>2 DEF Queued, Held, HeldBy
<1>4. n \in 1..nUpdates /\ n \notin Held /\ n \notin drained
  BY <1>1 DEF StatusInv, EachUpdateOnce
<1>5. nUpdates' = nUpdates
  BY <1>2 DEF reports
<1>6. EachUpdateOnce'
  <2>1. Distinct(updates)'
    BY <1>1, <1>2 DEF Distinct
  <2>2. \A c, d \in Callers : (c # d => HeldBy(c) \cap HeldBy(d) = {})'
    BY <1>2 DEF HeldBy, StatusInv, EachUpdateOnce
  <2> QED
    BY <1>2, <1>3, <1>4, <2>1, <2>2 DEF StatusInv, EachUpdateOnce
<1>7. StatusTypeOK'
  <2>1. 1..nUpdates \subseteq 1..MaxUpdates
    BY StatusConstants DEF StatusInv, StatusTypeOK
  <2> QED
    BY <1>1, <1>2, <1>4, <2>1 DEF StatusInv, StatusTypeOK, statusCounters, reports
<1>8. StatusInv'
  BY <1>2, <1>3, <1>4, <1>5, <1>6, <1>7 DEF StatusInv
<1>9. Stolen' = Stolen /\ n \notin Stolen
  BY <1>1, <1>2, <1>3, <1>5 DEF Stolen
<1> QED
  BY <1>2, <1>4, <1>8, <1>9

LEMMA OrderStatusStep ==
  ASSUME StatusInv, NEW i \in OrderIds, NEW s \in BrokerStatuses, OrderStatus(i, s)
  PROVE  StatusInv' /\ Stolen' = Stolen
<1> DEFINE m == nUpdates + 1
           u == [id |-> i, status |-> s, n |-> m]
<1>1. /\ updates' = Append(updates, u) /\ nUpdates' = m
      /\ broker' = [broker EXCEPT ![i] = s]
      /\ UNCHANGED <<errors, call, answer, drained, statusCounters, nErrors, rejections>>
  BY DEF OrderStatus
<1>2. /\ m \in 1..MaxUpdates /\ m \in Nat /\ nUpdates \in Nat
      /\ m \notin 1..nUpdates /\ 1..m = (1..nUpdates) \cup {m}
  BY StatusConstants DEF OrderStatus, StatusInv, StatusTypeOK
<1>3. u \in Update /\ u.n = m
  BY <1>2 DEF Update
<1>4. m \notin Queued /\ m \notin Held /\ m \notin drained
  BY <1>2 DEF StatusInv
<1> HIDE DEF m, u
<1>5. /\ updates' \in Seq(Update) /\ Distinct(updates)'
      /\ Queued' = Queued \cup {m}
  BY <1>1, <1>3, <1>4, AppendNumbers DEF StatusInv, StatusTypeOK, EachUpdateOnce, Queued, Distinct
<1>6. Held' = Held /\ drained' = drained /\ \A c \in Callers : HeldBy(c)' = HeldBy(c)
  BY <1>1 DEF Held, HeldBy
<1>7. EachUpdateOnce'
  BY <1>4, <1>5, <1>6 DEF StatusInv, EachUpdateOnce
<1>8. StatusTypeOK'
  BY <1>1, <1>2, <1>5 DEF StatusInv, StatusTypeOK, statusCounters
<1>9. StatusInv'
  BY <1>1, <1>2, <1>5, <1>6, <1>7, <1>8 DEF StatusInv
<1>10. Stolen' = Stolen
  BY <1>1, <1>2, <1>5, <1>6 DEF Stolen
<1> QED
  BY <1>9, <1>10

LEMMA ErrorReportStep ==
  ASSUME StatusInv, NEW i \in OrderIds, ErrorReport(i)
  PROVE  StatusInv' /\ Stolen' = Stolen
<1>1. nErrors + 1 \in 1..MaxErrors
  BY StatusConstants DEF ErrorReport, StatusInv, StatusTypeOK
<1>2. [id |-> i, n |-> nErrors + 1] \in Error
  BY <1>1 DEF Error
<1>3. StatusTypeOK'
  BY <1>1, <1>2 DEF ErrorReport, StatusInv, StatusTypeOK, statusCounters
<1>4. UNCHANGED <<updates, call, drained, nUpdates>>
  BY DEF ErrorReport
<1>5. /\ Queued' = Queued /\ Held' = Held /\ Stolen' = Stolen
      /\ \A c \in Callers : HeldBy(c)' = HeldBy(c)
  BY <1>4 DEF Queued, Held, HeldBy, Stolen
<1> QED
  BY <1>3, <1>4, <1>5 DEF StatusInv, EachUpdateOnce, Distinct

LEMMA UnchangedStep ==
  ASSUME StatusInv, UNCHANGED statusVars
  PROVE  StatusInv' /\ Stolen' = Stolen
<1>1. StatusTypeOK'
  BY DEF statusVars, statusQueues, statusCounters, reports, StatusInv, StatusTypeOK
<1>2. /\ Queued' = Queued /\ Held' = Held /\ Stolen' = Stolen
      /\ \A c \in Callers : HeldBy(c)' = HeldBy(c)
  BY DEF statusVars, statusQueues, reports, Queued, Held, HeldBy, Stolen
<1> QED
  BY <1>1, <1>2 DEF statusVars, statusQueues, reports, StatusInv, EachUpdateOnce, Distinct

LEMMA InitialState ==
  ASSUME StatusInit
  PROVE  StatusInv /\ Stolen = {}
<1> USE DEF StatusInit
<1>1. StatusTypeOK
  BY IdleInCall, StatusConstants DEF StatusTypeOK
<1>2. Queued = {} /\ \A c \in Callers : HeldBy(c) = {} /\ call[c].update = None
  BY DEF Queued, Numbers, HeldBy, NoCall
<1>3. Held = {}
  BY <1>2 DEF Held
<1>4. Distinct(updates)
  BY DEF Distinct
<1> QED
  BY <1>1, <1>2, <1>3, <1>4 DEF StatusInv, EachUpdateOnce, Stolen

LEMMA NextSteps ==
  ASSUME StatusNext
  PROVE  \/ \E c \in Callers : CallerStep(c)
         \/ DrainUpdates
         \/ \E i \in OrderIds : ErrorReport(i) \/ \E s \in BrokerStatuses : OrderStatus(i, s)
BY DEF StatusNext, CallerStep

-----------------------------------------------------------------------------
(* What an update says stays true: the broker's last word is not taken back.*)

TrueOf(u) == u.status = "cancelled" => broker[u.id] = "cancelled"

(* Behind CancelledIsTrue: the queued and the held updates are true too, and *)
(* an order is submitted before the broker says anything of it.             *)
UpdatesTrue ==
  /\ \A k \in DOMAIN updates : TrueOf(updates[k])
  /\ \A c \in Callers : call[c].update # None => TrueOf(call[c].update)
  /\ \A i \in OrderIds : i >= nextId => broker[i] = "none"
  /\ \A c \in Callers : answer[c].status = "cancelled" => answer[c].id \in OrderIds
  /\ CancelledIsTrue

(* What a step keeps when the broker's word is unchanged: it moves updates  *)
(* between the queue and one caller, and answers nothing false.             *)
LEMMA MovesKeepTruth ==
  ASSUME StatusTypeOK, UpdatesTrue, NEW c \in Callers, UNCHANGED <<broker, nextId>>,
         \A k \in DOMAIN updates' : TrueOf(updates'[k]),
         call'[c].update # None => TrueOf(call'[c].update),
         answer'[c].status = "cancelled" =>
           answer'[c].id \in OrderIds /\ broker[answer'[c].id] = "cancelled",
         \A d \in Callers \ {c} : call'[d] = call[d] /\ answer'[d] = answer[d]
  PROVE  UpdatesTrue'
BY DEF UpdatesTrue, CancelledIsTrue, TrueOf

(* Putting back a true update leaves true updates on the queue.             *)
LEMMA RequeuedTrue ==
  ASSUME StatusTypeOK, UpdatesTrue, NEW c \in Callers
  PROVE  \A k \in DOMAIN Requeued(updates, call[c].update) :
           TrueOf(Requeued(updates, call[c].update)[k])
<1>1. updates \in Seq(Update) /\ call[c].update \in Update \cup {None}
  BY DEF StatusTypeOK, Call
<1>2. CASE call[c].update = None
  BY <1>2 DEF Requeued, UpdatesTrue
<1>3. CASE call[c].update # None
  <2> DEFINE q == Append(updates, call[c].update)
  <2>1. \A k \in DOMAIN q : \/ q[k] = call[c].update
                            \/ k \in DOMAIN updates /\ q[k] = updates[k]
    BY <1>1, <1>3
  <2>2. TrueOf(call[c].update) /\ \A k \in DOMAIN updates : TrueOf(updates[k])
    BY <1>3 DEF UpdatesTrue
  <2>3. Requeued(updates, call[c].update) = q
    BY <1>3 DEF Requeued
  <2> HIDE DEF q
  <2> QED
    BY <2>1, <2>2, <2>3
<1> QED
  BY <1>2, <1>3

(* Taking the head leaves true updates, and a true one in the hand.         *)
LEMMA HeadTrue ==
  ASSUME StatusTypeOK, UpdatesTrue, updates # <<>>
  PROVE  TrueOf(Head(updates)) /\ \A k \in DOMAIN Tail(updates) : TrueOf(Tail(updates)[k])
<1>1. updates \in Seq(Update)
  BY DEF StatusTypeOK
<1>2. 1 \in DOMAIN updates /\ Head(updates) = updates[1]
  BY <1>1
<1>3. \A k \in DOMAIN Tail(updates) : k + 1 \in DOMAIN updates /\ Tail(updates)[k] = updates[k + 1]
  BY <1>1
<1> QED
  BY <1>2, <1>3 DEF UpdatesTrue

LEMMA BeginKeepsTruth ==
  ASSUME StatusTypeOK, UpdatesTrue, NEW c \in Callers, NEW i \in OrderIds,
         Submit(c) \/ Modify(c, i)
  PROVE  UpdatesTrue'
<1>1. PICK j \in OrderIds : CallBegins(c, j)
  BY DEF Submit, Modify
<1>2. /\ call'[c].update = None /\ answer'[c] = NoAnswer
      /\ \A d \in Callers \ {c} : call'[d] = call[d] /\ answer'[d] = answer[d]
  BY <1>1 DEF CallBegins, StatusTypeOK
<1>3. NoAnswer.status # "cancelled"
  BY DEF NoAnswer
<1>4. updates' = updates
  BY DEF Submit, Modify, statusQueues
<1>5. CASE Modify(c, i)
  <2>1. UNCHANGED <<broker, nextId>>
    BY <1>5 DEF Modify, reports
  <2> QED
    BY <1>2, <1>3, <1>4, <2>1, MovesKeepTruth DEF UpdatesTrue
<1>6. CASE Submit(c)
  <2>1. nextId \in OrderIds /\ nextId' = nextId + 1 /\ broker[nextId] = "none"
    BY <1>6 DEF Submit, UpdatesTrue, OrderIds
  <2>2. \A o \in OrderIds : broker'[o] = IF o = nextId THEN "submitted" ELSE broker[o]
    BY <1>6 DEF Submit, StatusTypeOK
  <2>3. \A o \in OrderIds : broker[o] = "cancelled" => broker'[o] = "cancelled"
    BY <2>1, <2>2
  <2>4. \A o \in OrderIds : o >= nextId' => broker'[o] = "none"
    BY <2>1, <2>2 DEF UpdatesTrue, OrderIds
  <2>5. \A k \in DOMAIN updates : updates[k].id \in OrderIds
    <3>1. updates \in Seq(Update)
      BY DEF StatusTypeOK
    <3>2. \A k \in DOMAIN updates : updates[k] \in Update
      BY <3>1
    <3> QED
      BY <3>2 DEF Update
  <2>6. \A d \in Callers : call[d].update # None => call[d].update.id \in OrderIds
    BY DEF StatusTypeOK, Call, Update
  <2>7. \A d \in Callers : answer'[d].status = "cancelled" =>
          answer'[d].id \in OrderIds /\ broker'[answer'[d].id] = "cancelled"
    BY <1>2, <1>3, <2>3 DEF UpdatesTrue, CancelledIsTrue
  <2>8. (\A k \in DOMAIN updates : TrueOf(updates[k]))'
    BY <1>4, <2>3, <2>5 DEF UpdatesTrue, TrueOf
  <2>9. (\A d \in Callers : call[d].update # None => TrueOf(call[d].update))'
    BY <1>2, <2>3, <2>6 DEF UpdatesTrue, TrueOf
  <2> QED
    BY <2>4, <2>7, <2>8, <2>9 DEF UpdatesTrue, CancelledIsTrue
<1> QED
  BY <1>5, <1>6

LEMMA HoldKeepsTruth ==
  ASSUME StatusTypeOK, UpdatesTrue, NEW c \in Callers,
         TakeUpdate(c) \/ TakeError(c) \/ Deadline(c)
  PROVE  UpdatesTrue'
<1>1. UNCHANGED <<answer, broker, nextId>>
  BY DEF TakeUpdate, TakeError, Deadline, statusCounters, reports
<1>2. answer'[c].status = "cancelled" =>
        answer'[c].id \in OrderIds /\ broker[answer'[c].id] = "cancelled"
  BY <1>1 DEF UpdatesTrue, CancelledIsTrue
<1>3. \A d \in Callers \ {c} : call'[d] = call[d] /\ answer'[d] = answer[d]
  BY <1>1 DEF TakeUpdate, TakeError, Deadline, StatusTypeOK
<1>4. CASE TakeUpdate(c)
  <2>1. call'[c].update = Head(updates) /\ updates' = Tail(updates) /\ updates # <<>>
    <3>1. call' = [call EXCEPT ![c] = [call[c] EXCEPT !.update = Head(updates)]]
      BY <1>4 DEF TakeUpdate
    <3>2. call[c] \in Call /\ updates \in Seq(Update) /\ updates # <<>>
      BY <1>4 DEF TakeUpdate, StatusTypeOK
    <3>3. Head(updates) \in Update
      BY <3>2
    <3>4. call'[c].update = Head(updates)
      BY <3>1, <3>2, <3>3, CallFields DEF StatusTypeOK
    <3> QED
      BY <1>4, <3>4 DEF TakeUpdate
  <2> QED
    BY <1>1, <1>2, <1>3, <2>1, HeadTrue, MovesKeepTruth
<1>5. CASE TakeError(c) \/ Deadline(c)
  <2>1. call'[c].update = call[c].update /\ updates' = updates
    BY <1>5 DEF TakeError, Deadline, StatusTypeOK, Call, statusQueues
  <2> QED
    BY <1>1, <1>2, <1>3, <2>1, MovesKeepTruth DEF UpdatesTrue
<1> QED
  BY <1>4, <1>5

(* A call that is answered says only what its own update said.              *)
LEMMA AnswersKeepTruth ==
  ASSUME StatusInv, UpdatesTrue, NEW c \in Callers, NEW first \in BOOLEAN,
         \/ AnsweredByError(c, first) \/ AnsweredByUpdate(c)
         \/ NotAnswered(c) \/ Timeout(c)
  PROVE  UpdatesTrue'
<1> USE DEF StatusInv
<1>1. UNCHANGED <<broker, nextId>>
  BY DEF AnsweredByError, AnsweredByUpdate, NotAnswered, Timeout, statusCounters, reports
<1>2. \E s \in {"pending", "open", "cancelled", "rejected"} : CallEnds(c, s) \/ AnotherRound(c)
  BY DEF AnsweredByError, AnsweredByUpdate, NotAnswered, Timeout
<1>3. call'[c].update = None /\ \A d \in Callers \ {c} : call'[d] = call[d]
  BY <1>2, RoundEnds
<1>4. \A d \in Callers \ {c} : answer'[d] = answer[d]
  BY <1>2 DEF CallEnds, AnotherRound, StatusTypeOK
<1>5. \A k \in DOMAIN updates' : TrueOf(updates'[k])
  <2>1. updates' = updates \/ updates' = Requeued(updates, call[c].update)
    BY DEF AnsweredByError, AnsweredByUpdate, NotAnswered, Timeout, statusQueues
  <2> QED
    BY <2>1, RequeuedTrue DEF UpdatesTrue
<1>6. answer'[c].status = "cancelled" =>
        answer'[c].id \in OrderIds /\ broker[answer'[c].id] = "cancelled"
  <2>1. ASSUME NEW s \in {"pending", "open", "cancelled", "rejected"}, CallEnds(c, s)
        PROVE  answer'[c].status = s /\ answer'[c].id = call[c].id
    BY <2>1 DEF CallEnds, StatusTypeOK
  <2>2. CASE AnsweredByUpdate(c)
    <3> DEFINE u == call[c].update
    <3>1. u # None /\ u \in Update /\ u.id = call[c].id /\ u.status \in {"submitted", "cancelled"}
      BY <2>2 DEF AnsweredByUpdate, ForCaller, StatusTypeOK, Call
    <3>2. TrueOf(u) /\ u.id \in OrderIds
      BY <3>1 DEF UpdatesTrue, Update
    <3>3. CASE u.status = "submitted"
      <4>1. CallEnds(c, "open")
        BY <2>2, <3>3 DEF AnsweredByUpdate
      <4> QED
        BY <2>1, <4>1
    <3>4. CASE u.status = "cancelled"
      <4>1. CallEnds(c, "cancelled")
        BY <2>2, <3>4 DEF AnsweredByUpdate
      <4> QED
        BY <2>1, <3>1, <3>2, <3>4, <4>1 DEF TrueOf
    <3> QED
      BY <3>1, <3>3, <3>4
  <2>3. CASE ~AnsweredByUpdate(c)
    <3>1. CallEnds(c, "pending") \/ CallEnds(c, "rejected") \/ answer' = answer
      BY <2>3 DEF AnsweredByError, NotAnswered, Timeout, AnotherRound
    <3> QED
      BY <2>1, <3>1 DEF UpdatesTrue, CancelledIsTrue
  <2> QED
    BY <2>2, <2>3
<1> QED
  BY <1>1, <1>3, <1>4, <1>5, <1>6, MovesKeepTruth

(* The broker reports what it holds of the order, and keeps to it.          *)
LEMMA ReportKeepsTruth ==
  ASSUME StatusTypeOK, UpdatesTrue, NEW i \in OrderIds, NEW s \in BrokerStatuses,
         OrderStatus(i, s)
  PROVE  UpdatesTrue'
<1> DEFINE u == [id |-> i, status |-> s, n |-> nUpdates + 1]
<1>1. /\ updates' = Append(updates, u) /\ i < nextId
      /\ broker[i] \in {"submitted", s} /\ broker' = [broker EXCEPT ![i] = s]
      /\ UNCHANGED <<call, answer, nextId>>
  BY DEF OrderStatus, statusCounters
<1>2. /\ broker'[i] = s
      /\ \A o \in OrderIds : broker[o] = "cancelled" => broker'[o] = "cancelled"
      /\ \A o \in OrderIds : o # i => broker'[o] = broker[o]
  BY <1>1 DEF StatusTypeOK
<1>3. updates \in Seq(Update) /\ \A k \in DOMAIN updates : updates[k] \in Update
  BY DEF StatusTypeOK
<1>4. \A c \in Callers : call[c].update # None => call[c].update.id \in OrderIds
  BY DEF StatusTypeOK, Call, Update
<1>5. \A k \in DOMAIN updates' : updates'[k] = u \/ (k \in DOMAIN updates /\ updates'[k] = updates[k])
  BY <1>1, <1>3
<1>6. u.id = i /\ u.status = s
  OBVIOUS
<1> HIDE DEF u
<1>7. (\A k \in DOMAIN updates : TrueOf(updates[k]))'
  BY <1>2, <1>3, <1>5, <1>6 DEF UpdatesTrue, TrueOf, Update
<1>8. (\A c \in Callers : call[c].update # None => TrueOf(call[c].update))'
  BY <1>1, <1>2, <1>4 DEF UpdatesTrue, TrueOf
<1>9. (\A o \in OrderIds : o >= nextId => broker[o] = "none")'
  <2>1. nextId \in Nat /\ i \in Nat
    BY StatusConstants DEF StatusTypeOK, OrderIds
  <2> QED
    BY <1>1, <1>2, <2>1 DEF UpdatesTrue
<1>10. \A c \in Callers : answer'[c].status = "cancelled" =>
         answer'[c].id \in OrderIds /\ broker'[answer'[c].id] = "cancelled"
  BY <1>1, <1>2 DEF UpdatesTrue, CancelledIsTrue
<1> QED
  BY <1>7, <1>8, <1>9, <1>10 DEF UpdatesTrue, CancelledIsTrue

LEMMA UpdatesTrueStep ==
  ASSUME StatusInv, UpdatesTrue, [StatusNext]_statusVars
  PROVE  UpdatesTrue'
<1> USE DEF StatusInv
<1>1. ASSUME NEW c \in Callers, CallerStep(c) PROVE UpdatesTrue'
  <2>1. CASE Submit(c) \/ \E i \in OrderIds : Modify(c, i)
    <3>1. Submit(c) => 1 \in OrderIds
      BY StatusConstants DEF Submit, OrderIds
    <3> QED
      BY <2>1, <3>1, BeginKeepsTruth
  <2>2. CASE Deadline(c) \/ TakeUpdate(c) \/ TakeError(c)
    BY <2>2, HoldKeepsTruth
  <2>3. CASE \/ \E first \in BOOLEAN : AnsweredByError(c, first)
             \/ AnsweredByUpdate(c) \/ NotAnswered(c) \/ Timeout(c)
    BY <2>3, AnswersKeepTruth
  <2> QED
    BY <1>1, <2>1, <2>2, <2>3 DEF CallerStep, Wait
<1>2. CASE DrainUpdates
  <2>1. updates # <<>> /\ updates' = Tail(updates) /\ UNCHANGED <<call, answer, broker, nextId>>
    BY <1>2 DEF DrainUpdates, statusCounters, reports
  <2> QED
    BY <2>1, HeadTrue DEF UpdatesTrue, CancelledIsTrue, TrueOf
<1>3. ASSUME NEW i \in OrderIds, NEW s \in BrokerStatuses, OrderStatus(i, s)
      PROVE  UpdatesTrue'
  BY <1>3, ReportKeepsTruth
<1>4. CASE UNCHANGED <<updates, call, answer, broker, nextId>>
  BY <1>4 DEF UpdatesTrue, CancelledIsTrue, TrueOf
<1>5. ASSUME NEW i \in OrderIds, ErrorReport(i) PROVE UpdatesTrue'
  BY <1>4, <1>5 DEF ErrorReport, statusCounters
<1>6. CASE UNCHANGED statusVars
  BY <1>4, <1>6 DEF statusVars, statusQueues, statusCounters, reports
<1> QED
  BY <1>1, <1>2, <1>3, <1>5, <1>6, NextSteps

-----------------------------------------------------------------------------
(* The theorems. *)

(* The invariant: every update is in one place, whoever reads the queue.    *)
THEOREM InitialStatusInductive == StatusSpec => []StatusInv
<1>1. StatusInit => StatusInv
  BY InitialState
<1>2. StatusInv /\ [StatusNext]_statusVars => StatusInv'
  BY NextSteps, CallerSteps, DrainStep, ErrorReportStep, OrderStatusStep, UnchangedStep
<1> QED
  BY <1>1, <1>2, PTL DEF StatusSpec

(* No update is put back twice, drained twice, or taken by two callers.     *)
THEOREM UpdatesStayUnique == StatusSpec => []EachUpdateOnce
<1>1. StatusInv => EachUpdateOnce
  BY DEF StatusInv
<1> QED
  BY <1>1, InitialStatusInductive, PTL

(* The drain's promise: each update at most once, and none lost but the one *)
(* a caller held when an error answered its call.                           *)
THEOREM DrainPromise == StatusSpec => KeepsPromise
<1>1. StatusInit => Promise!Init
  BY InitialState DEF StatusInit, Promise!Init
<1>2. ASSUME StatusInv, NEW c \in Callers, CallerStep(c)
      PROVE  [Promise!Next]_(Promise!vars)
  <2>1. /\ UNCHANGED <<drained, nUpdates>>
        /\ \/ Stolen' = Stolen
           \/ AnsweredByError(c, FALSE) /\ Stolen' = Stolen \cup HeldBy(c)
    BY <1>2, CallerSteps
  <2>2. \/ rejections' = rejections
        \/ rejections' = rejections + 1
    BY <1>2 DEF CallerStep, Submit, Modify, Deadline, Wait, TakeUpdate, TakeError,
                AnsweredByError, AnsweredByUpdate, NotAnswered, Timeout
  <2>3. HeldBy(c) \in SUBSET Promise!Pending /\ \A m, n \in HeldBy(c) : m = n
    BY <1>2 DEF Promise!Pending, StatusInv, EachUpdateOnce, Stolen, Held, HeldBy
  <2>4. CASE Stolen' = Stolen /\ rejections' = rejections
    BY <2>1, <2>4 DEF Promise!vars
  <2>5. CASE Stolen' = Stolen /\ rejections' = rejections + 1
    <3>1. {} \in SUBSET Promise!Pending /\ Stolen' = Stolen \cup {}
      BY <2>5
    <3> QED
      BY <2>1, <2>5, <3>1 DEF Promise!Next, Promise!Rejection
  <2>6. CASE AnsweredByError(c, FALSE) /\ Stolen' = Stolen \cup HeldBy(c)
    BY <2>1, <2>3, <2>6 DEF Promise!Next, Promise!Rejection, AnsweredByError
  <2> QED
    BY <2>1, <2>2, <2>4, <2>5, <2>6
<1>3. ASSUME StatusInv, DrainUpdates
      PROVE  Promise!Take
  BY <1>3, DrainStep DEF Promise!Take, Promise!Pending, DrainUpdates, reports
<1>4. ASSUME StatusInv, NEW i \in OrderIds, NEW s \in BrokerStatuses, OrderStatus(i, s)
      PROVE  Promise!Report
  BY <1>4, OrderStatusStep DEF Promise!Report, OrderStatus
<1>5. ASSUME StatusInv, NEW i \in OrderIds, ErrorReport(i)
      PROVE  UNCHANGED Promise!vars
  BY <1>5, ErrorReportStep DEF Promise!vars, ErrorReport
<1>6. ASSUME StatusInv, UNCHANGED statusVars
      PROVE  UNCHANGED Promise!vars
  BY <1>6, UnchangedStep DEF Promise!vars, statusVars, reports
<1>7. StatusInv /\ [StatusNext]_statusVars => [Promise!Next]_(Promise!vars)
  BY <1>2, <1>3, <1>4, <1>5, <1>6, NextSteps DEF Promise!Next
<1> QED
  BY <1>1, <1>7, InitialStatusInductive, PTL DEF StatusSpec, KeepsPromise, Promise!Spec

(* A submission or change that returns "cancelled" is right about its own   *)
(* order: no task puts an update back changed, or reads another's as its    *)
(* own, and the broker does not take a cancellation back.                   *)
THEOREM CancelledAlwaysTrue == StatusSpec => []CancelledIsTrue
<1>1. StatusInit => UpdatesTrue
  BY DEF StatusInit, UpdatesTrue, CancelledIsTrue, NoCall, NoAnswer
<1>2. StatusInv /\ UpdatesTrue /\ [StatusNext]_statusVars => UpdatesTrue'
  BY UpdatesTrueStep
<1>3. UpdatesTrue => CancelledIsTrue
  BY DEF UpdatesTrue
<1> QED
  BY <1>1, <1>2, <1>3, InitialStatusInductive, PTL DEF StatusSpec
=============================================================================
