----------------------------- MODULE ReaderProofs -----------------------------
(***************************************************************************)
(* The readers of the IBKR client's queues: WholeAnswers holds for any     *)
(* number of requests and items, OpenOrdersInStep for any finite set of    *)
(* orders and any requests, BarsOnce for any number of bars and            *)
(* subscriptions.                                                          *)
(***************************************************************************)
EXTENDS Answers, OpenOrders, BarStream, FiniteSetTheorems, SequenceTheorems, TLAPS


-----------------------------------------------------------------------------
(* Answers: the items of a request, and its end. *)

(* An item of an answer, taken apart.                                       *)
LEMMA ItemParts ==
  ASSUME NEW item \in AnswerItems
  PROVE  item[1] \in 1..Requests /\ item[2] \in 1..End /\ item = <<item[1], item[2]>>
BY DEF AnswerItems

(* Reading the head leaves the rest of the queue, one place further on.     *)
LEMMA Shifted ==
  ASSUME NEW S, NEW q \in Seq(S), q # <<>>
  PROVE  /\ Head(q) = q[1] /\ 1 \in DOMAIN q /\ Tail(q) \in Seq(S)
         /\ Len(Tail(q)) = Len(q) - 1
         /\ \A k \in DOMAIN Tail(q) : k + 1 \in DOMAIN q /\ Tail(q)[k] = q[k + 1]
OBVIOUS

(* Neighbours of a place in a queue of n items.                             *)
LEMMA Places ==
  ASSUME NEW n \in Nat \ {0}, NEW k \in 1..n
  PROVE  /\ k # n => k \in 1..(n - 1) /\ k + 1 \in 1..n
         /\ k # 1 => k - 1 \in 1..(n - 1) /\ (k - 1) + 1 = k
         /\ \A j \in 1..n : j < k => j # n
OBVIOUS

LEMMA InitAnswerInv == AnswerInit => AnswerInv
<1> SUFFICES ASSUME AnswerInit PROVE AnswerInv
  OBVIOUS
<1>1. AnswerTypeOK
  <2>1. asked \in 0..Requests /\ answerQ \in Seq(AnswerItems)
    BY AnswerConstants DEF AnswerInit
  <2>2. 0 \in 0..End
    BY AnswerConstants DEF End
  <2>3. sent \in [1..Requests -> 0..End] /\ heard \in [1..Requests -> 0..End]
    BY <2>2 DEF AnswerInit
  <2>4. [how |-> "none", items |-> {}]
          \in [how : {"none", "full", "timeout"}, items : SUBSET AnswerItems]
    OBVIOUS
  <2> QED
    BY <2>1, <2>3, <2>4 DEF AnswerInit, AnswerTypeOK
<1>2. \A r \in 1..Requests : heard[r] <= sent[r] /\ sent[r] = 0
  BY DEF AnswerInit
<1>3. QueuedWereHeard /\ OwnInOrder
  BY DEF AnswerInit, QueuedWereHeard, OwnInOrder
<1>4. OwnReadOrQueued /\ WholeAnswers
  BY DEF AnswerInit, OwnReadOrQueued, WholeAnswers
<1> QED
  BY <1>1, <1>2, <1>3, <1>4 DEF AnswerInv

(* A queue that lost its head keeps what holds of each item and each pair.  *)
LEMMA TailKeeps ==
  ASSUME AnswerInv, answerQ # <<>>, answerQ' = Tail(answerQ), UNCHANGED <<asked, heard>>
  PROVE  QueuedWereHeard' /\ OwnInOrder' /\ answerQ' \in Seq(AnswerItems)
<1>1. /\ answerQ' \in Seq(AnswerItems)
      /\ \A k \in DOMAIN answerQ' : k + 1 \in DOMAIN answerQ /\ answerQ'[k] = answerQ[k + 1]
  BY Shifted DEF AnswerInv, AnswerTypeOK
<1>2. QueuedWereHeard'
  BY <1>1 DEF AnswerInv, QueuedWereHeard
<1>3. OwnInOrder'
  <2> SUFFICES ASSUME NEW j \in DOMAIN answerQ', NEW k \in DOMAIN answerQ', j < k,
                      answerQ'[j][1] = asked, answerQ'[k][1] = asked
               PROVE  answerQ'[j][2] < answerQ'[k][2]
    BY DEF OwnInOrder, OwnItem
  <2>1. j \in Nat /\ k \in Nat
    BY <1>1
  <2>2. j + 1 < k + 1 /\ j + 1 \in DOMAIN answerQ /\ k + 1 \in DOMAIN answerQ
    BY <1>1, <2>1
  <2>3. answerQ[j + 1][1] = asked /\ answerQ[k + 1][1] = asked
    BY <1>1
  <2>4. answerQ[j + 1][2] < answerQ[k + 1][2]
    BY <2>2, <2>3 DEF AnswerInv, OwnInOrder, OwnItem
  <2> QED
    BY <1>1, <2>4
<1> QED
  BY <1>1, <1>2, <1>3

(* The item at the head is the only one that is no longer queued.           *)
LEMMA TailHas ==
  ASSUME NEW q \in Seq(AnswerItems), q # <<>>, NEW item, item # Head(q),
         \E k \in DOMAIN q : q[k] = item
  PROVE  \E k \in DOMAIN Tail(q) : Tail(q)[k] = item
<1>1. PICK k \in DOMAIN q : q[k] = item
  OBVIOUS
<1>2. k # 1 /\ k \in 1..Len(q)
  BY <1>1
<1>3. k - 1 \in DOMAIN Tail(q) /\ Tail(q)[k - 1] = item
  BY <1>1, <1>2
<1> QED
  BY <1>3

LEMMA AskKeeps == AnswerInv /\ Ask => AnswerInv'
<1> SUFFICES ASSUME AnswerInv, Ask PROVE AnswerInv'
  OBVIOUS
<1> USE AnswerConstants DEF AnswerInv, AnswerTypeOK, Ask
<1>1. \A k \in DOMAIN answerQ : answerQ[k][1] # asked'
  <2> SUFFICES ASSUME NEW k \in DOMAIN answerQ, answerQ[k][1] = asked + 1 PROVE FALSE
    OBVIOUS
  <2>1. answerQ[k][2] \in 1..End
    BY ItemParts
  <2>2. answerQ[k][2] <= heard[asked + 1]
    BY DEF QueuedWereHeard
  <2>3. asked + 1 \in 1..Requests
    OBVIOUS
  <2>4. heard[asked + 1] \in 0..End /\ heard[asked + 1] <= sent[asked + 1] /\ sent[asked + 1] = 0
    BY <2>3
  <2> HIDE DEF AnswerInv, AnswerTypeOK, Ask
  <2> QED
    BY <2>1, <2>2, <2>4 DEF End
<1>2. AnswerTypeOK' /\ \A r \in 1..Requests : heard'[r] <= sent'[r] /\ (r > asked' => sent'[r] = 0)
  BY DEF Awaits
<1>3. QueuedWereHeard' /\ WholeAnswers'
  BY DEF QueuedWereHeard, WholeAnswers
<1>4. OwnInOrder' /\ OwnReadOrQueued'
  BY <1>1 DEF OwnInOrder, OwnItem, OwnReadOrQueued
<1> QED
  BY <1>2, <1>3, <1>4

(* What the reader thread holds is not queued yet.                          *)
LEMMA ReplyKeeps == ASSUME NEW r \in 1..Requests, AnswerInv, Reply(r) PROVE AnswerInv'
<1> USE AnswerConstants DEF AnswerInv, AnswerTypeOK, Reply, requestVars
<1>0. End \in Nat /\ sent[r] \in 0..End /\ sent[r] + 1 \in 0..End
  BY DEF End
<1>1. /\ sent' \in [1..Requests -> 0..End] /\ sent'[r] = sent[r] + 1
      /\ \A s \in 1..Requests : s # r => sent'[s] = sent[s]
  <2>1. sent \in [1..Requests -> 0..End] /\ sent' = [sent EXCEPT ![r] = sent[r] + 1]
    OBVIOUS
  <2> HIDE DEF AnswerInv, AnswerTypeOK, Reply
  <2> QED
    BY <1>0, <2>1
<1>2. AnswerTypeOK' /\ \A s \in 1..Requests : heard'[s] <= sent'[s] /\ (s > asked' => sent'[s] = 0)
  <2>1. AnswerTypeOK' /\ heard' = heard /\ asked' = asked /\ r <= asked
    BY <1>1
  <2>2. \A s \in 1..Requests : s # r => heard'[s] <= sent'[s] /\ (s > asked' => sent'[s] = 0)
    BY <1>1, <2>1
  <2>3. heard[r] \in 0..End /\ heard[r] <= sent[r] /\ asked \in 0..Requests
    OBVIOUS
  <2> HIDE DEF AnswerInv, AnswerTypeOK, Reply
  <2>4. heard'[r] <= sent'[r] /\ ~(r > asked')
    BY <1>0, <1>1, <2>1, <2>3
  <2> QED
    BY <2>1, <2>2, <2>4
<1>3. QueuedWereHeard' /\ OwnInOrder'
  BY DEF QueuedWereHeard, OwnInOrder, OwnItem
<1>4. OwnReadOrQueued' /\ WholeAnswers'
  BY DEF OwnReadOrQueued, WholeAnswers
<1> QED
  BY <1>2, <1>3, <1>4

LEMMA DeliverKeeps == ASSUME NEW r \in 1..Requests, AnswerInv, Deliver(r) PROVE AnswerInv'
<1> USE AnswerConstants DEF AnswerInv, AnswerTypeOK, Deliver, requestVars
<1> DEFINE item == <<r, heard[r] + 1>>
<1>0. End \in Nat /\ heard[r] \in 0..End /\ sent[r] \in 0..End /\ heard[r] + 1 \in 1..End
  BY DEF End
<1>1. item \in AnswerItems
  BY <1>0 DEF AnswerItems
<1>2. /\ answerQ' \in Seq(AnswerItems) /\ Len(answerQ') = Len(answerQ) + 1
      /\ answerQ'[Len(answerQ) + 1] = item
      /\ \A k \in DOMAIN answerQ : k \in DOMAIN answerQ' /\ answerQ'[k] = answerQ[k]
      /\ \A k \in DOMAIN answerQ' : k \in DOMAIN answerQ \/ k = Len(answerQ) + 1
  BY <1>1
<1>3. /\ heard' \in [1..Requests -> 0..End] /\ heard'[r] = heard[r] + 1
      /\ \A s \in 1..Requests : s # r => heard'[s] = heard[s]
  <2>1. heard \in [1..Requests -> 0..End] /\ heard' = [heard EXCEPT ![r] = heard[r] + 1]
    OBVIOUS
  <2> HIDE DEF AnswerInv, AnswerTypeOK, Deliver
  <2> QED
    BY <1>0, <2>1
<1>4. \A k \in DOMAIN answerQ : answerQ[k] \in AnswerItems /\ answerQ[k][1] \in 1..Requests
                                 /\ answerQ[k][2] \in 1..End
  BY ItemParts
<1>5. AnswerTypeOK' /\ (\A s \in 1..Requests : heard'[s] <= sent'[s] /\ (s > asked' => sent'[s] = 0))
  BY <1>2, <1>3
<1>6. WholeAnswers' /\ UNCHANGED <<asked, waiting, got>>
  BY DEF WholeAnswers
<1>7. QueuedWereHeard /\ OwnInOrder /\ OwnReadOrQueued
  OBVIOUS
<1>8. asked \in 0..Requests /\ heard \in [1..Requests -> 0..End]
  OBVIOUS
<1> HIDE DEF AnswerInv, AnswerTypeOK, Deliver, requestVars
<1>9. QueuedWereHeard'
  <2> SUFFICES ASSUME NEW k \in DOMAIN answerQ' PROVE answerQ'[k][2] <= heard'[answerQ'[k][1]]
    BY DEF QueuedWereHeard
  <2>1. CASE k \in DOMAIN answerQ
    <3>1. answerQ[k][2] <= heard[answerQ[k][1]]
      BY <2>1, <1>7 DEF QueuedWereHeard
    <3>2. \A q \in 1..Requests : heard[q] \in Nat /\ heard'[q] \in Nat
      BY <1>0, <1>3, <1>8
    <3>3. \A q \in 1..Requests : heard[q] <= heard'[q]
      BY <1>0, <1>3, <3>2
    <3>4. answerQ'[k] = answerQ[k] /\ answerQ[k][1] \in 1..Requests /\ answerQ[k][2] \in Nat
      BY <2>1, <1>0, <1>2, <1>4
    <3> QED
      BY <3>1, <3>2, <3>3, <3>4
  <2>2. CASE k = Len(answerQ) + 1
    BY <2>2, <1>0, <1>2, <1>3
  <2> QED
    BY <2>1, <2>2, <1>2
<1>10. OwnInOrder'
  <2> SUFFICES ASSUME NEW j \in DOMAIN answerQ', NEW k \in DOMAIN answerQ', j < k,
                      answerQ'[j][1] = asked, answerQ'[k][1] = asked
               PROVE  answerQ'[j][2] < answerQ'[k][2]
    BY <1>6 DEF OwnInOrder, OwnItem
  <2>1. j \in DOMAIN answerQ
    BY <1>2
  <2>2. CASE k \in DOMAIN answerQ
    BY <2>1, <2>2, <1>2, <1>7 DEF OwnInOrder, OwnItem
  <2>3. CASE k = Len(answerQ) + 1
    <3>1. answerQ'[k] = item /\ r = asked /\ answerQ[j][1] = r
      BY <2>1, <2>3, <1>2
    <3>2. answerQ[j][2] <= heard[r]
      BY <2>1, <3>1, <1>7 DEF QueuedWereHeard
    <3>3. answerQ'[j] = answerQ[j] /\ answerQ[j][2] \in 1..End
      BY <2>1, <1>2, <1>4
    <3> QED
      BY <3>1, <3>2, <3>3, <1>0
  <2> QED
    BY <2>2, <2>3, <1>2
<1>11. OwnReadOrQueued'
  <2>1. got' \subseteq {<<asked', n>> : n \in 1..Items} /\ (waiting' => asked' # 0)
    BY <1>6, <1>7 DEF OwnReadOrQueued
  <2>2. ASSUME waiting', NEW n \in 1..heard'[asked]
        PROVE  <<asked, n>> \in got \/ \E k \in DOMAIN answerQ' : answerQ'[k] = <<asked, n>>
    <3>1. CASE r = asked /\ n = heard[r] + 1
      <4>1. Len(answerQ) + 1 \in DOMAIN answerQ'
        BY <1>2
      <4> QED
        BY <3>1, <4>1, <1>2
    <3>2. CASE ~(r = asked /\ n = heard[r] + 1)
      <4>1. waiting /\ n \in 1..heard[asked]
        BY <2>2, <3>2, <1>0, <1>3, <1>6, <1>7, <1>8 DEF OwnReadOrQueued
      <4> QED
        BY <4>1, <1>2, <1>7 DEF OwnReadOrQueued
    <3> QED
      BY <3>1, <3>2
  <2> QED
    BY <1>6, <2>1, <2>2 DEF OwnReadOrQueued
<1> QED
  BY <1>5, <1>9, <1>10, <1>11, <1>6 DEF AnswerInv

LEMMA TakeItemKeeps == AnswerInv /\ TakeItem => AnswerInv'
<1> SUFFICES ASSUME AnswerInv, TakeItem PROVE AnswerInv'
  OBVIOUS
<1> USE AnswerConstants DEF AnswerInv, AnswerTypeOK, TakeItem, Awaits
<1>1. Head(answerQ) \in AnswerItems
  OBVIOUS
<1>2. Head(answerQ) = <<asked, Head(answerQ)[2]>> /\ Head(answerQ)[2] \in 1..Items
  <2>1. /\ Head(answerQ) = <<Head(answerQ)[1], Head(answerQ)[2]>>
        /\ Head(answerQ)[2] \in 1..End
    BY <1>1, ItemParts
  <2>2. Head(answerQ)[1] = asked /\ Head(answerQ)[2] # End
    BY DEF OwnItem
  <2>3. Head(answerQ)[2] \in 1..Items
    BY <2>1, <2>2 DEF End
  <2> QED
    BY <2>1, <2>2, <2>3
<1>3. OwnReadOrQueued'
  <2>1. got' \subseteq {<<asked', n>> : n \in 1..Items} /\ asked' # 0
    <3>1. Head(answerQ) \in {<<asked, n>> : n \in 1..Items}
      BY <1>2
    <3>2. got \subseteq {<<asked, n>> : n \in 1..Items} /\ asked # 0
      BY DEF OwnReadOrQueued
    <3> QED
      BY <3>1, <3>2
  <2>2. ASSUME NEW n \in 1..heard[asked]
        PROVE  <<asked, n>> \in got' \/ \E k \in DOMAIN answerQ' : answerQ'[k] = <<asked, n>>
    <3>1. CASE <<asked, n>> \in got \/ <<asked, n>> = Head(answerQ)
      BY <3>1
    <3>2. CASE <<asked, n>> \notin got /\ <<asked, n>> # Head(answerQ)
      <4>1. \E k \in DOMAIN answerQ : answerQ[k] = <<asked, n>>
        BY <3>2 DEF OwnReadOrQueued
      <4> QED
        BY <3>2, <4>1, TailHas
    <3> QED
      BY <3>1, <3>2
  <2> QED
    BY <2>1, <2>2 DEF OwnReadOrQueued
<1>4. QueuedWereHeard' /\ OwnInOrder' /\ answerQ' \in Seq(AnswerItems)
  BY TailKeeps
<1>5. WholeAnswers'
  BY DEF WholeAnswers
<1> QED
  BY <1>3, <1>4, <1>5

(* The end marker is the last own item: what was sent before it is read.    *)
LEMMA TakeEndKeeps == AnswerInv /\ TakeEnd => AnswerInv'
<1> SUFFICES ASSUME AnswerInv, TakeEnd PROVE AnswerInv'
  OBVIOUS
<1> USE AnswerConstants DEF AnswerInv, AnswerTypeOK, TakeEnd, Return
<1>1. answerQ[1] = Head(answerQ) /\ 1 \in DOMAIN answerQ /\ answerQ[1][1] = asked
      /\ answerQ[1][2] = End /\ asked \in 1..Requests
  BY ItemParts DEF OwnItem
<1>2. heard[asked] = End
  <2>1. answerQ[1][2] <= heard[answerQ[1][1]]
    BY <1>1 DEF QueuedWereHeard
  <2>2. End \in Nat /\ heard[asked] \in 0..End
    BY <1>1 DEF End
  <2> QED
    BY <1>1, <2>1, <2>2
<1>3. got = {<<asked, n>> : n \in 1..Items}
  <2> SUFFICES ASSUME NEW n \in 1..Items PROVE <<asked, n>> \in got
    BY DEF OwnReadOrQueued
  <2>1. \A k \in DOMAIN answerQ : answerQ[k] # <<asked, n>>
    <3> SUFFICES ASSUME NEW k \in DOMAIN answerQ, answerQ[k] = <<asked, n>> PROVE FALSE
      OBVIOUS
    <3>1. answerQ[k][1] = asked /\ answerQ[k][2] = n
      OBVIOUS
    <3>2. k # 1
      BY <1>1, <3>1 DEF End
    <3>3. 1 < k
      BY <1>1, <3>2
    <3>4. answerQ[1][2] < answerQ[k][2]
      BY <1>1, <3>1, <3>3 DEF OwnInOrder, OwnItem
    <3> QED
      BY <1>1, <3>1, <3>4 DEF End
  <2> QED
    BY <1>2, <2>1 DEF OwnReadOrQueued, End
<1>4. WholeAnswers'
  BY <1>1, <1>3 DEF WholeAnswers
<1>5. QueuedWereHeard' /\ OwnInOrder' /\ answerQ' \in Seq(AnswerItems)
  BY TailKeeps
<1>6. got \subseteq AnswerItems
  <2>1. \A n \in 1..Items : n \in 1..End
    BY DEF End
  <2>2. \A n \in 1..Items : <<asked, n>> \in AnswerItems
    BY <1>1, <2>1 DEF AnswerItems
  <2> QED
    BY <1>3, <2>2
<1>7. AnswerTypeOK' /\ OwnReadOrQueued'
  BY <1>1, <1>5, <1>6 DEF OwnReadOrQueued
<1> QED
  BY <1>4, <1>5, <1>7

LEMMA PutBackKeeps == AnswerInv /\ PutBack => AnswerInv'
<1> SUFFICES ASSUME AnswerInv, PutBack PROVE AnswerInv'
  OBVIOUS
<1> USE AnswerConstants DEF AnswerInv, AnswerTypeOK, PutBack, Awaits, requestVars
<1> DEFINE n == Len(answerQ)
<1>1. /\ n \in Nat \ {0} /\ answerQ' \in Seq(AnswerItems) /\ Len(answerQ') = n
      /\ answerQ'[n] = answerQ[1] /\ DOMAIN answerQ' = 1..n /\ DOMAIN answerQ = 1..n
      /\ \A k \in 1..(n - 1) : answerQ'[k] = answerQ[k + 1]
  OBVIOUS
<1>2. answerQ[1] = Head(answerQ) /\ answerQ[1][1] # asked
  BY DEF OwnItem
<1>3. AnswerTypeOK' /\ WholeAnswers'
  BY <1>1 DEF WholeAnswers
<1>4. QueuedWereHeard'
  <2> SUFFICES ASSUME NEW k \in 1..n PROVE answerQ'[k][2] <= heard[answerQ'[k][1]]
    BY <1>1 DEF QueuedWereHeard
  <2>1. PICK i \in 1..n : answerQ'[k] = answerQ[i]
    <3>1. CASE k = n
      BY <3>1, <1>1
    <3>2. CASE k # n
      <4>1. k + 1 \in 1..n /\ k \in 1..(n - 1)
        BY <3>2, <1>1, Places
      <4> QED
        BY <4>1, <1>1
    <3> QED
      BY <3>1, <3>2
  <2>2. answerQ[i][2] <= heard[answerQ[i][1]]
    BY <1>1 DEF QueuedWereHeard
  <2> QED
    BY <2>1, <2>2
<1>5. OwnInOrder'
  <2> SUFFICES ASSUME NEW j \in 1..n, NEW k \in 1..n, j < k,
                      answerQ'[j][1] = asked, answerQ'[k][1] = asked
               PROVE  answerQ'[j][2] < answerQ'[k][2]
    BY <1>1 DEF OwnInOrder, OwnItem
  <2>1. k # n
    BY <1>1, <1>2
  <2>2. j \in 1..(n - 1) /\ k \in 1..(n - 1)
    <3>1. j # n
      BY <1>1, Places
    <3> QED
      BY <1>1, <2>1, <3>1, Places
  <2>3. answerQ'[j] = answerQ[j + 1] /\ answerQ'[k] = answerQ[k + 1]
    BY <1>1, <2>2
  <2>4. j + 1 \in DOMAIN answerQ /\ k + 1 \in DOMAIN answerQ /\ j + 1 < k + 1
    BY <1>1, <2>2
  <2>5. answerQ[j + 1][2] < answerQ[k + 1][2]
    BY <2>3, <2>4 DEF OwnInOrder, OwnItem
  <2> QED
    BY <2>3, <2>5
<1>6. OwnReadOrQueued'
  <2>1. ASSUME NEW i \in 1..heard[asked], \E k \in DOMAIN answerQ : answerQ[k] = <<asked, i>>
        PROVE  \E k \in DOMAIN answerQ' : answerQ'[k] = <<asked, i>>
    <3>1. PICK k \in 1..n : answerQ[k] = <<asked, i>>
      BY <2>1, <1>1
    <3>2. k # 1
      BY <3>1, <1>2
    <3>3. k - 1 \in 1..(n - 1) /\ (k - 1) + 1 = k
      BY <3>2, <1>1, Places
    <3>4. answerQ'[k - 1] = answerQ[k] /\ k - 1 \in DOMAIN answerQ'
      BY <3>3, <1>1
    <3> QED
      BY <3>1, <3>4
  <2> QED
    BY <2>1 DEF OwnReadOrQueued
<1> QED
  BY <1>3, <1>4, <1>5, <1>6

LEMMA DropItemKeeps == AnswerInv /\ DropItem => AnswerInv'
<1> SUFFICES ASSUME AnswerInv, DropItem PROVE AnswerInv'
  OBVIOUS
<1> USE AnswerConstants DEF AnswerInv, AnswerTypeOK, DropItem, Awaits, requestVars
<1>1. QueuedWereHeard' /\ OwnInOrder' /\ answerQ' \in Seq(AnswerItems)
  BY TailKeeps
<1>2. OwnReadOrQueued'
  <2>1. \A i \in 1..heard[asked] : <<asked, i>> # Head(answerQ)
    BY DEF OwnItem
  <2>2. ASSUME NEW i \in 1..heard[asked], \E k \in DOMAIN answerQ : answerQ[k] = <<asked, i>>
        PROVE  \E k \in DOMAIN answerQ' : answerQ'[k] = <<asked, i>>
    <3>1. <<asked, i>> # Head(answerQ)
      BY <2>1
    <3> QED
      BY <2>2, <3>1, TailHas
  <2> QED
    BY <2>2 DEF OwnReadOrQueued
<1>3. WholeAnswers'
  BY DEF WholeAnswers
<1> QED
  BY <1>1, <1>2, <1>3

LEMMA GiveUpKeeps == AnswerInv /\ GiveUp => AnswerInv'
<1> SUFFICES ASSUME AnswerInv, GiveUp PROVE AnswerInv'
  OBVIOUS
<1> USE AnswerConstants DEF AnswerInv, AnswerTypeOK, GiveUp, Return
<1>1. asked \in 1..Requests /\ got \subseteq AnswerItems
  BY DEF OwnReadOrQueued, AnswerItems, End
<1>2. AnswerTypeOK' /\ QueuedWereHeard' /\ OwnInOrder'
  BY <1>1 DEF QueuedWereHeard, OwnInOrder, OwnItem
<1>3. OwnReadOrQueued' /\ WholeAnswers'
  BY <1>1 DEF OwnReadOrQueued, WholeAnswers
<1> QED
  BY <1>2, <1>3

(* The inductive invariant holds for any number of requests and items.      *)
THEOREM AnswersInductive == AnswerSpec => []AnswerInv
<1>1. AnswerInv /\ [AnswerNext]_answerVars => AnswerInv'
  <2> SUFFICES ASSUME AnswerInv, [AnswerNext]_answerVars PROVE AnswerInv'
    OBVIOUS
  <2>1. CASE AnswerNext
    BY <2>1, AskKeeps, ReplyKeeps, DeliverKeeps, TakeItemKeeps, TakeEndKeeps, PutBackKeeps,
       DropItemKeeps, GiveUpKeeps
    DEF AnswerNext, Delivery, Taking
  <2>2. CASE UNCHANGED answerVars
    BY <2>2 DEF answerVars, requestVars, AnswerInv, AnswerTypeOK, QueuedWereHeard, OwnInOrder, OwnItem,
                OwnReadOrQueued, WholeAnswers
  <2> QED
    BY <2>1, <2>2
<1> QED
  BY <1>1, InitAnswerInv, PTL DEF AnswerSpec

(* A numbered request that returns before its deadline returns its whole    *)
(* answer and nothing else, whatever late answers it meets in the queue.    *)
THEOREM FullAnswersAreWhole == AnswerSpec => []WholeAnswers
BY AnswersInductive, PTL DEF AnswerInv

-----------------------------------------------------------------------------
(* OpenOrders: listings of the open orders. *)

(* An item of the queue is an order or a marker, never both.                *)
LEMMA ItemKinds ==
  /\ \A o \in Orders : OrderItem(o) \in QueueItems /\ OrderItem(o).kind = "order"
                        /\ OrderItem(o).order = o
  /\ \A n \in 1..Asks : Marker(n) \in QueueItems /\ Marker(n).kind = "end" /\ Marker(n).of = n
  /\ \A item \in QueueItems :
       \/ item.kind = "order" /\ item.order \in Orders /\ item = OrderItem(item.order)
       \/ item.kind = "end" /\ item.of \in 1..Asks /\ item = Marker(item.of)
BY DEF OrderItem, Marker, QueueItems

(* What follows the head of a sequence is one place further on in it.       *)
LEMMA Following ==
  ASSUME NEW S, NEW q \in Seq(S), q # <<>>
  PROVE  /\ Head(q) = q[1] /\ Head(q) \in S /\ 1 \in DOMAIN q /\ Tail(q) \in Seq(S)
         /\ DOMAIN q \subseteq Nat \ {0}
         /\ \A k \in DOMAIN Tail(q) : k + 1 \in DOMAIN q /\ Tail(q)[k] = q[k + 1]
         /\ \A k \in DOMAIN q : k # 1 => k - 1 \in DOMAIN Tail(q) /\ Tail(q)[k - 1] = q[k]
OBVIOUS

(* A place in a sequence with n more elements behind it.                    *)
LEMMA Behind ==
  ASSUME NEW S, NEW q \in Seq(S), NEW n \in Nat, NEW more \in [1..n -> S]
  PROVE  /\ q \o more \in Seq(S) /\ Len(q) \in Nat /\ DOMAIN (q \o more) = 1..(Len(q) + n)
         /\ \A k \in 1..Len(q) : (q \o more)[k] = q[k]
         /\ \A k \in 1..n : (q \o more)[Len(q) + k] = more[k]
         /\ \A k \in 1..(Len(q) + n) :
              k \in 1..Len(q) \/ (k - Len(q) \in 1..n /\ (q \o more)[k] = more[k - Len(q)])
<1>1. more \in Seq(S)
  BY SeqDef
<1>2. DOMAIN more = 1..n
  OBVIOUS
<1>3. Len(more) = n
  BY <1>1, <1>2, LenProperties
<1>4. /\ q \o more \in Seq(S) /\ Len(q \o more) = Len(q) + n /\ Len(q) \in Nat
      /\ \A i \in 1..(Len(q) + n) :
           (q \o more)[i] = IF i <= Len(q) THEN q[i] ELSE more[i - Len(q)]
  BY <1>1, <1>3, ConcatProperties, LenProperties
<1>5. ASSUME NEW k \in 1..Len(q) PROVE (q \o more)[k] = q[k]
  <2>1. k \in 1..(Len(q) + n) /\ k <= Len(q)
    BY <1>4
  <2> QED
    BY <1>4, <2>1
<1>6. ASSUME NEW k \in 1..n PROVE (q \o more)[Len(q) + k] = more[k]
  <2>1. Len(q) + k \in 1..(Len(q) + n) /\ ~(Len(q) + k <= Len(q)) /\ (Len(q) + k) - Len(q) = k
    BY <1>4
  <2> QED
    BY <1>4, <2>1
<1>7. ASSUME NEW k \in 1..(Len(q) + n), k \notin 1..Len(q)
      PROVE  k - Len(q) \in 1..n /\ (q \o more)[k] = more[k - Len(q)]
  <2>1. ~(k <= Len(q)) /\ k - Len(q) \in 1..n
    BY <1>4, <1>7
  <2> QED
    BY <1>4, <2>1
<1> QED
  BY <1>4, <1>5, <1>6, <1>7, LenProperties

LEMMA InitOrdersInv == OrdersInit => OrdersInv
<1> SUFFICES ASSUME OrdersInit PROVE OrdersInv
  OBVIOUS
<1>1. /\ made = 0 /\ served = 0 /\ giveUps = 0 /\ reading = FALSE /\ listed = {} /\ openQ = <<>>
      /\ listing.of = 0 /\ listing \in [of : {0}, by : {0}, orders : {{}}]
      /\ truth \in [1..Asks -> SUBSET Orders]
  BY DEF OrdersInit
<1>2. listing \in [of : 0..served, by : 0..made, orders : SUBSET Orders]
  BY <1>1
<1>3. ListingTypeOK
  <2>1. /\ made \in 0..Asks /\ served \in 0..made /\ giveUps \in Nat /\ reading \in BOOLEAN
        /\ listed \subseteq Orders
    <3>1. 0 \in 0..Asks /\ 0 \in 0..0 /\ 0 \in Nat
      BY OpenOrdersConstants
    <3> QED
      BY <1>1, <3>1
  <2>2. openQ \in Seq(QueueItems)
    BY <1>1
  <2> QED
    BY <1>1, <1>2, <2>1, <2>2 DEF ListingTypeOK
<1>4. MarkersInOrder /\ AnswersComplete
  BY <1>1 DEF MarkersInOrder, AnswersComplete
<1>5. EachEndsOnce /\ OpenOrdersInStep
  BY <1>1 DEF EachEndsOnce, OpenOrdersInStep
<1> QED
  BY <1>3, <1>4, <1>5 DEF OrdersInv

(* A step that leaves alone what the invariants of the queue speak of.      *)
LEMMA QueueAlone ==
  ASSUME UNCHANGED <<openQ, served, truth, giveUps, listing>>
  PROVE  /\ MarkersInOrder => MarkersInOrder'
         /\ AnswersComplete /\ listed' = listed => AnswersComplete'
         /\ OpenOrdersInStep => OpenOrdersInStep'
<1>1. MarkersInOrder => MarkersInOrder'
  BY DEF MarkersInOrder, StillQueued, Marker
<1>2. AnswersComplete /\ listed' = listed => AnswersComplete'
  BY DEF AnswersComplete, StillQueued, Marker, OrderItem
<1>3. OpenOrdersInStep => OpenOrdersInStep'
  BY DEF OpenOrdersInStep
<1> QED
  BY <1>1, <1>2, <1>3

(* A step that adds no marker and takes none keeps the order of markers.    *)
LEMMA PlacedKeeps == ASSUME NEW o \in Orders, OrdersInv, Placed(o) PROVE OrdersInv'
<1> USE OpenOrdersConstants DEF OrdersInv, ListingTypeOK
<1> DEFINE n == Len(openQ)
<1>1. /\ openQ' \in Seq(QueueItems) /\ n \in Nat /\ openQ'[n + 1] = OrderItem(o)
      /\ DOMAIN openQ = 1..n /\ DOMAIN openQ' = 1..(n + 1)
      /\ \A k \in 1..n : openQ'[k] = openQ[k]
  BY ItemKinds DEF Placed
<1>2. UNCHANGED <<made, served, truth, reading, listed, giveUps, listing>>
  BY DEF Placed
<1>3. \A k \in DOMAIN openQ', m \in 1..Asks : StillQueued(k, m)' <=> k \in 1..n /\ StillQueued(k, m)
  <2> SUFFICES ASSUME NEW k \in 1..(n + 1), NEW m \in 1..Asks
               PROVE  StillQueued(k, m)' <=> k \in 1..n /\ StillQueued(k, m)
    BY <1>1
  <2>1. CASE k \in 1..n
    BY <2>1, <1>1 DEF StillQueued, Marker
  <2>2. CASE k \notin 1..n
    <3>1. k = n + 1
      BY <1>1, <2>2
    <3>2. openQ'[k] # Marker(m)
      BY <1>1, <3>1, ItemKinds
    <3> QED
      BY <2>2, <3>2 DEF StillQueued, Marker
  <2> QED
    BY <2>1, <2>2
<1>4. \A k \in 1..n, m \in 1..Asks : StillQueued(k, m) => StillQueued(k, m)' /\ k \in DOMAIN openQ'
  BY <1>1 DEF StillQueued, Marker
<1>5. MarkersInOrder'
  <2>1. \A m \in (listing.of + 1)..served : m \in 1..Asks
    OBVIOUS
  <2> QED
    BY <1>1, <1>2, <1>3, <1>4, <2>1 DEF MarkersInOrder
<1>6. AnswersComplete'
  <2> SUFFICES ASSUME giveUps = 0, NEW k \in DOMAIN openQ', NEW m \in 1..Asks, StillQueued(k, m)',
                      NEW p \in truth[m], p \notin listed
               PROVE  \E j \in 1..(k - 1) : openQ'[j] = OrderItem(p)
    BY <1>2 DEF AnswersComplete
  <2>1. k \in 1..n /\ StillQueued(k, m)
    BY <1>3
  <2>2. PICK j \in 1..(k - 1) : openQ[j] = OrderItem(p)
    BY <1>1, <2>1 DEF AnswersComplete
  <2>3. j \in 1..n
    BY <1>1, <2>1
  <2> QED
    BY <1>1, <2>2, <2>3
<1>7. EachEndsOnce' /\ OpenOrdersInStep' /\ ListingTypeOK'
  BY <1>1, <1>2 DEF EachEndsOnce, OpenOrdersInStep
<1> QED
  BY <1>5, <1>6, <1>7

(* A step that leaves the queue, the requests and the listing alone.        *)
LEMMA EndsKeeps == ASSUME NEW o \in Orders, OrdersInv, Ends(o) PROVE OrdersInv'
BY QueueAlone DEF OrdersInv, ListingTypeOK, EachEndsOnce, Ends

LEMMA ServeKeeps ==
  ASSUME OrdersInv, NEW report \in [1..Cardinality(Working) -> Working], Serve(report)
  PROVE  OrdersInv'
<1> USE OpenOrdersConstants DEF OrdersInv, ListingTypeOK
<1> DEFINE c == Cardinality(Working)
           orders == [k \in DOMAIN report |-> OrderItem(report[k])]
           old == Len(openQ)
           mark == served + 1
<1>1. c \in Nat /\ Working \subseteq Orders
  <2>1. Working \subseteq Orders
    BY DEF Working
  <2> QED
    BY <2>1, FS_Subset, FS_CardinalityType
<1>2. /\ served' = mark /\ mark \in 1..made /\ mark \in 1..Asks
      /\ truth' = [truth EXCEPT ![mark] = Working]
      /\ UNCHANGED <<made, reading, listed, giveUps, listing>>
      /\ \A o \in Working : \E k \in 1..c : report[k] = o
  BY DEF Serve
<1>3. orders \in [1..c -> QueueItems]
  BY <1>1, ItemKinds
<1>4. /\ openQ \o orders \in Seq(QueueItems) /\ old \in Nat /\ DOMAIN (openQ \o orders) = 1..(old + c)
      /\ \A k \in 1..old : (openQ \o orders)[k] = openQ[k]
      /\ \A k \in 1..c : (openQ \o orders)[old + k] = orders[k]
      /\ \A k \in 1..(old + c) :
           k \in 1..old \/ (k - old \in 1..c /\ (openQ \o orders)[k] = orders[k - old])
  <2>1. openQ \in Seq(QueueItems)
    OBVIOUS
  <2> HIDE DEF OrdersInv, ListingTypeOK, orders, c
  <2> QED
    BY <1>1, <1>3, <2>1, Behind
<1>5. /\ openQ' = Append(openQ \o orders, Marker(mark))
      /\ openQ' \in Seq(QueueItems) /\ DOMAIN openQ' = 1..(old + c + 1)
      /\ openQ'[old + c + 1] = Marker(mark)
      /\ \A k \in 1..(old + c) : openQ'[k] = (openQ \o orders)[k]
  <2>1. Marker(mark) \in QueueItems /\ openQ' = Append(openQ \o orders, Marker(mark))
    BY <1>2, ItemKinds DEF Serve
  <2>2. Len(openQ \o orders) = old + c
    BY <1>1, <1>4, LenProperties
  <2> HIDE DEF OrdersInv, ListingTypeOK, orders, c, old
  <2> QED
    BY <1>4, <2>1, <2>2, AppendProperties, LenProperties
<1>6. /\ \A k \in 1..old : openQ'[k] = openQ[k] /\ k \in DOMAIN openQ /\ k \in DOMAIN openQ'
      /\ \A k \in DOMAIN openQ : k \in 1..old
  <2>1. DOMAIN openQ = 1..old
    BY LenProperties
  <2>2. \A k \in 1..old : k \in 1..(old + c) /\ k \in 1..(old + c + 1)
    BY <1>1, <1>4
  <2> HIDE DEF OrdersInv, ListingTypeOK, orders, c, old
  <2> QED
    BY <1>4, <1>5, <2>1, <2>2
<1>7. \A k \in DOMAIN openQ', m \in 1..Asks :
        StillQueued(k, m)' <=> (k \in 1..old /\ StillQueued(k, m)) \/ (k = old + c + 1 /\ m = mark)
  <2> SUFFICES ASSUME NEW k \in 1..(old + c + 1), NEW m \in 1..Asks
               PROVE  (openQ'[k] = Marker(m)) <=>
                        (k \in 1..old /\ openQ[k] = Marker(m)) \/ (k = old + c + 1 /\ m = mark)
    BY <1>5, <1>6 DEF StillQueued, Marker
  <2>1. CASE k \in 1..old
    <3>1. k # old + c + 1
      BY <1>1, <1>4, <2>1
    <3> QED
      BY <2>1, <3>1, <1>6
  <2>2. CASE k = old + c + 1
    <3>1. k \notin 1..old /\ openQ'[k] = Marker(mark)
      BY <1>1, <1>4, <1>5, <2>2
    <3>2. Marker(mark) = Marker(m) <=> m = mark
      BY <1>2, ItemKinds
    <3> QED
      BY <2>2, <3>1, <3>2
  <2>3. CASE k \notin 1..old /\ k # old + c + 1
    <3>1. k \in 1..(old + c)
      <4>1. old \in Nat /\ c \in Nat
        BY <1>1, <1>4, LenProperties
      <4> HIDE DEF old, c
      <4> QED
        BY <2>3, <4>1
    <3>2. k - old \in 1..c /\ openQ'[k] = orders[k - old]
      BY <1>4, <1>5, <2>3, <3>1
    <3>3. openQ'[k].kind = "order"
      BY <3>2, <1>1, ItemKinds
    <3> QED
      BY <2>3, <3>3, ItemKinds
  <2> QED
    BY <2>1, <2>2, <2>3
<1>8. old + c + 1 \in DOMAIN openQ' /\ \A k \in 1..old : k < old + c + 1
  BY <1>1, <1>4, <1>5
<1>9. ListingTypeOK'
  BY <1>1, <1>2, <1>5
<1>10. MarkersInOrder'
  <2>1. ASSUME NEW m \in (listing.of + 1)..mark PROVE \E k \in DOMAIN openQ' : StillQueued(k, m)'
    <3>1. m \in 1..Asks
      BY <1>2
    <3>2. CASE m = mark
      BY <3>1, <3>2, <1>7, <1>8
    <3>3. CASE m # mark
      <4>1. m \in (listing.of + 1)..served
        BY <3>3, <1>2
      <4>2. PICK k \in DOMAIN openQ : StillQueued(k, m)
        BY <4>1 DEF MarkersInOrder
      <4> QED
        BY <3>1, <4>2, <1>6, <1>7
    <3> QED
      BY <3>2, <3>3
  <2>2. ASSUME NEW j \in DOMAIN openQ', NEW m \in 1..Asks, StillQueued(j, m)'
        PROVE  m \in (listing.of + 1)..mark
    <3>1. CASE j \in 1..old /\ StillQueued(j, m)
      <4>1. m \in (listing.of + 1)..served
        BY <3>1, <1>6 DEF MarkersInOrder
      <4> QED
        BY <4>1, <1>2
    <3>2. CASE m = mark
      BY <3>2, <1>2
    <3> QED
      BY <2>2, <3>1, <3>2, <1>7
  <2>3. ASSUME NEW j \in DOMAIN openQ', NEW k \in DOMAIN openQ', NEW m \in 1..Asks, NEW i \in 1..Asks,
               StillQueued(j, m)', StillQueued(k, i)', j < k
        PROVE  m < i
    <3>1. j \in 1..old /\ StillQueued(j, m)
      <4>1. j # old + c + 1
        BY <2>3, <1>1, <1>4, <1>5
      <4> QED
        BY <2>3, <4>1, <1>7
    <3>2. CASE k \in 1..old /\ StillQueued(k, i)
      BY <2>3, <3>1, <3>2, <1>6 DEF MarkersInOrder
    <3>3. CASE i = mark
      <4>1. m \in (listing.of + 1)..served
        BY <3>1, <1>6 DEF MarkersInOrder
      <4> QED
        BY <4>1, <3>3, <1>2
    <3> QED
      BY <2>3, <3>2, <3>3, <1>7
  <2> QED
    BY <2>1, <2>2, <2>3, <1>2 DEF MarkersInOrder
<1>11. AnswersComplete'
  <2>1. listed' = listed /\ giveUps' = giveUps
    BY <1>2
  <2> SUFFICES ASSUME giveUps = 0, NEW k \in DOMAIN openQ', NEW m \in 1..Asks, StillQueued(k, m)',
                      NEW p \in truth'[m], p \notin listed
               PROVE  \E j \in 1..(k - 1) : openQ'[j] = OrderItem(p)
    <3> HIDE DEF OrdersInv, ListingTypeOK
    <3> QED
      BY <2>1 DEF AnswersComplete
  <2>2. CASE k \in 1..old /\ StillQueued(k, m)
    <3>1. m # mark
      <4>1. m \in (listing.of + 1)..served
        BY <2>2, <1>6 DEF MarkersInOrder
      <4> QED
        BY <4>1, <1>2
    <3>2. p \in truth[m]
      BY <3>1, <1>2
    <3>3. PICK j \in 1..(k - 1) : openQ[j] = OrderItem(p)
      BY <2>2, <3>2, <1>6 DEF AnswersComplete
    <3>4. j \in 1..old
      BY <2>2, <1>4
    <3> QED
      BY <3>3, <3>4, <1>6
  <2>3. CASE k = old + c + 1 /\ m = mark
    <3>1. p \in Working
      BY <2>3, <1>2
    <3>2. PICK i \in 1..c : report[i] = p
      BY <3>1, <1>2
    <3>3. old + i \in 1..(old + c) /\ old + i \in 1..(k - 1)
      BY <2>3, <1>1, <1>4
    <3>4. openQ'[old + i] = orders[i] /\ orders[i] = OrderItem(p)
      BY <3>2, <3>3, <1>4, <1>5
    <3> QED
      BY <3>3, <3>4
  <2> QED
    BY <2>2, <2>3, <1>7
<1>12. EachEndsOnce' /\ OpenOrdersInStep'
  <2>1. listing.of # 0 => listing.of # mark /\ listing.of \in 1..Asks
    BY <1>2
  <2>2. listing.of # 0 => truth'[listing.of] = truth[listing.of]
    BY <2>1, <1>2
  <2> QED
    BY <2>2, <1>2 DEF EachEndsOnce, OpenOrdersInStep
<1> QED
  BY <1>9, <1>10, <1>11, <1>12

(* No answer is queued when a request is made, or one has timed out.        *)
LEMMA AskOpenKeeps == OrdersInv /\ AskOpen => OrdersInv'
<1> SUFFICES ASSUME OrdersInv, AskOpen PROVE OrdersInv'
  OBVIOUS
<1> USE OpenOrdersConstants DEF OrdersInv, ListingTypeOK, AskOpen
<1>1. AnswersComplete'
  <2> SUFFICES ASSUME giveUps = 0, NEW k \in DOMAIN openQ, NEW m \in 1..Asks, StillQueued(k, m) PROVE FALSE
    BY DEF AnswersComplete, StillQueued, Marker
  <2>1. m \in (listing.of + 1)..served
    BY DEF MarkersInOrder
  <2> QED
    BY <2>1 DEF EachEndsOnce
<1>2. MarkersInOrder' /\ OpenOrdersInStep'
  BY QueueAlone
<1>3. EachEndsOnce'
  BY DEF EachEndsOnce
<1>4. ListingTypeOK'
  OBVIOUS
<1> QED
  BY <1>1, <1>2, <1>3, <1>4

(* The queue without its head has the same markers, but for a marker there. *)
LEMMA TailMarkers ==
  ASSUME OrdersInv, openQ # <<>>, openQ' = Tail(openQ)
  PROVE  /\ openQ' \in Seq(QueueItems)
         /\ \A k \in DOMAIN openQ', m \in 1..Asks : StillQueued(k, m)' => k + 1 \in DOMAIN openQ /\ StillQueued(k + 1, m)
         /\ \A k \in DOMAIN openQ, m \in 1..Asks :
              StillQueued(k, m) /\ k # 1 => k - 1 \in DOMAIN openQ' /\ StillQueued(k - 1, m)'
         /\ \A j, k \in DOMAIN openQ' : j < k => j + 1 < k + 1
<1>1. openQ \in Seq(QueueItems)
  BY DEF OrdersInv, ListingTypeOK
<1>2. \A j, k \in DOMAIN openQ' : j < k => j + 1 < k + 1
  BY <1>1, Following
<1> QED
  BY <1>1, <1>2, Following DEF StillQueued, Marker

LEMMA ReadOrderKeeps == OrdersInv /\ ReadOrder => OrdersInv'
<1> SUFFICES ASSUME OrdersInv, ReadOrder PROVE OrdersInv'
  OBVIOUS
<1> USE OpenOrdersConstants DEF OrdersInv, ListingTypeOK
<1>1. /\ openQ # <<>> /\ openQ' = Tail(openQ) /\ Head(openQ).kind = "order"
      /\ listed' = listed \cup {Head(openQ).order}
      /\ UNCHANGED <<made, served, truth, reading, giveUps, listing>>
  BY DEF ReadOrder, Collected
<1>2. /\ openQ[1] = OrderItem(Head(openQ).order) /\ Head(openQ).order \in Orders
      /\ openQ[1].kind = "order"
      /\ DOMAIN openQ \subseteq Nat \ {0}
  BY <1>1, Following, ItemKinds
<1>3. ListingTypeOK'
  BY <1>1, <1>2, TailMarkers
<1>4. MarkersInOrder'
  <2>1. ASSUME NEW m \in (listing.of + 1)..served PROVE \E k \in DOMAIN openQ' : StillQueued(k, m)'
    <3>1. m \in 1..Asks
      OBVIOUS
    <3>2. PICK k \in DOMAIN openQ : StillQueued(k, m)
      BY DEF MarkersInOrder
    <3>3. k # 1
      BY <1>2, <3>1, <3>2, ItemKinds DEF StillQueued
    <3> QED
      BY <1>1, <3>1, <3>2, <3>3, TailMarkers
  <2>2. ASSUME NEW j \in DOMAIN openQ', NEW k \in DOMAIN openQ', NEW m \in 1..Asks, NEW i \in 1..Asks
        PROVE  /\ StillQueued(j, m)' => m \in (listing.of + 1)..served
               /\ StillQueued(j, m)' /\ StillQueued(k, i)' /\ j < k => m < i
    BY <1>1, TailMarkers DEF MarkersInOrder
  <2> QED
    BY <1>1, <2>1, <2>2 DEF MarkersInOrder
<1>5. AnswersComplete'
  <2> SUFFICES ASSUME giveUps = 0, NEW k \in DOMAIN openQ', NEW m \in 1..Asks, StillQueued(k, m)',
                      NEW p \in truth[m], p \notin listed'
               PROVE  \E j \in 1..(k - 1) : openQ'[j] = OrderItem(p)
    BY <1>1 DEF AnswersComplete
  <2>1. k + 1 \in DOMAIN openQ /\ StillQueued(k + 1, m) /\ k \in Nat \ {0}
    BY <1>1, TailMarkers, Following
  <2>2. p \notin listed /\ (k + 1) - 1 = k
    BY <1>1, <2>1
  <2>3. PICK j \in 1..k : openQ[j] = OrderItem(p)
    BY <2>1, <2>2 DEF AnswersComplete
  <2>4. p \in Orders
    OBVIOUS
  <2>5. j # 1
    BY <1>1, <1>2, <2>3, <2>4, ItemKinds
  <2>6. j - 1 \in 1..(k - 1) /\ j \in DOMAIN openQ
    BY <2>1, <2>3, <2>5, LenProperties
  <2> QED
    BY <1>1, <2>3, <2>5, <2>6, Following
<1>6. EachEndsOnce' /\ OpenOrdersInStep'
  BY <1>1 DEF EachEndsOnce, OpenOrdersInStep
<1> QED
  BY <1>3, <1>4, <1>5, <1>6

(* The marker read is the next one: every other is queued behind it.        *)
LEMMA ReadEndKeeps == OrdersInv /\ ReadEnd => OrdersInv'
<1> SUFFICES ASSUME OrdersInv, ReadEnd PROVE OrdersInv'
  OBVIOUS
<1> USE OpenOrdersConstants DEF OrdersInv, ListingTypeOK
<1> DEFINE n == Head(openQ).of
<1>1. /\ openQ # <<>> /\ openQ' = Tail(openQ) /\ Head(openQ).kind = "end"
      /\ listing' = [of |-> n, by |-> made, orders |-> listed]
      /\ reading /\ reading' = FALSE
      /\ UNCHANGED <<made, served, truth, listed, giveUps>>
  BY DEF ReadEnd
<1>2. /\ openQ[1] = Marker(n) /\ n \in 1..Asks /\ 1 \in DOMAIN openQ
      /\ DOMAIN openQ \subseteq Nat \ {0}
  BY <1>1, Following, ItemKinds
<1>3. StillQueued(1, n)
  BY <1>2 DEF StillQueued
<1>4. n \in (listing.of + 1)..served
  BY <1>2, <1>3 DEF MarkersInOrder
<1>5. n = listing.of + 1
  <2> SUFFICES ASSUME n # listing.of + 1 PROVE FALSE
    OBVIOUS
  <2>1. listing.of + 1 \in (listing.of + 1)..served /\ listing.of + 1 \in 1..Asks
    BY <1>4
  <2>2. PICK k \in DOMAIN openQ : StillQueued(k, listing.of + 1)
    BY <2>1 DEF MarkersInOrder
  <2>3. k # 1
    BY <1>2, <2>1, <2>2, ItemKinds DEF StillQueued
  <2>4. 1 < k
    BY <1>2, <2>3
  <2>5. n < listing.of + 1
    BY <1>2, <1>3, <2>1, <2>2, <2>4 DEF MarkersInOrder
  <2> QED
    BY <1>4, <2>5
<1>6. ListingTypeOK'
  <2>1. n \in 0..served /\ made \in 0..made
    BY <1>4
  <2>2. listing' \in [of : 0..served, by : 0..made, orders : SUBSET Orders]
    BY <1>1, <2>1
  <2>3. openQ' \in Seq(QueueItems)
    BY <1>1, TailMarkers
  <2> QED
    BY <1>1, <2>2, <2>3
<1>7. MarkersInOrder'
  <2>1. ASSUME NEW m \in (n + 1)..served PROVE \E k \in DOMAIN openQ' : StillQueued(k, m)'
    <3>1. m \in 1..Asks /\ m \in (listing.of + 1)..served /\ m # n
      BY <1>4
    <3>2. PICK k \in DOMAIN openQ : StillQueued(k, m)
      BY <3>1 DEF MarkersInOrder
    <3>3. k # 1
      BY <1>2, <3>1, <3>2, ItemKinds DEF StillQueued
    <3> QED
      BY <1>1, <3>1, <3>2, <3>3, TailMarkers
  <2>2. ASSUME NEW j \in DOMAIN openQ', NEW m \in 1..Asks, StillQueued(j, m)'
        PROVE  m \in (n + 1)..served
    <3>1. j + 1 \in DOMAIN openQ /\ StillQueued(j + 1, m) /\ 1 < j + 1
      BY <1>1, <1>2, <2>2, TailMarkers, Following
    <3>2. m \in (listing.of + 1)..served /\ n < m
      BY <1>2, <1>3, <3>1 DEF MarkersInOrder
    <3> QED
      BY <3>2, <1>4
  <2>3. ASSUME NEW j \in DOMAIN openQ', NEW k \in DOMAIN openQ', NEW m \in 1..Asks, NEW i \in 1..Asks,
               StillQueued(j, m)', StillQueued(k, i)', j < k
        PROVE  m < i
    BY <1>1, <2>3, TailMarkers DEF MarkersInOrder
  <2> QED
    BY <1>1, <2>1, <2>2, <2>3 DEF MarkersInOrder
<1>8. EachEndsOnce' /\ made = n + giveUps
  BY <1>1, <1>5 DEF EachEndsOnce
<1>9. AnswersComplete'
  <2> SUFFICES ASSUME giveUps = 0, NEW k \in DOMAIN openQ', NEW m \in 1..Asks, StillQueued(k, m)' PROVE FALSE
    BY <1>1 DEF AnswersComplete
  <2>1. m \in (n + 1)..served
    BY <1>1, <1>7 DEF MarkersInOrder
  <2>2. served <= made /\ made = n /\ n \in Nat /\ served \in Nat
    BY <1>2, <1>8
  <2> QED
    BY <2>1, <2>2
<1>10. OpenOrdersInStep'
  <2>1. made - n = giveUps /\ giveUps \in 0..giveUps
    BY <1>4, <1>8
  <2>2. ASSUME giveUps = 0 PROVE truth[n] \subseteq listed
    <3> SUFFICES ASSUME NEW p \in truth[n], p \notin listed PROVE FALSE
      OBVIOUS
    <3>1. \E j \in 1..(1 - 1) : openQ[j] = OrderItem(p)
      BY <1>2, <1>3, <2>2 DEF AnswersComplete
    <3> QED
      BY <3>1
  <2> QED
    BY <1>1, <2>1, <2>2 DEF OpenOrdersInStep
<1> QED
  BY <1>6, <1>7, <1>8, <1>9, <1>10

LEMMA StopReadingKeeps == OrdersInv /\ StopReading => OrdersInv'
<1> SUFFICES ASSUME OrdersInv, StopReading PROVE OrdersInv'
  OBVIOUS
<1> USE DEF OrdersInv, ListingTypeOK, StopReading
<1>1. giveUps' # 0
  OBVIOUS
<1>2. MarkersInOrder'
  BY DEF MarkersInOrder, StillQueued, Marker
<1>3. AnswersComplete'
  BY <1>1 DEF AnswersComplete
<1>4. EachEndsOnce' /\ ListingTypeOK'
  <2>1. made = listing.of + giveUps + 1 /\ listing.of \in Nat /\ giveUps \in Nat
    BY DEF EachEndsOnce
  <2>2. made = listing.of + (giveUps + 1) + 0
    BY <2>1
  <2>3. ListingTypeOK'
    <3>1. ListingTypeOK /\ giveUps + 1 \in Nat
      BY <2>1
    <3> HIDE DEF OrdersInv
    <3> QED
      BY <3>1
  <2>4. EachEndsOnce'
    <3> HIDE DEF OrdersInv, ListingTypeOK
    <3> QED
      BY <2>2 DEF EachEndsOnce
  <2> QED
    BY <2>3, <2>4
<1>5. OpenOrdersInStep'
  <2>1. listing.by \in Nat /\ listing.of \in Nat
    OBVIOUS
  <2> QED
    BY <1>1, <2>1 DEF OpenOrdersInStep
<1> QED
  BY <1>2, <1>3, <1>4, <1>5

(* The inductive invariant holds for any finite set of orders.              *)
THEOREM OrdersInductive == OrdersSpec => []OrdersInv
<1>1. OrdersInv /\ [OrdersNext]_ordersVars => OrdersInv'
  <2> SUFFICES ASSUME OrdersInv, [OrdersNext]_ordersVars PROVE OrdersInv'
    OBVIOUS
  <2>1. CASE OrdersNext
    BY <2>1, PlacedKeeps, EndsKeeps, ServeKeeps, AskOpenKeeps, ReadOrderKeeps, ReadEndKeeps,
       StopReadingKeeps
    DEF OrdersNext
  <2>2. CASE UNCHANGED ordersVars
    BY <2>2, QueueAlone DEF ordersVars, OrdersInv, ListingTypeOK, EachEndsOnce
  <2> QED
    BY <2>1, <2>2
<1> QED
  BY <1>1, InitOrdersInv, PTL DEF OrdersSpec

(* A listing lags behind its request by the requests that timed out and no  *)
(* more, and while none has it lists every order that worked.               *)
THEOREM ListingsInStep == OrdersSpec => []OpenOrdersInStep
BY OrdersInductive, PTL DEF OrdersInv

-----------------------------------------------------------------------------
(* BarStream: the subscription to live bars. *)

(* A queued bar, taken apart.                                               *)
LEMMA BarParts ==
  ASSUME NEW u, NEW t, NEW bar \in (1..u) \X (1..t)
  PROVE  bar[1] \in 1..u /\ bar[2] \in 1..t
OBVIOUS

(* The bounds of the queue and of what was yielded may grow.                *)
LEMMA Wider ==
  ASSUME NEW u \in Nat, NEW v \in Nat, u <= v, NEW t \in Nat, NEW w \in Nat, t <= w
  PROVE  /\ \A q \in Seq((1..u) \X (1..t)) : q \in Seq((1..v) \X (1..w))
         /\ \A q \in Seq(1..t) : q \in Seq(1..w)
<1>1. 1..u \subseteq 1..v /\ 1..t \subseteq 1..w
  OBVIOUS
<1>2. (1..u) \X (1..t) \subseteq (1..v) \X (1..w)
  BY <1>1
<1> QED
  BY <1>1, <1>2, SeqMonotonic

(* What follows the head of a sequence is one place further on in it.       *)
LEMMA BarsFollowing ==
  ASSUME NEW S, NEW q \in Seq(S), q # <<>>
  PROVE  /\ Head(q) = q[1] /\ 1 \in DOMAIN q /\ Tail(q) \in Seq(S)
         /\ \A k \in DOMAIN Tail(q) :
              k \in Nat \ {0} /\ k + 1 \in DOMAIN q /\ Tail(q)[k] = q[k + 1]
OBVIOUS

(* A place in a sequence with n more elements behind it.                    *)
LEMMA BarsBehind ==
  ASSUME NEW S, NEW q \in Seq(S), NEW n \in Nat, NEW more \in [1..n -> S]
  PROVE  /\ q \o more \in Seq(S) /\ DOMAIN (q \o more) \subseteq Nat /\ Len(q) \in Nat
         /\ \A k \in DOMAIN (q \o more) :
              /\ k <= Len(q) => k \in DOMAIN q /\ (q \o more)[k] = q[k]
              /\ k > Len(q) => k - Len(q) \in 1..n /\ (q \o more)[k] = more[k - Len(q)]
<1>1. more \in Seq(S)
  BY SeqDef
<1>2. DOMAIN more = 1..n
  OBVIOUS
<1>3. Len(more) = n
  BY <1>1, <1>2, LenProperties
<1>4. /\ q \o more \in Seq(S) /\ Len(q \o more) = Len(q) + n /\ Len(q) \in Nat
      /\ \A i \in 1..(Len(q) + n) :
           (q \o more)[i] = IF i <= Len(q) THEN q[i] ELSE more[i - Len(q)]
  BY <1>1, <1>3, ConcatProperties, LenProperties
<1>5. DOMAIN (q \o more) = 1..(Len(q) + n) /\ DOMAIN q = 1..Len(q)
  BY <1>4, LenProperties
<1>6. ASSUME NEW k \in 1..(Len(q) + n)
      PROVE  /\ k <= Len(q) => k \in 1..Len(q) /\ (q \o more)[k] = q[k]
             /\ k > Len(q) => k - Len(q) \in 1..n /\ (q \o more)[k] = more[k - Len(q)]
  <2>1. k <= Len(q) => k \in 1..Len(q)
    BY <1>4
  <2>2. k > Len(q) => k - Len(q) \in 1..n /\ ~(k <= Len(q))
    BY <1>4
  <2> QED
    BY <1>4, <2>1, <2>2
<1> QED
  BY <1>4, <1>5, <1>6

LEMMA InitStreamInv == StreamInit => StreamInv
BY DEF StreamInit, StreamInv, StreamTypeOK, QueuedInOrder, MappedComeAfter, BarsOnce

LEMMA SubscribeKeeps == ASSUME StreamInv, NEW kept \in SUBSET active, Subscribe(kept) PROVE StreamInv'
<1> USE DEF StreamInv, StreamTypeOK, Subscribe, NumbersCleared
<1>1. used' \in Nat /\ used <= used' /\ used' = used + 1
  OBVIOUS
<1>2. barQ' \in Seq((1..used') \X (1..ticked')) /\ yielded' \in Seq(1..ticked')
  BY <1>1, Wider
<1>3. number' \in 0..used' /\ mapped' = {used + 1} /\ mapped' \subseteq {number'} \cap (1..used')
  OBVIOUS
<1>4. active' \subseteq 1..used'
  <2>1. 1..used \subseteq 1..used' /\ used + 1 \in 1..used'
    BY <1>1
  <2> QED
    BY <2>1
<1>5. MappedComeAfter'
  <2> SUFFICES ASSUME NEW k \in DOMAIN barQ, barQ[k][1] = used + 1 PROVE FALSE
    BY <1>3 DEF MappedComeAfter
  <2>1. barQ[k] \in (1..used) \X (1..ticked)
    OBVIOUS
  <2>2. barQ[k][1] \in 1..used
    BY <2>1, BarParts
  <2> QED
    BY <2>2
<1>6. QueuedInOrder' /\ BarsOnce'
  BY DEF QueuedInOrder, BarsOnce
<1> QED
  BY <1>1, <1>2, <1>3, <1>4, <1>5, <1>6

LEMMA UnsubscribeKeeps == StreamInv /\ Unsubscribe => StreamInv'
BY DEF StreamInv, StreamTypeOK, Unsubscribe, QueuedInOrder, MappedComeAfter, BarsOnce

LEMMA SendBarKeeps ==
  ASSUME StreamInv, NEW order \in [1..Cardinality(active) -> active],
         \A j, k \in DOMAIN order : order[j] = order[k] => j = k,
         SendBar(order)
  PROVE  StreamInv'
<1> DEFINE n == Cardinality(active)
           tick == ticked + 1
           more == [k \in DOMAIN order |-> <<order[k], tick>>]
           old == Len(barQ)
<1> USE DEF StreamInv, StreamTypeOK
<1>1. n \in Nat
  <2>1. IsFiniteSet(1..used)
    BY FS_Interval
  <2>2. IsFiniteSet(active)
    BY <2>1, FS_Subset
  <2> QED
    BY <2>2, FS_CardinalityType
<1>2. /\ ticked' = tick /\ tick \in Nat /\ barQ' = barQ \o more
      /\ UNCHANGED <<number, mapped, used, active, yielded>>
  BY DEF SendBar
<1>3. more \in [1..n -> (1..used) \X (1..tick)]
  <2>1. DOMAIN order = 1..n
    OBVIOUS
  <2>2. ASSUME NEW k \in 1..n PROVE <<order[k], tick>> \in (1..used) \X (1..tick)
    <3>1. order[k] \in active
      OBVIOUS
    <3>2. tick \in 1..tick
      BY <1>2
    <3> QED
      BY <3>1, <3>2
  <2> QED
    BY <2>1, <2>2
<1>4. barQ \in Seq((1..used) \X (1..tick)) /\ yielded \in Seq(1..tick)
  BY <1>2, Wider
<1>5. /\ barQ' \in Seq((1..used) \X (1..tick)) /\ DOMAIN barQ' \subseteq Nat /\ old \in Nat
      /\ \A k \in DOMAIN barQ' :
           /\ k <= old => k \in DOMAIN barQ /\ barQ'[k] = barQ[k]
           /\ k > old => k - old \in 1..n /\ barQ'[k] = more[k - old]
  <2> DEFINE S == (1..used) \X (1..tick)
  <2>1. n \in Nat /\ more \in [1..n -> S] /\ barQ \in Seq(S)
    BY <1>1, <1>3, <1>4
  <2> HIDE DEF n, tick, more, S, StreamInv, StreamTypeOK
  <2>2. /\ barQ \o more \in Seq(S) /\ DOMAIN (barQ \o more) \subseteq Nat
        /\ Len(barQ) \in Nat
        /\ \A k \in DOMAIN (barQ \o more) :
             /\ k <= Len(barQ) => k \in DOMAIN barQ /\ (barQ \o more)[k] = barQ[k]
             /\ k > Len(barQ) => k - Len(barQ) \in 1..n /\ (barQ \o more)[k] = more[k - Len(barQ)]
    BY <2>1, BarsBehind
  <2> QED
    BY <1>2, <2>2 DEF S
<1>6. StreamTypeOK'
  BY <1>2, <1>4, <1>5
<1>7. \A k \in DOMAIN barQ : barQ[k][2] \in 1..ticked
  BY BarParts
<1>8. ASSUME NEW k \in DOMAIN barQ', k > old
      PROVE  k - old \in DOMAIN order /\ barQ'[k] = <<order[k - old], tick>>
  BY <1>5, <1>8
<1>9. ASSUME NEW k \in DOMAIN barQ', k <= old
      PROVE  k \in DOMAIN barQ /\ barQ'[k] = barQ[k]
  BY <1>5, <1>9
<1>10. DOMAIN barQ' \subseteq Nat
  BY <1>5
<1>11. QueuedInOrder'
  <2> SUFFICES ASSUME NEW j \in DOMAIN barQ', NEW k \in DOMAIN barQ', j < k,
                      barQ'[j][1] = barQ'[k][1]
               PROVE  barQ'[j][2] < barQ'[k][2]
    BY DEF QueuedInOrder
  <2>1. CASE k <= old
    <3>1. j <= old
      BY <1>5, <1>10, <2>1
    <3> QED
      BY <2>1, <3>1, <1>9 DEF QueuedInOrder
  <2>2. CASE k > old /\ j <= old
    <3>1. barQ'[k][2] = tick /\ barQ'[j][2] \in 1..ticked
      BY <2>2, <1>7, <1>8, <1>9
    <3> QED
      BY <3>1
  <2>3. CASE k > old /\ j > old
    <3>1. order[k - old] = order[j - old] /\ k - old \in DOMAIN order /\ j - old \in DOMAIN order
      BY <2>3, <1>8
    <3>2. k - old = j - old
      BY <3>1
    <3> QED
      BY <3>2, <1>5, <1>10
  <2>4. (k <= old \/ k > old) /\ (j <= old \/ j > old)
    <3>1. k \in Nat /\ j \in Nat /\ old \in Nat
      BY <1>5
    <3> QED
      BY <3>1
  <2> QED
    BY <2>1, <2>2, <2>3, <2>4
<1>12. MappedComeAfter'
  <2> SUFFICES ASSUME NEW k \in DOMAIN barQ', barQ'[k][1] \in mapped, NEW j \in DOMAIN yielded
               PROVE  yielded[j] < barQ'[k][2]
    BY <1>2 DEF MappedComeAfter
  <2>1. CASE k <= old
    BY <2>1, <1>9 DEF MappedComeAfter
  <2>2. CASE k > old
    <3>1. barQ'[k][2] = tick /\ yielded[j] \in 1..ticked
      BY <2>2, <1>8
    <3> QED
      BY <3>1
  <2> QED
    BY <2>1, <2>2, <1>5, <1>10
<1>13. BarsOnce'
  BY <1>2 DEF BarsOnce
<1> QED
  BY <1>6, <1>11, <1>12, <1>13

(* A bar that is yielded comes after those before it and before those of    *)
(* its number still queued.                                                 *)
LEMMA YieldBarKeeps == StreamInv /\ YieldBar => StreamInv'
<1> SUFFICES ASSUME StreamInv, YieldBar PROVE StreamInv'
  OBVIOUS
<1> DEFINE bar == Head(barQ)
<1> USE DEF StreamInv, StreamTypeOK
<1>1. /\ barQ # <<>> /\ barQ' = Tail(barQ) /\ UNCHANGED <<number, mapped, used, active, ticked>>
      /\ bar = barQ[1] /\ 1 \in DOMAIN barQ
  BY DEF YieldBar
<1>2. /\ barQ' \in Seq((1..used) \X (1..ticked))
      /\ \A k \in DOMAIN barQ' : k \in Nat \ {0} /\ k + 1 \in DOMAIN barQ /\ barQ'[k] = barQ[k + 1]
  BY <1>1, BarsFollowing
<1>3. bar \in (1..used) \X (1..ticked) /\ bar[1] \in 1..used /\ bar[2] \in 1..ticked
  <2>1. bar \in (1..used) \X (1..ticked)
    BY <1>1
  <2> QED
    BY <2>1, BarParts
<1>4. QueuedInOrder'
  <2> SUFFICES ASSUME NEW j \in DOMAIN barQ', NEW k \in DOMAIN barQ', j < k,
                      barQ'[j][1] = barQ'[k][1]
               PROVE  barQ'[j][2] < barQ'[k][2]
    BY DEF QueuedInOrder
  <2>1. j + 1 < k + 1
    BY <1>2
  <2>2. barQ[j + 1][2] < barQ[k + 1][2]
    BY <1>2, <2>1 DEF QueuedInOrder
  <2> QED
    BY <1>2, <2>2
<1>5. CASE bar[1] \notin mapped
  <2>1. yielded' = yielded
    BY <1>5 DEF YieldBar
  <2>2. MappedComeAfter' /\ BarsOnce'
    BY <2>1, <1>1, <1>2 DEF MappedComeAfter, BarsOnce
  <2> QED
    BY <2>1, <2>2, <1>1, <1>2, <1>4
<1>6. CASE bar[1] \in mapped
  <2>1. yielded' = Append(yielded, bar[2])
    BY <1>6 DEF YieldBar
  <2>2. /\ yielded' \in Seq(1..ticked) /\ Len(yielded') = Len(yielded) + 1
        /\ \A j \in DOMAIN yielded : yielded'[j] = yielded[j]
        /\ yielded'[Len(yielded) + 1] = bar[2]
        /\ \A j \in DOMAIN yielded' : j \in DOMAIN yielded \/ j = Len(yielded) + 1
    <3>1. yielded \in Seq(1..ticked)
      OBVIOUS
    <3> HIDE DEF StreamInv, StreamTypeOK
    <3> QED
      BY <2>1, <1>3, <3>1
  <2>3. \A j \in DOMAIN yielded : yielded[j] < bar[2]
    BY <1>1, <1>6 DEF MappedComeAfter
  <2>4. BarsOnce'
    <3> SUFFICES ASSUME NEW j \in DOMAIN yielded', NEW k \in DOMAIN yielded', j < k
                 PROVE  yielded'[j] < yielded'[k]
      BY DEF BarsOnce
    <3>1. j \in DOMAIN yielded
      BY <2>2
    <3>2. CASE k \in DOMAIN yielded
      BY <3>1, <3>2, <2>2 DEF BarsOnce
    <3>3. CASE k = Len(yielded) + 1
      BY <3>1, <3>3, <2>2, <2>3
    <3> QED
      BY <3>2, <3>3, <2>2
  <2>5. MappedComeAfter'
    <3> SUFFICES ASSUME NEW k \in DOMAIN barQ', barQ'[k][1] \in mapped, NEW j \in DOMAIN yielded'
                 PROVE  yielded'[j] < barQ'[k][2]
      BY <1>1 DEF MappedComeAfter
    <3>1. k + 1 \in DOMAIN barQ /\ barQ'[k] = barQ[k + 1] /\ 1 < k + 1
      BY <1>2
    <3>2. CASE j \in DOMAIN yielded
      BY <3>1, <3>2, <2>2 DEF MappedComeAfter
    <3>3. CASE j = Len(yielded) + 1
      <4>1. barQ[1][1] = barQ[k + 1][1]
        <5>1. mapped \subseteq {number}
          OBVIOUS
        <5>2. barQ[1][1] \in mapped /\ barQ[k + 1][1] \in mapped
          BY <1>1, <1>6, <3>1
        <5> HIDE DEF StreamInv, StreamTypeOK
        <5> QED
          BY <5>1, <5>2
      <4>2. barQ[1][2] < barQ[k + 1][2]
        BY <1>1, <3>1, <4>1 DEF QueuedInOrder
      <4> QED
        BY <1>1, <2>2, <3>1, <3>3, <4>2
    <3> QED
      BY <3>2, <3>3, <2>2
  <2> QED
    BY <2>2, <2>4, <2>5, <1>1, <1>2, <1>4
<1> QED
  BY <1>5, <1>6

(* The inductive invariant holds for any bounds.                            *)
THEOREM StreamInductive == StreamSpec => []StreamInv
<1>1. StreamInv /\ [StreamNext]_streamVars => StreamInv'
  <2> SUFFICES ASSUME StreamInv, [StreamNext]_streamVars PROVE StreamInv'
    OBVIOUS
  <2>1. CASE StreamNext
    BY <2>1, SubscribeKeeps, UnsubscribeKeeps, SendBarKeeps, YieldBarKeeps DEF StreamNext
  <2>2. CASE UNCHANGED streamVars
    BY <2>2 DEF streamVars, StreamInv, StreamTypeOK, QueuedInOrder, MappedComeAfter, BarsOnce
  <2> QED
    BY <2>1, <2>2
<1> QED
  BY <1>1, InitStreamInv, PTL DEF StreamSpec

(* No bar reaches the engine twice or out of order, however often the       *)
(* stream is subscribed again and whatever old subscriptions are served.    *)
THEOREM BarsAlwaysOnce == StreamSpec => []BarsOnce
BY StreamInductive, PTL DEF StreamInv
=============================================================================
