-------------------------------- MODULE Sums --------------------------------
(***************************************************************************)
(* Folds, for the proofs: what the sums of the community modules over      *)
(* finite sets add up to, and their folds of sequences step by step.       *)
(*                                                                         *)
(* Induction is stated of a set of subsets, not of a predicate: a lemma    *)
(* cites it for the set of the subsets that are as it claims.              *)
(***************************************************************************)
EXTENDS Integers, FiniteSets, FiniteSetsExt, FiniteSetTheorems, WellFoundedInduction, TLAPS

(* A set of subsets that has the empty one, and with a subset those of one *)
(* element more, has them all.                                              *)
LEMMA SubsetInduction ==
  ASSUME NEW S, IsFiniteSet(S), NEW F, {} \in F,
         \A T \in SUBSET S : \A x \in S \ T : T \in F => T \cup {x} \in F
  PROVE  \A T \in SUBSET S : T \in F
<1> DEFINE R == StrictSubsetOrdering(S)
           all == FiniteSubsetsOf(S)
           bad == {T \in SUBSET S : T \notin F}
<1>1. all = SUBSET S
  <2>1. \A T \in SUBSET S : IsFiniteSet(T) BY FS_Subset
  <2> QED BY <2>1 DEF FiniteSubsetsOf
<1>2. SUFFICES ASSUME bad # {} PROVE FALSE OBVIOUS
<1>3. PICK T \in bad : \A U \in bad : ~ (<<U, T>> \in R)
  <2>1. IsWellFoundedOn(R, all) BY FS_StrictSubsetOrderingWellFounded
  <2>2. bad \in SUBSET all BY <1>1
  <2> HIDE DEF R, all, bad
  <2> QED BY <1>2, <2>1, <2>2, WFMin
<1>4. T \in SUBSET S /\ T \notin F OBVIOUS
<1>5. PICK x \in T : TRUE BY <1>4
<1> DEFINE U == T \ {x}
<1>6. U \in SUBSET S /\ U \cup {x} = T /\ x \in S \ U /\ U # T BY <1>4
<1>7. <<U, T>> \in R BY <1>4, <1>6 DEF StrictSubsetOrdering
<1>8. U \in F BY <1>3, <1>6, <1>7
<1> HIDE DEF U
<1>9. T \in F BY <1>6, <1>8
<1> QED BY <1>4, <1>9

(* And a set of subsets that has a subset whenever it has all smaller ones. *)
LEMMA CardinalityInduction ==
  ASSUME NEW S, IsFiniteSet(S), NEW F,
         \A n \in Nat : (\A T \in SUBSET S : Cardinality(T) < n => T \in F)
                          => \A T \in SUBSET S : Cardinality(T) = n => T \in F
  PROVE  \A T \in SUBSET S : T \in F
<1> DEFINE R == OpToRel(<, Nat)
           bad == {n \in Nat : \E T \in SUBSET S : Cardinality(T) = n /\ T \notin F}
<1>1. \A T \in SUBSET S : Cardinality(T) \in Nat BY FS_Subset, FS_CardinalityType
<1>2. SUFFICES ASSUME bad # {} PROVE FALSE BY <1>1
<1>3. PICK n \in bad : \A m \in bad : ~ (<<m, n>> \in R)
  <2>1. IsWellFoundedOn(R, Nat) BY NatLessThanWellFounded
  <2>2. bad \in SUBSET Nat OBVIOUS
  <2> HIDE DEF R, bad
  <2> QED BY <1>2, <2>1, <2>2, WFMin
<1>4. n \in Nat OBVIOUS
<1>5. ASSUME NEW T \in SUBSET S, Cardinality(T) < n PROVE T \in F
  <2>1. Cardinality(T) \in Nat /\ <<Cardinality(T), n>> \in R
    BY <1>1, <1>4, <1>5 DEF OpToRel
  <2> QED BY <1>3, <2>1
<1>6. \A T \in SUBSET S : Cardinality(T) = n => T \in F BY <1>4, <1>5
<1> QED BY <1>6

(* A fold that adds, of the values f has on the elements of a set.         *)
Total(f, S) == MapThenSumSet(LAMBDA x : f[x], S)

Adds(h, f, S) ==
  h = [T \in SUBSET S |-> IF T = {} THEN 0
                          ELSE LET x == CHOOSE x \in T : TRUE IN f[x] + h[T \ {x}]]

LEMMA TotalUnfolds ==
  ASSUME NEW f, NEW S PROVE Total(f, S) = (CHOOSE h : Adds(h, f, S))[S]
BY DEF Total, MapThenSumSet, MapThenFoldSet, Adds

LEMMA SameFunction ==
  ASSUME NEW D, NEW g, NEW h, g = [x \in D |-> g[x]], h = [x \in D |-> h[x]],
         \A x \in D : g[x] = h[x]
  PROVE  g = h
OBVIOUS

(* There is one such fold, and it adds the value of any element to that of *)
(* the rest.                                                                *)
LEMMA AddsExists ==
  ASSUME NEW f, NEW S, IsFiniteSet(S) PROVE \E h : Adds(h, f, S)
<1> DEFINE pick(T) == CHOOSE x \in T : TRUE
           n == Cardinality(S)
           Level(h, k) == \A U \in SUBSET S : Cardinality(U) <= k =>
                            h[U] = IF U = {} THEN 0 ELSE f[pick(U)] + h[U \ {pick(U)}]
           some == {k \in Nat : \E h : Level(h, k)}
<1>1. \A U \in SUBSET S : /\ Cardinality(U) \in Nat /\ IsFiniteSet(U) /\ Cardinality(U) <= n
                          /\ n \in Nat
  BY FS_Subset, FS_CardinalityType
<1>2. 0 \in some
  <2> DEFINE h == [U \in SUBSET S |-> 0]
  <2>1. Level(h, 0)
    <3> SUFFICES ASSUME NEW U \in SUBSET S, Cardinality(U) <= 0 PROVE U = {} OBVIOUS
    <3>1. Cardinality(U) = 0 BY <1>1
    <3> QED BY <1>1, <3>1, FS_EmptySet
  <2> QED BY <2>1
<1>3. ASSUME NEW k \in some PROVE k + 1 \in some
  <2>1. PICK h : Level(h, k) OBVIOUS
  <2> DEFINE g == [U \in SUBSET S |-> IF Cardinality(U) <= k THEN h[U]
                                      ELSE f[pick(U)] + h[U \ {pick(U)}]]
  <2>2. Level(g, k + 1)
    <3> SUFFICES ASSUME NEW U \in SUBSET S, Cardinality(U) <= k + 1
                 PROVE  g[U] = IF U = {} THEN 0 ELSE f[pick(U)] + g[U \ {pick(U)}]
      OBVIOUS
    <3> DEFINE V == U \ {pick(U)}
    <3>1. k \in Nat OBVIOUS
    <3>2. CASE U = {}
      <4>1. Cardinality(U) <= k BY <3>1, <3>2, FS_EmptySet
      <4>2. g[U] = h[U] BY <4>1
      <4>3. h[U] = 0 BY <2>1, <3>2, <4>1
      <4> QED BY <3>2, <4>2, <4>3
    <3>3. CASE U # {}
      <4>1. pick(U) \in U BY <3>3
      <4>2. V \in SUBSET S /\ Cardinality(V) = Cardinality(U) - 1
        BY <1>1, <4>1, FS_RemoveElement
      <4>3. Cardinality(V) <= k BY <1>1, <3>1, <4>2
      <4>4. g[V] = h[V] BY <4>2, <4>3
      <4>5. g[U] = f[pick(U)] + h[V]
        <5>1. CASE Cardinality(U) <= k
          <6>1. g[U] = h[U] BY <5>1
          <6>2. h[U] = f[pick(U)] + h[V] BY <2>1, <3>3, <5>1
          <6> QED BY <6>1, <6>2
        <5>2. CASE ~ (Cardinality(U) <= k) BY <5>2
        <5> QED BY <5>1, <5>2
      <4> QED BY <3>3, <4>4, <4>5
    <3> QED BY <3>2, <3>3
  <2> HIDE DEF g, Level
  <2> QED BY <2>2
<1>4. n \in some
  <2> DEFINE bad == {k \in Nat : k \notin some}
             R == OpToRel(<, Nat)
  <2> HIDE DEF some
  <2>1. SUFFICES ASSUME bad # {} PROVE FALSE BY <1>1
  <2>2. PICK k \in bad : \A j \in bad : ~ (<<j, k>> \in R)
    <3>1. IsWellFoundedOn(R, Nat) BY NatLessThanWellFounded
    <3>2. bad \in SUBSET Nat OBVIOUS
    <3> HIDE DEF R, bad
    <3> QED BY <2>1, <3>1, <3>2, WFMin
  <2>3. k \in Nat /\ k # 0 /\ k \notin some BY <1>2
  <2>4. k - 1 \in Nat /\ k - 1 < k /\ (k - 1) + 1 = k BY <2>3
  <2>5. <<k - 1, k>> \in R BY <2>3, <2>4 DEF OpToRel
  <2>6. k - 1 \in some BY <2>2, <2>4, <2>5
  <2>7. (k - 1) + 1 \in some BY <1>3, <2>6
  <2> QED BY <2>3, <2>4, <2>7
<1>5. PICK h : Level(h, n) BY <1>4
<1> DEFINE g == [U \in SUBSET S |-> h[U]]
<1>6. ASSUME NEW U \in SUBSET S
      PROVE  g[U] = IF U = {} THEN 0 ELSE f[pick(U)] + g[U \ {pick(U)}]
  <2>1. h[U] = IF U = {} THEN 0 ELSE f[pick(U)] + h[U \ {pick(U)}] BY <1>1, <1>5
  <2>2. U \ {pick(U)} \in SUBSET S OBVIOUS
  <2> QED BY <2>1, <2>2
<1>7. g = [U \in SUBSET S |-> IF U = {} THEN 0 ELSE f[pick(U)] + g[U \ {pick(U)}]]
  <2> DEFINE e == [U \in SUBSET S |-> IF U = {} THEN 0 ELSE f[pick(U)] + g[U \ {pick(U)}]]
  <2>1. \A U \in SUBSET S : g[U] = e[U] BY <1>6
  <2>2. g = [U \in SUBSET S |-> g[U]] /\ e = [U \in SUBSET S |-> e[U]] OBVIOUS
  <2>3. g = e
    <3> HIDE DEF g, e
    <3> QED BY <2>1, <2>2, SameFunction
  <2> QED BY <2>3
<1>8. Adds(g, f, S) 
  <2> HIDE DEF g
  <2> QED BY <1>7 DEF Adds
<1> QED BY <1>8

LEMMA AddsUnique ==
  ASSUME NEW f, NEW g, NEW S, IsFiniteSet(S), NEW h, NEW k, Adds(h, f, S), Adds(k, g, S),
         \A x \in S : f[x] = g[x]
  PROVE  h = k
<1> DEFINE same == {T \in SUBSET S : h[T] = k[T]}
           pick(T) == CHOOSE x \in T : TRUE
<1>1. ASSUME NEW T \in SUBSET S
      PROVE  /\ h[T] = IF T = {} THEN 0 ELSE f[pick(T)] + h[T \ {pick(T)}]
             /\ k[T] = IF T = {} THEN 0 ELSE g[pick(T)] + k[T \ {pick(T)}]
  BY DEF Adds
<1>2. h = [T \in SUBSET S |-> h[T]] /\ k = [T \in SUBSET S |-> k[T]] BY DEF Adds
<1>3. {} \in same BY <1>1
<1>4. ASSUME NEW n \in Nat, \A T \in SUBSET S : Cardinality(T) < n => T \in same
      PROVE  \A T \in SUBSET S : Cardinality(T) = n => T \in same
  <2> SUFFICES ASSUME NEW T \in SUBSET S, Cardinality(T) = n, T # {} PROVE T \in same
    BY <1>3
  <2> DEFINE c == pick(T)
  <2>1. c \in T OBVIOUS
  <2> HIDE DEF c
  <2>2. IsFiniteSet(T) BY FS_Subset
  <2>3. T \ {c} \in SUBSET S /\ Cardinality(T \ {c}) < n
    <3>1. Cardinality(T \ {c}) = Cardinality(T) - 1 BY <2>1, <2>2, FS_RemoveElement
    <3> QED BY <3>1
  <2>4. T \ {c} \in same BY <1>4, <2>3
  <2>5. f[c] = g[c] BY <2>1
  <2>6. h[T] = f[c] + h[T \ {c}] /\ k[T] = g[c] + k[T \ {c}] BY <1>1 DEF c
  <2>7. h[T \ {c}] = k[T \ {c}] BY <2>4
  <2>8. h[T] = k[T] BY <2>5, <2>6, <2>7
  <2> QED BY <2>8
<1>5. \A T \in SUBSET S : T \in same BY <1>4, CardinalityInduction
<1> HIDE DEF pick
<1> QED BY <1>2, <1>5, SameFunction

(* The fold over a part of the set is that part of the fold.               *)
LEMMA TotalPart ==
  ASSUME NEW f, NEW S, IsFiniteSet(S), NEW h, Adds(h, f, S), NEW T \in SUBSET S
  PROVE  Total(f, T) = h[T]
<1> DEFINE g == [U \in SUBSET T |-> h[U]]
           k == CHOOSE k : Adds(k, f, T)
<1>1. IsFiniteSet(T) BY FS_Subset
<1>2. Adds(g, f, T)
  <2> DEFINE e == [U \in SUBSET T |-> IF U = {} THEN 0
                     ELSE LET x == CHOOSE x \in U : TRUE IN f[x] + g[U \ {x}]]
  <2>1. \A U \in SUBSET T : g[U] = e[U] BY DEF Adds
  <2>2. g = [U \in SUBSET T |-> g[U]] /\ e = [U \in SUBSET T |-> e[U]] OBVIOUS
  <2>3. g = e
    <3> HIDE DEF g, e
    <3> QED BY <2>1, <2>2, SameFunction
  <2> HIDE DEF g
  <2> QED BY <2>3 DEF Adds
<1>3. Adds(k, f, T) BY <1>1, AddsExists
<1>4. k = g
  <2> HIDE DEF k, g
  <2> QED BY <1>1, <1>2, <1>3, AddsUnique
<1>5. Total(f, T) = k[T] BY TotalUnfolds
<1>6. g[T] = h[T] OBVIOUS
<1> QED BY <1>4, <1>5, <1>6

LEMMA TotalEmpty == ASSUME NEW f PROVE Total(f, {}) = 0
<1>1. IsFiniteSet({}) BY FS_EmptySet
<1>2. PICK h : Adds(h, f, {}) BY <1>1, AddsExists
<1>3. Total(f, {}) = h[{}] BY <1>1, <1>2, TotalPart
<1>4. h[{}] = 0 BY <1>2 DEF Adds
<1> QED BY <1>3, <1>4

LEMMA TotalSame ==
  ASSUME NEW f, NEW g, NEW S, IsFiniteSet(S), \A x \in S : f[x] = g[x]
  PROVE  Total(f, S) = Total(g, S)
<1>1. PICK h : Adds(h, f, S) BY AddsExists
<1>2. PICK k : Adds(k, g, S) BY AddsExists
<1>3. h = k BY <1>1, <1>2, AddsUnique
<1> QED BY <1>1, <1>2, <1>3, TotalPart

(* A sum is that of any element and of the others.                         *)
LEMMA TotalSplit ==
  ASSUME NEW f, NEW S, IsFiniteSet(S), \A x \in S : f[x] \in Int
  PROVE  /\ Total(f, S) \in Int
         /\ \A x \in S : Total(f, S) = f[x] + Total(f, S \ {x})
<1>1. PICK h : Adds(h, f, S) BY AddsExists
<1> DEFINE pick(T) == CHOOSE x \in T : TRUE
           good == {T \in SUBSET S : h[T] \in Int /\ \A x \in T : h[T] = f[x] + h[T \ {x}]}
<1>2. ASSUME NEW T \in SUBSET S
      PROVE  h[T] = IF T = {} THEN 0 ELSE f[pick(T)] + h[T \ {pick(T)}]
  BY <1>1 DEF Adds
<1>3. ASSUME NEW n \in Nat, \A T \in SUBSET S : Cardinality(T) < n => T \in good
      PROVE  \A T \in SUBSET S : Cardinality(T) = n => T \in good
  <2> SUFFICES ASSUME NEW T \in SUBSET S, Cardinality(T) = n PROVE T \in good OBVIOUS
  <2>1. IsFiniteSet(T) BY FS_Subset
  <2>2. ASSUME NEW x \in T
        PROVE T \ {x} \in SUBSET S /\ T \ {x} \in good /\ h[T \ {x}] \in Int /\ f[x] \in Int
    <3>1. Cardinality(T \ {x}) = Cardinality(T) - 1 BY <2>1, FS_RemoveElement
    <3>2. T \ {x} \in SUBSET S /\ Cardinality(T \ {x}) < n BY <3>1
    <3>3. T \ {x} \in good BY <1>3, <3>2
    <3> QED BY <3>2, <3>3
  <2>3. CASE T = {}
    <3>1. h[T] = 0 BY <1>2, <2>3
    <3> QED BY <2>3, <3>1
  <2>4. CASE T # {}
    <3> DEFINE c == pick(T)
    <3>1. c \in T BY <2>4
    <3>2. h[T] = f[c] + h[T \ {c}] BY <1>2, <2>4
    <3> HIDE DEF c, pick
    <3>3. h[T] \in Int BY <2>2, <3>1, <3>2
    <3>4. ASSUME NEW x \in T PROVE h[T] = f[x] + h[T \ {x}]
      <4>1. CASE x = c BY <3>2, <4>1
      <4>2. CASE x # c
        <5> DEFINE rest == (T \ {c}) \ {x}
        <5>1. x \in T \ {c} /\ c \in T \ {x} /\ rest = (T \ {x}) \ {c} BY <3>1, <4>2
        <5>2. h[T \ {c}] = f[x] + h[rest]
          <6>1. T \ {c} \in good BY <2>2, <3>1
          <6> QED BY <5>1, <6>1
        <5>3. h[T \ {x}] = f[c] + h[rest]
          <6>1. T \ {x} \in good BY <2>2
          <6>2. h[T \ {x}] = f[c] + h[(T \ {x}) \ {c}] BY <5>1, <6>1
          <6> QED BY <5>1, <6>2
        <5>4. f[x] \in Int /\ f[c] \in Int BY <2>2, <3>1
        <5>5. h[rest] \in Int
          <6>1. rest \in SUBSET S OBVIOUS
          <6>2. Cardinality(rest) < n
            <7>1. Cardinality(T \ {c}) = Cardinality(T) - 1 /\ IsFiniteSet(T \ {c})
              BY <2>1, <3>1, FS_RemoveElement
            <7>2. Cardinality(rest) = Cardinality(T \ {c}) - 1 BY <5>1, <7>1, FS_RemoveElement
            <7> QED BY <7>1, <7>2
          <6>3. rest \in good BY <1>3, <6>1, <6>2
          <6> QED BY <6>3
        <5> HIDE DEF rest
        <5> QED BY <3>2, <5>2, <5>3, <5>4, <5>5
      <4> QED BY <4>1, <4>2
    <3>5. \A x \in T : h[T] = f[x] + h[T \ {x}] BY <3>4
    <3> QED BY <3>3, <3>5
  <2> QED BY <2>3, <2>4
<1>4. S \in good
  <2>1. \A T \in SUBSET S : T \in good
    <3> HIDE DEF good
    <3> QED BY <1>3, CardinalityInduction
  <2> HIDE DEF good
  <2> QED BY <2>1
<1>5. Total(f, S) = h[S] BY <1>1, TotalPart
<1>6. ASSUME NEW x \in S PROVE Total(f, S \ {x}) = h[S \ {x}] BY <1>1, TotalPart
<1> QED BY <1>4, <1>5, <1>6

LEMMA TotalNat ==
  ASSUME NEW f, NEW S, IsFiniteSet(S), \A x \in S : f[x] \in Nat PROVE Total(f, S) \in Nat
<1> DEFINE good == {T \in SUBSET S : Total(f, T) \in Nat}
<1>1. {} \in good BY TotalEmpty
<1>2. ASSUME NEW T \in SUBSET S, NEW x \in S \ T, T \in good PROVE T \cup {x} \in good
  <2>1. IsFiniteSet(T \cup {x})
    <3>1. T \cup {x} \in SUBSET S OBVIOUS
    <3> QED BY <3>1, FS_Subset
  <2>2. \A y \in T \cup {x} : f[y] \in Int OBVIOUS
  <2>3. Total(f, T \cup {x}) = f[x] + Total(f, (T \cup {x}) \ {x}) BY <2>1, <2>2, TotalSplit
  <2>4. (T \cup {x}) \ {x} = T OBVIOUS
  <2>5. f[x] \in Nat /\ Total(f, T) \in Nat BY <1>2
  <2>6. Total(f, T \cup {x}) \in Nat BY <2>3, <2>4, <2>5
  <2> QED BY <2>6
<1>3. \A T \in SUBSET S : T \in good
  <2> HIDE DEF good
  <2> QED BY <1>1, <1>2, SubsetInduction
<1> QED BY <1>3

(* One value changes: the sum changes by as much.                          *)
LEMMA TotalChange ==
  ASSUME NEW f, NEW g, NEW S, IsFiniteSet(S), \A x \in S : f[x] \in Int /\ g[x] \in Int,
         NEW a \in S, \A x \in S \ {a} : f[x] = g[x]
  PROVE  Total(g, S) = Total(f, S) - f[a] + g[a]
<1> DEFINE rest == S \ {a}
<1>1. Total(f, S) = f[a] + Total(f, rest) /\ Total(g, S) = g[a] + Total(g, rest)
  BY TotalSplit
<1>2. IsFiniteSet(rest) BY FS_RemoveElement
<1>3. Total(f, rest) = Total(g, rest)
  <2> HIDE DEF rest
  <2>1. \A x \in rest : f[x] = g[x] BY DEF rest
  <2> QED BY <1>2, <2>1, TotalSame
<1>4. \A x \in rest : f[x] \in Int OBVIOUS
<1> HIDE DEF rest
<1>5. Total(f, rest) \in Int BY <1>2, <1>4, TotalSplit
<1> QED BY <1>1, <1>3, <1>5

(* The values of a queue: one more at its end, or the first one gone.      *)
LEMMA TotalAppend ==
  ASSUME NEW n \in Nat, NEW f, NEW g, \A k \in 1..n : f[k] \in Int /\ g[k] = f[k],
         g[n + 1] \in Int
  PROVE  Total(g, 1..(n + 1)) = Total(f, 1..n) + g[n + 1]
<1>1. IsFiniteSet(1..(n + 1)) /\ IsFiniteSet(1..n) BY FS_Interval
<1>2. n + 1 \in 1..(n + 1) /\ (1..(n + 1)) \ {n + 1} = 1..n OBVIOUS
<1>3. \A k \in 1..(n + 1) : g[k] \in Int
  <2>1. \A k \in 1..(n + 1) : k = n + 1 \/ k \in 1..n OBVIOUS
  <2> QED BY <2>1
<1>4. Total(g, 1..(n + 1)) = g[n + 1] + Total(g, 1..n)
  <2> DEFINE all == 1..(n + 1)
             last == n + 1
  <2>1. last \in all /\ all \ {last} = 1..n BY <1>2
  <2>2. IsFiniteSet(all) /\ \A k \in all : g[k] \in Int BY <1>1, <1>3
  <2> HIDE DEF all, last
  <2>3. Total(g, all) = g[last] + Total(g, all \ {last}) BY <2>1, <2>2, TotalSplit
  <2> QED BY <2>1, <2>3 DEF all, last
<1>5. Total(g, 1..n) = Total(f, 1..n) BY <1>1, TotalSame
<1>6. Total(f, 1..n) \in Int BY <1>1, TotalSplit
<1> QED BY <1>4, <1>5, <1>6

LEMMA TotalTail ==
  ASSUME NEW n \in Nat, NEW f, NEW g, \A k \in 1..(n + 1) : f[k] \in Int,
         \A k \in 1..n : g[k] = f[k + 1]
  PROVE  Total(g, 1..n) = Total(f, 1..(n + 1)) - f[1]
<1> DEFINE bad == {m \in Nat : m <= n /\ Total(g, 1..m) # Total(f, 1..(m + 1)) - f[1]}
           R == OpToRel(<, Nat)
<1>1. SUFFICES ASSUME bad # {} PROVE FALSE OBVIOUS
<1>2. PICK m \in bad : \A j \in bad : ~ (<<j, m>> \in R)
  <2>1. IsWellFoundedOn(R, Nat) BY NatLessThanWellFounded
  <2>2. bad \in SUBSET Nat OBVIOUS
  <2> HIDE DEF R, bad
  <2> QED BY <1>1, <2>1, <2>2, WFMin
<1>3. m \in Nat /\ m <= n /\ Total(g, 1..m) # Total(f, 1..(m + 1)) - f[1] OBVIOUS
<1>4. f[1] \in Int /\ f[m + 1] \in Int BY <1>3
<1>5. CASE m = 0
  <2>1. 1..m = {} BY <1>5
  <2>2. Total(f, 1..(m + 1)) = Total(f, 1..m) + f[m + 1]
    <3>1. \A k \in 1..m : f[k] \in Int /\ f[k] = f[k] BY <2>1
    <3> HIDE DEF bad, R
    <3> QED BY <1>3, <1>4, <3>1, TotalAppend
  <2>3. Total(f, 1..m) = 0 /\ Total(g, 1..m) = 0 BY <2>1, TotalEmpty
  <2>4. f[m + 1] = f[1] BY <1>5
  <2>5. Total(f, 1..(m + 1)) - f[1] = 0
    <3> HIDE DEF bad, R
    <3> QED BY <1>4, <2>2, <2>3, <2>4
  <2> QED BY <1>3, <2>3, <2>5
<1>6. CASE m # 0
  <2> DEFINE j == m - 1
  <2>1. j \in Nat /\ j + 1 = m /\ j < m /\ j <= n BY <1>3, <1>6
  <2>2. <<j, m>> \in R BY <1>3, <2>1 DEF OpToRel
  <2>3. j \notin bad
    <3> HIDE DEF bad, R, j
    <3> QED BY <1>2, <2>2
  <2>4. Total(g, 1..j) = Total(f, 1..(j + 1)) - f[1]
    <3> HIDE DEF j
    <3> QED BY <2>1, <2>3
  <2> HIDE DEF bad, R, j
  <2>5. Total(g, 1..(j + 1)) = Total(g, 1..j) + g[j + 1]
    <3>1. \A k \in 1..j : g[k] \in Int /\ g[k] = g[k]
      <4>1. \A k \in 1..j : k \in 1..n /\ k + 1 \in 1..(n + 1) BY <2>1
      <4> QED BY <4>1
    <3>2. g[j + 1] \in Int
      <4>1. j + 1 \in 1..n /\ (j + 1) + 1 \in 1..(n + 1) BY <1>3, <2>1
      <4> QED BY <4>1
    <3> QED BY <2>1, <3>1, <3>2, TotalAppend
  <2>6. Total(f, 1..(m + 1)) = Total(f, 1..m) + f[m + 1]
    <3>1. \A k \in 1..m : f[k] \in Int /\ f[k] = f[k]
      <4>1. \A k \in 1..m : k \in 1..(n + 1) BY <1>3
      <4> QED BY <4>1
    <3> QED BY <1>3, <1>4, <3>1, TotalAppend
  <2>7. g[j + 1] = f[m + 1]
    <3>1. j + 1 \in 1..n BY <1>3, <2>1
    <3> QED BY <2>1, <3>1
  <2>8. Total(f, 1..m) \in Int
    <3>1. IsFiniteSet(1..m) BY <1>3, FS_Interval
    <3>2. \A k \in 1..m : k \in 1..(n + 1) BY <1>3
    <3> QED BY <3>1, <3>2, TotalSplit
  <2> QED BY <1>3, <1>4, <2>1, <2>4, <2>5, <2>6, <2>7, <2>8
<1> QED BY <1>5, <1>6

(* Values of zero may be left out.                                          *)
LEMMA TotalMasked ==
  ASSUME NEW f, NEW g, NEW S, IsFiniteSet(S), NEW T \in SUBSET S,
         \A x \in T : f[x] \in Int /\ g[x] = f[x], \A x \in S \ T : g[x] = 0
  PROVE  Total(g, S) = Total(f, T)
<1> DEFINE same == {U \in SUBSET (S \ T) : Total(g, T \cup U) = Total(f, T)}
<1>1. IsFiniteSet(T) /\ IsFiniteSet(S \ T) BY FS_Subset
<1>2. (\A x \in S : g[x] \in Int) /\ \A x \in T : f[x] \in Int OBVIOUS
<1>3. {} \in same
  <2>1. T \cup {} = T OBVIOUS
  <2>2. Total(g, T) = Total(f, T) BY <1>1, TotalSame
  <2> QED BY <2>1, <2>2
<1>4. ASSUME NEW U \in SUBSET (S \ T), NEW x \in (S \ T) \ U, U \in same
      PROVE  U \cup {x} \in same
  <2> DEFINE all == T \cup (U \cup {x})
  <2>1. all \in SUBSET S /\ x \in all /\ all \ {x} = T \cup U OBVIOUS
  <2>2. IsFiniteSet(all) /\ \A y \in all : g[y] \in Int BY <1>2, <2>1, FS_Subset
  <2> HIDE DEF all
  <2>3. Total(g, all) = g[x] + Total(g, all \ {x}) BY <2>1, <2>2, TotalSplit
  <2>4. g[x] = 0 /\ Total(g, T \cup U) = Total(f, T) BY <1>4
  <2>5. Total(f, T) \in Int BY <1>1, <1>2, TotalSplit
  <2>6. Total(g, all) = Total(f, T)
    <3>1. Total(g, all \ {x}) = Total(f, T) BY <2>1, <2>4
    <3> QED BY <2>3, <2>4, <2>5, <3>1
  <2>7. U \cup {x} \in SUBSET (S \ T) OBVIOUS
  <2> QED BY <2>6, <2>7 DEF all
<1>5. S \ T \in same
  <2>1. \A U \in SUBSET (S \ T) : U \in same
    <3> HIDE DEF same
    <3> QED BY <1>1, <1>3, <1>4, SubsetInduction
  <2> HIDE DEF same
  <2> QED BY <2>1
<1>6. T \cup (S \ T) = S OBVIOUS
<1>7. Total(g, T \cup (S \ T)) = Total(f, T) BY <1>5
<1> QED BY <1>6, <1>7

(* What is zero adds nothing, and what adds up to nothing is zero.          *)
LEMMA TotalZero ==
  ASSUME NEW f, NEW S, IsFiniteSet(S), \A x \in S : f[x] = 0 PROVE Total(f, S) = 0
<1> DEFINE none == {}
<1>1. none \in SUBSET S /\ \A x \in none : f[x] \in Int /\ f[x] = f[x] OBVIOUS
<1>2. \A x \in S \ none : f[x] = 0 OBVIOUS
<1>3. Total(f, none) = 0 BY TotalEmpty
<1> HIDE DEF none
<1>4. Total(f, S) = Total(f, none) BY <1>1, <1>2, TotalMasked
<1> QED BY <1>3, <1>4

LEMMA TotalNone ==
  ASSUME NEW f, NEW S, IsFiniteSet(S), \A x \in S : f[x] \in Nat, Total(f, S) = 0
  PROVE  \A x \in S : f[x] = 0
<1> SUFFICES ASSUME NEW x \in S PROVE f[x] = 0 OBVIOUS
<1> DEFINE rest == S \ {x}
<1>1. Total(f, S) = f[x] + Total(f, rest)
  <2>1. \A y \in S : f[y] \in Int OBVIOUS
  <2> QED BY <2>1, TotalSplit
<1>2. IsFiniteSet(rest) /\ \A y \in rest : f[y] \in Nat BY FS_RemoveElement
<1> HIDE DEF rest
<1>3. Total(f, rest) \in Nat BY <1>2, TotalNat
<1> QED BY <1>1, <1>3

(* Of counts that add up to one at most one is not zero.                    *)
LEMMA TotalOne ==
  ASSUME NEW f, NEW S, IsFiniteSet(S), \A x \in S : f[x] \in Nat, Total(f, S) = 1
  PROVE  \A x, y \in S : f[x] # 0 /\ f[y] # 0 => x = y
<1> SUFFICES ASSUME NEW x \in S, NEW y \in S, f[x] # 0, x # y PROVE f[y] = 0 OBVIOUS
<1> DEFINE rest == S \ {x}
<1>1. Total(f, S) = f[x] + Total(f, rest)
  <2>1. \A z \in S : f[z] \in Int OBVIOUS
  <2> QED BY <2>1, TotalSplit
<1>2. IsFiniteSet(rest) /\ (\A z \in rest : f[z] \in Nat) /\ y \in rest
  BY FS_RemoveElement
<1> HIDE DEF rest
<1>3. Total(f, rest) \in Nat BY <1>2, TotalNat
<1>4. Total(f, rest) = 0 BY <1>1, <1>3
<1> QED BY <1>2, <1>4, TotalNone

LEMMA TotalNegated ==
  ASSUME NEW f, NEW g, NEW S, IsFiniteSet(S), \A x \in S : f[x] \in Int /\ g[x] = -f[x]
  PROVE  Total(g, S) = -Total(f, S)
<1> DEFINE good == {T \in SUBSET S : Total(g, T) = -Total(f, T)}
<1>1. {} \in good
  <2>1. Total(f, {}) = 0 /\ Total(g, {}) = 0 BY TotalEmpty
  <2> QED BY <2>1
<1>2. ASSUME NEW T \in SUBSET S, NEW x \in S \ T, T \in good PROVE T \cup {x} \in good
  <2> DEFINE all == T \cup {x}
  <2>1. all \in SUBSET S /\ x \in all /\ all \ {x} = T OBVIOUS
  <2>2. IsFiniteSet(all) /\ IsFiniteSet(T) BY <2>1, FS_Subset
  <2>3. \A y \in all : f[y] \in Int /\ g[y] \in Int BY <2>1
  <2> HIDE DEF all
  <2>4. Total(f, all) = f[x] + Total(f, T) /\ Total(g, all) = g[x] + Total(g, T)
    <3>1. (\A y \in all : f[y] \in Int) /\ \A y \in all : g[y] \in Int BY <2>3
    <3>2. Total(f, all) = f[x] + Total(f, all \ {x}) BY <2>1, <2>2, <3>1, TotalSplit
    <3>3. Total(g, all) = g[x] + Total(g, all \ {x}) BY <2>1, <2>2, <3>1, TotalSplit
    <3> QED BY <2>1, <3>2, <3>3
  <2>5. Total(f, T) \in Int
    <3>1. \A y \in T : f[y] \in Int OBVIOUS
    <3> QED BY <2>2, <3>1, TotalSplit
  <2>6. g[x] = -f[x] /\ f[x] \in Int /\ Total(g, T) = -Total(f, T) BY <1>2
  <2>7. Total(g, all) = -Total(f, all) BY <2>4, <2>5, <2>6
  <2> QED BY <2>1, <2>7 DEF all
<1>3. \A T \in SUBSET S : T \in good
  <2> HIDE DEF good
  <2> QED BY <1>1, <1>2, SubsetInduction
<1> QED BY <1>3

(* The same values in other places, the other places being zero.            *)
LEMMA TotalMoved ==
  ASSUME NEW f, NEW K, IsFiniteSet(K), NEW h, NEW L, IsFiniteSet(L), NEW place,
         \A k \in K : place[k] \in L /\ f[k] \in Int /\ h[place[k]] = f[k],
         \A j, k \in K : place[j] = place[k] => j = k,
         \A l \in L : (\A k \in K : place[k] # l) => h[l] = 0
  PROVE  Total(f, K) = Total(h, L)
<1> DEFINE At(U) == {place[k] : k \in U}
           same == {U \in SUBSET K : Total(f, U) = Total(h, At(U))}
<1>1. {} \in same
  <2>1. At({}) = {} OBVIOUS
  <2>2. Total(f, {}) = 0 /\ Total(h, {}) = 0 BY TotalEmpty
  <2> QED BY <2>1, <2>2
<1>2. ASSUME NEW U \in SUBSET K, NEW x \in K \ U, U \in same PROVE U \cup {x} \in same
  <2> DEFINE all == U \cup {x}
             there == At(all)
  <2>1. all \in SUBSET K /\ x \in all /\ all \ {x} = U OBVIOUS
  <2>2. there \in SUBSET L /\ place[x] \in there /\ there \ {place[x]} = At(U) OBVIOUS
  <2>3. IsFiniteSet(all) /\ IsFiniteSet(there) BY <2>1, <2>2, FS_Subset
  <2>4. (\A k \in all : f[k] \in Int) /\ \A l \in there : h[l] \in Int OBVIOUS
  <2>5. Total(f, U) = Total(h, At(U)) /\ h[place[x]] = f[x] BY <1>2
  <2> HIDE DEF all, there, At
  <2>6. Total(f, all) = f[x] + Total(f, U)
    <3>1. Total(f, all) = f[x] + Total(f, all \ {x}) BY <2>1, <2>3, <2>4, TotalSplit
    <3> QED BY <2>1, <3>1
  <2>7. Total(h, there) = h[place[x]] + Total(h, At(U))
    <3> DEFINE p == place[x]
    <3>1. p \in there BY <2>2
    <3> HIDE DEF p
    <3>2. Total(h, there) = h[p] + Total(h, there \ {p})
      BY <2>3, <2>4, <3>1, TotalSplit
    <3> QED BY <2>2, <3>2 DEF p
  <2>8. Total(f, all) = Total(h, there) BY <2>5, <2>6, <2>7
  <2> QED BY <2>1, <2>8 DEF all, there
<1>3. \A U \in SUBSET K : U \in same
  <2> HIDE DEF same
  <2> QED BY <1>1, <1>2, SubsetInduction
<1>4. Total(f, K) = Total(h, At(K)) BY <1>3
<1>5. Total(h, L) = Total(h, At(K))
  <2>1. At(K) \in SUBSET L OBVIOUS
  <2>2. \A l \in At(K) : h[l] \in Int /\ h[l] = h[l] OBVIOUS
  <2>3. \A l \in L \ At(K) : h[l] = 0 OBVIOUS
  <2> HIDE DEF At
  <2> QED BY <2>1, <2>2, <2>3, TotalMasked
<1> QED BY <1>4, <1>5

(* The largest number of a bounded set.                                     *)
LEMMA MaxOf ==
  ASSUME NEW n \in Nat, NEW S \in SUBSET (0..n), S # {}
  PROVE  Max(S) \in S /\ \A y \in S : y <= Max(S)
<1> DEFINE T == {n - x : x \in S}
           R == OpToRel(<, Nat)
<1>1. \A x \in S : x \in Nat /\ n - x \in Nat OBVIOUS
<1>2. T \in SUBSET Nat /\ T # {} BY <1>1
<1>3. IsWellFoundedOn(R, Nat) BY NatLessThanWellFounded
<1>4. PICK t \in T : \A y \in T : ~ (<<y, t>> \in R)
  <2> HIDE DEF T, R
  <2> QED BY <1>2, <1>3, WFMin
<1>5. \A y \in T : t <= y
  <2> SUFFICES ASSUME NEW y \in T PROVE t <= y OBVIOUS
  <2>1. t \in Nat /\ y \in Nat BY <1>2
  <2>2. ~ (<<y, t>> \in R) BY <1>4
  <2>3. ~ (y < t) BY <2>1, <2>2 DEF OpToRel
  <2> QED BY <2>1, <2>3
<1>6. PICK x \in S : t = n - x OBVIOUS
<1>7. \A y \in S : x >= y
  <2> SUFFICES ASSUME NEW y \in S PROVE x >= y OBVIOUS
  <2>1. n - x <= n - y BY <1>5, <1>6
  <2>2. x \in Nat /\ y \in Nat BY <1>1
  <2> HIDE DEF T, R
  <2> QED BY <2>1, <2>2
<1>8. Max(S) \in S /\ \A y \in S : Max(S) >= y BY <1>7 DEF Max
<1> QED BY <1>1, <1>8

-----------------------------------------------------------------------------
(* Folds from left to right: the community modules fold a sequence over    *)
(* the subsets of its indices, the largest index last.                      *)

LEMMA PrefixInduction ==
  ASSUME NEW n \in Nat, NEW F, 0 \in F, \A k \in 0..(n - 1) : k \in F => k + 1 \in F
  PROVE  \A k \in 0..n : k \in F
<1> DEFINE bad == {k \in 0..n : k \notin F}
           R == OpToRel(<, Nat)
<1>1. SUFFICES ASSUME bad # {} PROVE FALSE OBVIOUS
<1>2. PICK k \in bad : \A j \in bad : ~ (<<j, k>> \in R)
  <2>1. IsWellFoundedOn(R, Nat) BY NatLessThanWellFounded
  <2>2. bad \in SUBSET Nat OBVIOUS
  <2> HIDE DEF R, bad
  <2> QED BY <1>1, <2>1, <2>2, WFMin
<1>3. k \in 0..n /\ k # 0 /\ k \notin F OBVIOUS
<1>4. k - 1 \in 0..(n - 1) /\ k - 1 \in Nat /\ k \in Nat /\ k - 1 < k /\ (k - 1) + 1 = k BY <1>3
<1>5. <<k - 1, k>> \in R BY <1>4 DEF OpToRel
<1>6. k - 1 \in F
  <2>1. k - 1 \in 0..n BY <1>4
  <2>2. k - 1 \notin bad BY <1>2, <1>5
  <2> QED BY <2>1, <2>2
<1> QED BY <1>3, <1>4, <1>6

LEMMA LastIndex ==
  ASSUME NEW k \in Nat
  PROVE  /\ 1..(k + 1) # {} /\ Max(1..(k + 1)) = k + 1
         /\ (1..(k + 1)) \ {Max(1..(k + 1))} = 1..k
<1> DEFINE S == 1..(k + 1)
<1>1. k + 1 \in Nat /\ k + 1 \in S /\ S \in SUBSET (0..(k + 1)) /\ S \ {k + 1} = 1..k
  OBVIOUS
<1>2. Max(S) \in S /\ \A y \in S : y <= Max(S)
  <2> HIDE DEF S
  <2> QED BY <1>1, MaxOf
<1>3. Max(S) = k + 1
  <2> SUFFICES ASSUME NEW x \in S, \A y \in S : y <= x PROVE x = k + 1 BY <1>2
  <2> QED BY <1>1
<1> QED BY <1>1, <1>3

Folds(h, base, G, S) ==
  \A T \in SUBSET S : h[T] = IF T = {} THEN base ELSE G[<<h[T \ {Max(T)}], Max(T)>>]

(* There is such a fold of every step that stays in a set of values.       *)
LEMMA FoldExists ==
  ASSUME NEW n \in Nat, NEW V, NEW base \in V, NEW G \in [V \X (1..n) -> V]
  PROVE  \E h \in [SUBSET (1..n) -> V] : Folds(h, base, G, 1..n)
<1> DEFINE S == 1..n
           Next(h, T) == IF T = {} THEN base ELSE G[<<h[T \ {Max(T)}], Max(T)>>]
           Level(h, k) == \A T \in SUBSET S : Cardinality(T) <= k => h[T] = Next(h, T)
           some == {k \in 0..n : \E h \in [SUBSET S -> V] : Level(h, k)}
<1>1. IsFiniteSet(S) /\ Cardinality(S) = n BY FS_Interval
<1>2. ASSUME NEW T \in SUBSET S
      PROVE  IsFiniteSet(T) /\ Cardinality(T) \in Nat /\ Cardinality(T) <= n
  <2>1. IsFiniteSet(T) /\ Cardinality(T) <= Cardinality(S) BY <1>1, FS_Subset
  <2> HIDE DEF S
  <2> QED BY <1>1, <2>1, FS_CardinalityType
<1>3. ASSUME NEW T \in SUBSET S, T # {}
      PROVE  /\ Max(T) \in T /\ T \ {Max(T)} \in SUBSET S
             /\ Cardinality(T \ {Max(T)}) = Cardinality(T) - 1
  <2>1. Max(T) \in T
    <3>1. T \in SUBSET (0..n) OBVIOUS
    <3> QED BY <1>3, <3>1, MaxOf
  <2> QED BY <1>2, <2>1, FS_RemoveElement
<1>4. 0 \in some
  <2> DEFINE h == [T \in SUBSET S |-> base]
  <2>1. Level(h, 0)
    <3> SUFFICES ASSUME NEW T \in SUBSET S, Cardinality(T) <= 0 PROVE T = {} OBVIOUS
    <3>1. Cardinality(T) = 0 BY <1>2
    <3> QED BY <1>2, <3>1, FS_EmptySet
  <2>2. h \in [SUBSET S -> V] /\ 0 \in 0..n OBVIOUS
  <2> HIDE DEF h, Level
  <2> QED BY <2>1, <2>2
<1>5. ASSUME NEW k \in 0..(n - 1), k \in some PROVE k + 1 \in some
  <2>1. PICK h \in [SUBSET S -> V] : Level(h, k) BY <1>5
  <2> DEFINE g == [T \in SUBSET S |-> IF Cardinality(T) <= k THEN h[T] ELSE Next(h, T)]
  <2>2. \A T \in SUBSET S : Next(h, T) \in V
    <3> SUFFICES ASSUME NEW T \in SUBSET S, T # {} PROVE Next(h, T) \in V OBVIOUS
    <3>1. Max(T) \in S /\ h[T \ {Max(T)}] \in V BY <1>3
    <3> QED BY <3>1
  <2>3. g \in [SUBSET S -> V]
    <3> HIDE DEF Next
    <3> QED BY <2>2
  <2>4. ASSUME NEW T \in SUBSET S, Cardinality(T) <= k + 1 PROVE g[T] = Next(g, T)
    <3>1. CASE T = {}
      <4>1. Cardinality(T) = 0 BY <3>1, FS_EmptySet
      <4>2. g[T] = h[T] BY <4>1
      <4>3. h[T] = base
        <5>1. Cardinality(T) <= k BY <4>1
        <5>2. h[T] = Next(h, T) BY <2>1, <5>1
        <5> QED BY <3>1, <5>2
      <4> QED BY <3>1, <4>2, <4>3
    <3>2. CASE T # {}
      <4> DEFINE U == T \ {Max(T)}
      <4>1. U \in SUBSET S /\ Cardinality(U) <= k BY <1>2, <1>3, <2>4, <3>2
      <4>2. g[U] = h[U] BY <4>1
      <4>3. Next(g, T) = Next(h, T) BY <3>2, <4>2
      <4>4. g[T] = Next(h, T)
        <5>1. CASE Cardinality(T) <= k
          <6>1. g[T] = h[T] BY <5>1
          <6>2. h[T] = Next(h, T) BY <2>1, <5>1
          <6> QED BY <6>1, <6>2
        <5>2. CASE ~ (Cardinality(T) <= k) BY <5>2
        <5> QED BY <5>1, <5>2
      <4> QED BY <4>3, <4>4
    <3> QED BY <3>1, <3>2
  <2> HIDE DEF g, Next
  <2>5. Level(g, k + 1) BY <2>4
  <2>6. k + 1 \in 0..n OBVIOUS
  <2> QED BY <2>3, <2>5, <2>6
<1>6. n \in some
  <2>1. n \in 0..n OBVIOUS
  <2> HIDE DEF some
  <2> QED BY <1>4, <1>5, <2>1, PrefixInduction
<1>7. PICK h \in [SUBSET S -> V] : Level(h, n) BY <1>6
<1>8. Folds(h, base, G, S) BY <1>2, <1>7 DEF Folds
<1> QED BY <1>8
=============================================================================
