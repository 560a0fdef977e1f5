------------------------------ MODULE ScanLemmas ------------------------------
(***************************************************************************)
(* What the loops over arrays find: facts about Min and Max of sets of     *)
(* indices, counting up, and sequences built by appending, for the proof   *)
(* modules.                                                                *)
(***************************************************************************)
EXTENDS LoopOrder, Integers, SequencesExt, FiniteSetTheorems, FunctionTheorems,
        SequenceTheorems, WellFoundedInduction, TLAPS

\* A scan from index 0 stops at the least index that matches, if any does.
LEMMA MinInSet ==
  ASSUME NEW S \in SUBSET Nat, S # {}
  PROVE  Min(S) \in S /\ \A x \in S : Min(S) <= x
<1> DEFINE T == {0 .. x : x \in S}
<1>1. T \subseteq FiniteSubsetsOf(Nat)
  <2> SUFFICES ASSUME NEW x \in S PROVE 0 .. x \in FiniteSubsetsOf(Nat)
    OBVIOUS
  <2>1. IsFiniteSet(0 .. x) /\ 0 .. x \in SUBSET Nat
    BY FS_Interval
  <2> QED BY <2>1 DEF FiniteSubsetsOf
<1>2. PICK t \in T : \A u \in T : <<u, t>> \notin StrictSubsetOrdering(Nat)
  <2>1. T # {}
    OBVIOUS
  <2> HIDE DEF T
  <2> QED BY <1>1, <2>1, FS_StrictSubsetOrderingWellFounded, WFMin
<1>3. PICK m \in S : t = 0 .. m
  OBVIOUS
<1>4. \A x \in S : m <= x
  <2> SUFFICES ASSUME NEW x \in S, x < m PROVE FALSE
    OBVIOUS
  <2>1. /\ 0 .. x \in SUBSET (0 .. m)
        /\ m \notin 0 .. x
        /\ m \in 0 .. m
    OBVIOUS
  <2>2. <<0 .. x, 0 .. m>> \in StrictSubsetOrdering(Nat)
    BY <2>1 DEF StrictSubsetOrdering
  <2> QED BY <1>2, <1>3, <2>2
<1> QED BY <1>4 DEF Min

\* Counting up from 0 reaches every number.
LEMMA CountingUp ==
  ASSUME NEW S \in SUBSET Nat, 0 \in S, \A n \in S : n + 1 \in S
  PROVE  S = Nat
<1> SUFFICES ASSUME Nat \ S # {} PROVE FALSE
  OBVIOUS
<1> DEFINE m == Min(Nat \ S)
<1>1. m \in Nat \ S /\ \A x \in Nat \ S : m <= x
  BY MinInSet
<1> HIDE DEF m
<1>2. m - 1 \in Nat /\ m - 1 \in S
  BY <1>1
<1> QED BY <1>1, <1>2

\* The same, where a number is reached from any of those before it.
LEMMA CountingOn ==
  ASSUME NEW S \in SUBSET Nat, \A n \in Nat : (\A m \in 0 .. n - 1 : m \in S) => n \in S
  PROVE  S = Nat
<1> SUFFICES ASSUME Nat \ S # {} PROVE FALSE
  OBVIOUS
<1> DEFINE least == Min(Nat \ S)
<1>1. least \in Nat \ S /\ \A x \in Nat \ S : least <= x
  BY MinInSet
<1> HIDE DEF least
<1>2. \A m \in 0 .. least - 1 : m \in S
  BY <1>1
<1> QED BY <1>1, <1>2

\* Of some numbers up to n one is the greatest.
LEMMA MaxInSet ==
  ASSUME NEW n \in Nat, NEW S \in SUBSET (0 .. n), S # {}
  PROVE  Max(S) \in S /\ \A x \in S : x <= Max(S)
<1> DEFINE T == {n - x : x \in S}
           t == Min(T)
<1>1. T \in SUBSET Nat /\ T # {}
  <2>1. \A x \in S : n - x \in Nat
    <3> SUFFICES ASSUME NEW x \in S PROVE n - x \in Nat
      OBVIOUS
    <3>1. x \in 0 .. n
      OBVIOUS
    <3> QED BY <3>1
  <2> QED BY <2>1
<1>2. t \in T /\ \A u \in T : t <= u
  BY <1>1, MinInSet
<1> HIDE DEF t
<1>3. PICK m \in S : t = n - m
  BY <1>2
<1>4. \A x \in S : m >= x
  <2> SUFFICES ASSUME NEW x \in S PROVE m >= x
    OBVIOUS
  <2>1. n - x \in T
    OBVIOUS
  <2>2. t <= n - x /\ x \in Nat /\ m \in Nat
    BY <1>2, <2>1
  <2> QED BY <1>3, <2>2
<1>5. Max(S) \in S /\ \A y \in S : Max(S) >= y
  BY <1>4 DEF Max
<1>6. ASSUME NEW x \in S PROVE x <= Max(S)
  <2> DEFINE top == Max(S)
  <2>1. top \in S /\ top >= x
    BY <1>5
  <2> HIDE DEF top
  <2>2. top \in 0 .. n /\ x \in 0 .. n
    BY <2>1
  <2>3. x <= top
    BY <2>1, <2>2
  <2> QED BY <2>3 DEF top
<1> QED BY <1>5, <1>6

\* The greater of two numbers.
LEMMA MaxOfTwo ==
  ASSUME NEW a \in Int, NEW b \in Int
  PROVE  /\ Max({a, b}) \in {a, b}
         /\ Max({a, b}) >= a
         /\ Max({a, b}) >= b
<1>1. \E x \in {a, b} : \A y \in {a, b} : x >= y
  <2>1. CASE a >= b
    BY <2>1
  <2>2. CASE b >= a
    BY <2>2
  <2> QED BY <2>1, <2>2
<1>2. /\ Max({a, b}) \in {a, b}
      /\ \A y \in {a, b} : Max({a, b}) >= y
  BY <1>1 DEF Max
<1> QED BY <1>2

------------------------------------------------------------------------------
(* Loops that stop at all the indices of a set. *)

\* A lesser index has fewer before it.
LEMMA RankIncreases ==
  ASSUME NEW S \in SUBSET Nat, IsFiniteSet(S), NEW i \in S, NEW j \in S, i < j
  PROVE  Cardinality({x \in S : x < i}) < Cardinality({x \in S : x < j})
<1> DEFINE A == {x \in S : x < i}
           B == {x \in S : x < j}
<1>1. IsFiniteSet(B) /\ A \cup {i} \in SUBSET B /\ IsFiniteSet(A) /\ i \notin A
  <2>1. B \in SUBSET S /\ A \in SUBSET S
    OBVIOUS
  <2>2. \A x \in S : x < i => x < j
    <3> SUFFICES ASSUME NEW x \in S, x < i PROVE x < j
      OBVIOUS
    <3>1. x \in Nat /\ i \in Nat /\ j \in Nat
      OBVIOUS
    <3> QED BY <3>1
  <2>3. i \in B /\ ~(i < i)
    OBVIOUS
  <2>4. A \cup {i} \in SUBSET B /\ i \notin A
    BY <2>2, <2>3
  <2> QED BY <2>1, <2>4, FS_Subset
<1> HIDE DEF A, B
<1>2. Cardinality(A \cup {i}) = Cardinality(A) + 1
  BY <1>1, FS_AddElement
<1>3. Cardinality(A \cup {i}) <= Cardinality(B)
  BY <1>1, FS_Subset
<1>4. Cardinality(A) \in Nat /\ Cardinality(B) \in Nat
  BY <1>1, FS_CardinalityType
<1> QED BY <1>2, <1>3, <1>4 DEF A, B

\* The loop meets every index once, a lesser one first.
LEMMA InOrderEnumerates ==
  ASSUME NEW S \in SUBSET Nat, IsFiniteSet(S)
  PROVE  /\ Cardinality(S) \in Nat
         /\ InOrder(S) \in [1 .. Cardinality(S) -> S]
         /\ \A k, l \in 1 .. Cardinality(S) : k < l => InOrder(S)[k] < InOrder(S)[l]
         /\ \A i \in S : \E k \in 1 .. Cardinality(S) : InOrder(S)[k] = i
<1> DEFINE n == Cardinality(S)
           Before(i) == {x \in S : x < i}
           rank == [i \in S |-> Cardinality(Before(i)) + 1]
<1>1. n \in Nat
  BY FS_CardinalityType
<1>2. ASSUME NEW i \in S PROVE Cardinality(Before(i)) \in Nat /\ Cardinality(Before(i)) < n
  <2>1. Before(i) \in SUBSET S /\ i \notin Before(i)
    OBVIOUS
  <2> HIDE DEF Before
  <2>2. /\ IsFiniteSet(Before(i)) /\ Cardinality(Before(i)) <= n
        /\ Cardinality(Before(i)) # n
    BY <2>1, FS_Subset
  <2>3. Cardinality(Before(i)) \in Nat
    BY <2>2, FS_CardinalityType
  <2> QED BY <1>1, <2>2, <2>3
<1>3. rank \in [S -> 1 .. n]
  <2> SUFFICES ASSUME NEW i \in S PROVE Cardinality(Before(i)) + 1 \in 1 .. n
    OBVIOUS
  <2> HIDE DEF Before, n
  <2> QED BY <1>1, <1>2
<1>4. \A i, j \in S : i < j => Cardinality(Before(i)) < Cardinality(Before(j))
  BY RankIncreases
<1>5. \A i, j \in S : rank[i] = rank[j] => i = j
  <2> SUFFICES ASSUME NEW i \in S, NEW j \in S, i # j PROVE rank[i] # rank[j]
    OBVIOUS
  <2>1. i < j \/ j < i
    OBVIOUS
  <2>2. Cardinality(Before(i)) # Cardinality(Before(j))
    <3> HIDE DEF Before
    <3> QED BY <2>1, <1>2, <1>4
  <2> HIDE DEF Before
  <2> QED BY <2>2, <1>2
<1>6. rank \in Injection(S, 1 .. n)
  <2> HIDE DEF rank
  <2> QED BY <1>3, <1>5 DEF Injection, IsInjective
<1>7. rank \in Surjection(S, 1 .. n)
  <2>1. IsFiniteSet(1 .. n) /\ Cardinality(1 .. n) = n
    BY <1>1, FS_Interval
  <2> HIDE DEF rank
  <2> QED BY <2>1, <1>6, FS_Injection
<1>8. \A k \in 1 .. n : \E i \in S : rank[i] = k
  <2> HIDE DEF rank
  <2> QED BY <1>7 DEF Surjection
<1>9. ASSUME NEW k \in 1 .. n
      PROVE  InOrder(S)[k] \in S /\ rank[InOrder(S)[k]] = k
  <2>1. PICK i \in S : rank[i] = k
    BY <1>8
  <2>2. Cardinality({x \in S : x < i}) = k - 1
    BY <2>1, <1>2
  <2>3. InOrder(S)[k] = CHOOSE j \in S : Cardinality({x \in S : x < j}) = k - 1
    BY DEF InOrder
  <2>4. InOrder(S)[k] \in S /\ Cardinality({x \in S : x < InOrder(S)[k]}) = k - 1
    BY <2>2, <2>3
  <2> QED BY <2>4
<1>10. InOrder(S) \in [1 .. n -> S]
  BY <1>9 DEF InOrder
<1>11. ASSUME NEW k \in 1 .. n, NEW l \in 1 .. n, k < l
       PROVE  InOrder(S)[k] < InOrder(S)[l]
  <2> DEFINE i == InOrder(S)[k]
             j == InOrder(S)[l]
  <2>1. i \in S /\ j \in S /\ rank[i] < rank[j]
    BY <1>9, <1>11
  <2> HIDE DEF i, j
  <2>2. Cardinality(Before(i)) < Cardinality(Before(j))
    BY <2>1, <1>2
  <2>3. ~(j < i) /\ i # j
    <3> HIDE DEF Before
    <3> QED BY <2>1, <2>2, <1>2, <1>4
  <2>4. i \in Nat /\ j \in Nat
    BY <2>1
  <2>5. i < j
    BY <2>3, <2>4
  <2> QED BY <2>5 DEF i, j
<1>12. ASSUME NEW i \in S PROVE \E k \in 1 .. n : InOrder(S)[k] = i
  <2>1. rank[i] \in 1 .. n
    BY <1>3
  <2> HIDE DEF rank
  <2> WITNESS rank[i] \in 1 .. n
  <2> QED BY <2>1, <1>5, <1>9
<1> HIDE DEF rank, Before
<1> QED BY <1>1, <1>10, <1>11, <1>12

\* A set whose elements are numbered from 1 to m has m elements.
LEMMA Numbered ==
  ASSUME NEW m \in Nat, NEW T, NEW g \in [1 .. m -> T],
         \A k, l \in 1 .. m : g[k] = g[l] => k = l,
         \A t \in T : \E k \in 1 .. m : g[k] = t
  PROVE  IsFiniteSet(T) /\ Cardinality(T) = m
<1>1. IsFiniteSet(1 .. m) /\ Cardinality(1 .. m) = m
  BY FS_Interval
<1>2. g \in Bijection(1 .. m, T)
  BY Fun_IsBij
<1>3. ExistsBijection(1 .. m, T)
  BY <1>2 DEF ExistsBijection
<1> QED BY <1>1, <1>3, FS_Bijection

\* Only one enumeration goes up.
LEMMA InOrderUnique ==
  ASSUME NEW S \in SUBSET Nat, NEW n \in Nat, NEW f \in [1 .. n -> S],
         \A k, l \in 1 .. n : k < l => f[k] < f[l],
         \A i \in S : \E k \in 1 .. n : f[k] = i
  PROVE  Cardinality(S) = n /\ InOrder(S) = f
<1>1. \A k, l \in 1 .. n : f[k] < f[l] <=> k < l
  <2> SUFFICES ASSUME NEW k \in 1 .. n, NEW l \in 1 .. n, f[k] < f[l]
               PROVE  k < l
    OBVIOUS
  <2>1. f[k] \in Nat /\ f[l] \in Nat
    OBVIOUS
  <2>2. ~(l < k) /\ l # k
    BY <2>1
  <2> QED BY <2>2
<1>2. \A k, l \in 1 .. n : f[k] = f[l] => k = l
  <2> SUFFICES ASSUME NEW k \in 1 .. n, NEW l \in 1 .. n, f[k] = f[l]
               PROVE  k = l
    OBVIOUS
  <2>1. f[k] \in Nat /\ f[l] \in Nat
    OBVIOUS
  <2>2. ~(k < l) /\ ~(l < k)
    BY <1>1, <2>1
  <2> QED BY <2>2
<1>3. Cardinality(S) = n /\ IsFiniteSet(S)
  BY <1>2, Numbered
<1>4. ASSUME NEW k \in 1 .. n
      PROVE  Cardinality({j \in S : j < f[k]}) = k - 1
  <2> DEFINE T == {j \in S : j < f[k]}
             g == [l \in 1 .. k - 1 |-> f[l]]
  <2>1. k - 1 \in Nat /\ \A l \in 1 .. k - 1 : l \in 1 .. n /\ l < k
    OBVIOUS
  <2>2. g \in [1 .. k - 1 -> T]
    BY <1>1, <2>1
  <2>3. \A t \in T : \E l \in 1 .. k - 1 : g[l] = t
    <3> SUFFICES ASSUME NEW t \in S, t < f[k] PROVE \E l \in 1 .. k - 1 : g[l] = t
      OBVIOUS
    <3>1. PICK l \in 1 .. n : f[l] = t
      OBVIOUS
    <3>2. l \in 1 .. k - 1
      BY <1>1, <3>1
    <3> QED BY <3>1, <3>2
  <2>4. \A l, m \in 1 .. k - 1 : g[l] = g[m] => l = m
    BY <1>2, <2>1
  <2> HIDE DEF T, g
  <2>5. Cardinality(T) = k - 1
    BY <2>1, <2>2, <2>3, <2>4, Numbered
  <2> QED BY <2>5 DEF T
<1>5. ASSUME NEW k \in 1 .. n
      PROVE  InOrder(S)[k] = f[k]
  <2> DEFINE i == CHOOSE x \in S : Cardinality({j \in S : j < x}) = k - 1
  <2>1. InOrder(S)[k] = i
    BY <1>3 DEF InOrder
  <2>2. i \in S /\ Cardinality({j \in S : j < i}) = k - 1
    <3>1. \E x \in S : Cardinality({j \in S : j < x}) = k - 1
      BY <1>4
    <3> QED BY <3>1
  <2> HIDE DEF i
  <2>3. PICK l \in 1 .. n : f[l] = i
    BY <2>2
  <2>4. l - 1 = k - 1
    BY <1>4, <2>2, <2>3
  <2> QED BY <2>1, <2>3, <2>4
<1>6. InOrder(S) \in [1 .. n -> S]
  BY <1>3, InOrderEnumerates
<1> QED BY <1>3, <1>5, <1>6

------------------------------------------------------------------------------
(* Sequences one behind the other. *)

\* \o as an operator that the provers leave as it is.
Concat(a, b) == a \o b

\* Sequences of the same entries, one behind the other.
LEMMA ConcatTyped ==
  ASSUME NEW T, NEW a \in Seq(T), NEW b \in Seq(T)
  PROVE  Concat(a, b) \in Seq(T)
BY ConcatProperties DEF Concat

\* It does not matter which two are joined first.
LEMMA ConcatAssoc ==
  ASSUME NEW T, NEW a \in Seq(T), NEW b \in Seq(T), NEW c \in Seq(T)
  PROVE  Concat(Concat(a, b), c) = Concat(a, Concat(b, c))
BY ConcatAssociative DEF Concat

\* The empty sequence adds nothing.
LEMMA ConcatNone ==
  ASSUME NEW T, NEW a \in Seq(T)
  PROVE  Concat(a, <<>>) = a /\ Concat(<<>>, a) = a
BY ConcatEmptySeq DEF Concat

\* Append adds a sequence of one.
LEMMA ConcatOne ==
  ASSUME NEW T, NEW a \in Seq(T), NEW e \in T
  PROVE  Append(a, e) = Concat(a, <<e>>) /\ <<e>> \in Seq(T)
<1>1. <<e>> \in Seq(T)
  OBVIOUS
<1>2. Append(a, e) = a \o <<e>>
  BY AppendIsConcat
<1> QED BY <1>1, <1>2 DEF Concat

------------------------------------------------------------------------------
(* Sequences of sequences. *)

\* f[i] is what the first i sequences of s are together.
Flat(f, s, n) ==
  f = [i \in 1 .. n |-> IF i = 1 THEN s[i] ELSE f[i - 1] \o s[i]]

\* One step of it.
LEMMA FlatAt ==
  ASSUME NEW f, NEW s, NEW n, Flat(f, s, n), NEW i \in 1 .. n
  PROVE  f[i] = IF i = 1 THEN s[i] ELSE f[i - 1] \o s[i]
<1>1. ASSUME NEW g, f = [j \in 1 .. n |-> IF j = 1 THEN s[j] ELSE g[j - 1] \o s[j]]
      PROVE  f[i] = IF i = 1 THEN s[i] ELSE g[i - 1] \o s[i]
  BY <1>1
<1> QED BY <1>1 DEF Flat

\* There is such a function: an entry more can always be added.
LEMMA FlatExists ==
  ASSUME NEW s, NEW n \in Nat
  PROVE  \E f : Flat(f, s, n)
<1> DEFINE S == {k \in Nat : \E f : Flat(f, s, k)}
<1>1. 0 \in S
  <2>1. Flat(<<>>, s, 0)
    BY DEF Flat
  <2> QED BY <2>1
<1>2. ASSUME NEW k \in S
      PROVE  k + 1 \in S
  <2>1. PICK f : Flat(f, s, k)
    OBVIOUS
  <2> DEFINE g == [i \in 1 .. k + 1 |->
                     IF i = k + 1 THEN IF i = 1 THEN s[i] ELSE f[i - 1] \o s[i]
                     ELSE f[i]]
  <2>2. k \in Nat
    OBVIOUS
  <2>3. ASSUME NEW i \in 1 .. k + 1
        PROVE  g[i] = IF i = 1 THEN s[i] ELSE g[i - 1] \o s[i]
    <3>1. CASE i = k + 1
      <4>1. i # 1 => i - 1 \in 1 .. k + 1 /\ i - 1 # k + 1
        BY <2>2, <3>1
      <4> QED BY <3>1, <4>1
    <3>2. CASE i # k + 1
      <4>1. i \in 1 .. k
        BY <2>2, <3>2
      <4>2. f[i] = IF i = 1 THEN s[i] ELSE f[i - 1] \o s[i]
        BY <2>1, <4>1 DEF Flat
      <4>3. i # 1 => i - 1 \in 1 .. k + 1 /\ i - 1 # k + 1
        BY <2>2, <4>1
      <4> QED BY <3>2, <4>2, <4>3
    <3> QED BY <3>1, <3>2
  <2>4. Flat(g, s, k + 1)
    <3>1. g = [i \in 1 .. k + 1 |-> g[i]]
      OBVIOUS
    <3> HIDE DEF g
    <3> QED BY <2>3, <3>1 DEF Flat
  <2> QED BY <2>2, <2>4
<1> HIDE DEF S
<1>3. S = Nat
  <2>1. S \in SUBSET Nat
    BY DEF S
  <2> QED BY <1>1, <1>2, <2>1, CountingUp
<1> QED BY <1>3 DEF S

\* s and t begin with the same n entries.
Agree(s, t, n) == \A i \in 1 .. n : s[i] = t[i]

\* What the first sequences are together does not depend on those behind them.
LEMMA FlatSame ==
  ASSUME NEW s, NEW t, NEW n \in Nat, NEW m \in Nat, n <= m,
         Agree(s, t, n),
         NEW f, Flat(f, s, n), NEW g, Flat(g, t, m)
  PROVE  Agree(f, g, n)
<1> DEFINE S == {k \in Nat : k \in 1 .. n => f[k] = g[k]}
<1>1. 0 \in S
  OBVIOUS
<1>2. ASSUME NEW k \in S
      PROVE  k + 1 \in S
  <2>1. SUFFICES ASSUME k + 1 \in 1 .. n
                 PROVE  f[k + 1] = g[k + 1]
    OBVIOUS
  <2>2. /\ f[k + 1] = IF k + 1 = 1 THEN s[k + 1] ELSE f[k + 1 - 1] \o s[k + 1]
        /\ g[k + 1] = IF k + 1 = 1 THEN t[k + 1] ELSE g[k + 1 - 1] \o t[k + 1]
    <3>1. k + 1 \in 1 .. m
      BY <2>1
    <3> QED BY <2>1, <3>1, FlatAt
  <2>3. k + 1 - 1 = k
    OBVIOUS
  <2>4. k + 1 # 1 => f[k] = g[k]
    BY <2>1
  <2> QED BY <2>1, <2>2, <2>3, <2>4 DEF Agree
<1> HIDE DEF S
<1>3. S = Nat
  <2>1. S \in SUBSET Nat
    BY DEF S
  <2> QED BY <1>1, <1>2, <2>1, CountingUp
<1> QED BY <1>3 DEF S, Agree

\* It is a sequence of what its parts are sequences of.
LEMMA FlatTyped ==
  ASSUME NEW T, NEW n \in Nat, NEW s, \A i \in 1 .. n : s[i] \in Seq(T),
         NEW f, Flat(f, s, n)
  PROVE  \A i \in 1 .. n : f[i] \in Seq(T)
<1> DEFINE S == {k \in Nat : k \in 1 .. n => f[k] \in Seq(T)}
<1>1. 0 \in S
  OBVIOUS
<1>2. ASSUME NEW k \in S
      PROVE  k + 1 \in S
  <2>1. SUFFICES ASSUME k + 1 \in 1 .. n
                 PROVE  f[k + 1] \in Seq(T)
    OBVIOUS
  <2>2. f[k + 1] = IF k + 1 = 1 THEN s[k + 1] ELSE f[k + 1 - 1] \o s[k + 1]
    BY <2>1, FlatAt
  <2>3. k + 1 # 1 => f[k + 1 - 1] \in Seq(T)
    BY <2>1
  <2>4. s[k + 1] \in Seq(T)
    BY <2>1
  <2> QED BY <2>2, <2>3, <2>4, ConcatProperties
<1> HIDE DEF S
<1>3. S = Nat
  <2>1. S \in SUBSET Nat
    BY DEF S
  <2> QED BY <1>1, <1>2, <2>1, CountingUp
<1> QED BY <1>3 DEF S

\* FlattenSeq is the last entry.
LEMMA FlattenIs ==
  ASSUME NEW s, Len(s) \in Nat \ {0}
  PROVE  \E f : Flat(f, s, Len(s)) /\ FlattenSeq(s) = f[Len(s)]
<1> DEFINE f == CHOOSE g : Flat(g, s, Len(s))
<1>1. Flat(f, s, Len(s))
  BY FlatExists
<1>2. FlattenSeq(s) = f[Len(s)]
  BY DEF FlattenSeq, Flat
<1> QED BY <1>1, <1>2

\* One sequence more, at the end.
LEMMA FlattenAppend ==
  ASSUME NEW T, NEW s \in Seq(Seq(T)), NEW e \in Seq(T)
  PROVE  /\ FlattenSeq(s) \in Seq(T)
         /\ FlattenSeq(Append(s, e)) = FlattenSeq(s) \o e
<1> DEFINE t == Append(s, e)
           n == Len(s)
<1>1. /\ n \in Nat /\ Len(t) = n + 1 /\ t[n + 1] = e
      /\ \A i \in 1 .. n : s[i] = t[i] /\ s[i] \in Seq(T)
  OBVIOUS
<1> HIDE DEF t
<1>2. PICK g : Flat(g, t, n + 1) /\ FlattenSeq(t) = g[n + 1]
  BY <1>1, FlattenIs
<1>3. g[n + 1] = IF n + 1 = 1 THEN t[n + 1] ELSE g[n + 1 - 1] \o t[n + 1]
  <2>1. n + 1 \in 1 .. n + 1
    BY <1>1
  <2> QED BY <1>2, <2>1, FlatAt
<1>4. CASE n = 0
  <2>1. FlattenSeq(s) = <<>>
    BY <1>4 DEF FlattenSeq
  <2>2. FlattenSeq(t) = e
    BY <1>1, <1>2, <1>3, <1>4
  <2> QED BY <2>1, <2>2, ConcatEmptySeq DEF t
<1>5. CASE n # 0
  <2> HIDE DEF n
  <2>1. PICK f : Flat(f, s, n) /\ FlattenSeq(s) = f[n]
    BY <1>1, <1>5, FlattenIs DEF n
  <2>2. Agree(f, g, n)
    <3>1. n + 1 \in Nat /\ n <= n + 1 /\ Agree(s, t, n)
      BY <1>1 DEF Agree
    <3>2. Flat(f, s, n) /\ Flat(g, t, n + 1)
      BY <1>2, <2>1
    <3> QED BY <1>1, <3>1, <3>2, FlatSame
  <2>3. f[n] = g[n] /\ n + 1 # 1 /\ n + 1 - 1 = n
    BY <1>1, <1>5, <2>2 DEF Agree
  <2>4. FlattenSeq(t) = FlattenSeq(s) \o e
    BY <1>1, <1>2, <1>3, <2>1, <2>3
  <2>5. \A i \in 1 .. n : f[i] \in Seq(T)
    BY <1>1, <2>1, FlatTyped
  <2>6. f[n] \in Seq(T)
    BY <1>1, <1>5, <2>5
  <2> QED BY <2>1, <2>4, <2>6 DEF t
<1> QED BY <1>4, <1>5

\* Every sequence is the empty one with entries appended.
LEMMA AppendReaches ==
  ASSUME NEW T, NEW P, <<>> \in P, \A s \in Seq(T), e \in T : s \in P => Append(s, e) \in P
  PROVE  \A s \in Seq(T) : s \in P
<1> SUFFICES ASSUME NEW s \in Seq(T)
             PROVE  s \in P
  OBVIOUS
<1> DEFINE S == {k \in Nat : k <= Len(s) => SubSeq(s, 1, k) \in P}
<1>1. 0 \in S
  <2>1. SubSeq(s, 1, 0) = <<>>
    BY SubSeqEmpty
  <2> QED BY <2>1
<1>2. ASSUME NEW k \in S
      PROVE  k + 1 \in S
  <2>1. SUFFICES ASSUME k + 1 <= Len(s)
                 PROVE  SubSeq(s, 1, k + 1) \in P
    OBVIOUS
  <2>2. SubSeq(s, 1, k) \in P /\ k + 1 \in 1 .. Len(s)
    BY <2>1
  <2> DEFINE a == SubSeq(s, 1, k)
             b == SubSeq(s, 1, k + 1)
             e == s[k + 1]
  <2>3. /\ a \in Seq(T) /\ Len(a) = k /\ \A i \in 1 .. k : a[i] = s[i]
        /\ b \in Seq(T) /\ Len(b) = k + 1 /\ \A i \in 1 .. k + 1 : b[i] = s[i]
        /\ e \in T
    BY <2>1, <2>2, SubSeqProperties
  <2>4. a \in P
    BY <2>2
  <2> HIDE DEF a, b, e
  <2>5. Append(a, e) = b
    BY <2>3 DEF e
  <2> QED BY <2>3, <2>4, <2>5 DEF b
<1> HIDE DEF S
<1>3. S = Nat
  <2>1. S \in SUBSET Nat
    BY DEF S
  <2> QED BY <1>1, <1>2, <2>1, CountingUp
<1>4. Len(s) \in S
  BY <1>3
<1>5. SubSeq(s, 1, Len(s)) \in P
  BY <1>4 DEF S
<1> QED BY <1>5, SubSeqFull

\* No sequences make up the empty one.
LEMMA FlattenNone == FlattenSeq(<<>>) = <<>>
BY DEF FlattenSeq

\* The sequences of one behind those of the other.
LEMMA FlattenConcat ==
  ASSUME NEW T, NEW s \in Seq(Seq(T))
  PROVE  \A t \in Seq(Seq(T)) : FlattenSeq(s \o t) = FlattenSeq(s) \o FlattenSeq(t)
<1> DEFINE P == {t \in Seq(Seq(T)) : FlattenSeq(s \o t) = FlattenSeq(s) \o FlattenSeq(t)}
<1>0. \A t \in Seq(Seq(T)) : FlattenSeq(t) \in Seq(T)
  <2>1. <<>> \in Seq(T)
    OBVIOUS
  <2> QED BY <2>1, FlattenAppend
<1>1. <<>> \in P
  <2>1. FlattenSeq(s) \o <<>> = FlattenSeq(s)
    BY <1>0, ConcatEmptySeq
  <2>2. s \o <<>> = s
    BY ConcatEmptySeq
  <2>3. <<>> \in Seq(Seq(T))
    OBVIOUS
  <2> HIDE DEF FlattenSeq
  <2> QED BY <2>1, <2>2, <2>3, FlattenNone, Zenon
<1>2. ASSUME NEW t \in Seq(Seq(T)), NEW e \in Seq(T), t \in P
      PROVE  Append(t, e) \in P
  <2> DEFINE st == s \o t
             ft == FlattenSeq(t)
             fs == FlattenSeq(s)
  <2>1. st \in Seq(Seq(T)) /\ ft \in Seq(T) /\ fs \in Seq(T)
    BY <1>0, ConcatProperties
  <2>2. FlattenSeq(st) = fs \o ft
    BY <1>2
  <2>3. s \o Append(t, e) = Append(st, e) /\ Append(t, e) \in Seq(Seq(T))
    OBVIOUS
  <2>4. FlattenSeq(Append(t, e)) = ft \o e
    BY FlattenAppend
  <2> HIDE DEF st, ft, fs
  <2>5. FlattenSeq(Append(st, e)) = (fs \o ft) \o e
    BY <2>1, <2>2, FlattenAppend
  <2>6. (fs \o ft) \o e = fs \o (ft \o e)
    <3>1. \A a, b, c \in Seq(T) : (a \o b) \o c = a \o (b \o c)
      BY ConcatAssociative
    <3> QED BY <2>1, <3>1, Zenon
  <2> QED BY <2>3, <2>4, <2>5, <2>6 DEF fs
<1> HIDE DEF P
<1>3. \A t \in Seq(Seq(T)) : t \in P
  BY <1>1, <1>2, AppendReaches
<1> QED BY <1>3 DEF P

\* One sequence makes up itself.
LEMMA FlattenOne ==
  ASSUME NEW T, NEW e \in Seq(T)
  PROVE  FlattenSeq(<<e>>) = e
<1>1. <<>> \in Seq(Seq(T)) /\ Append(<<>>, e) = <<e>>
  OBVIOUS
<1>2. <<>> \o e = e
  BY ConcatEmptySeq
<1> HIDE DEF FlattenSeq
<1>3. FlattenSeq(Append(<<>>, e)) = FlattenSeq(<<>>) \o e
  BY <1>1, FlattenAppend
<1> QED BY <1>1, <1>2, <1>3, FlattenNone

------------------------------------------------------------------------------
(* Where the parts of a sequence lie. *)

\* t is what comes behind the first o entries of s.
Lies(s, o, t) == \A k \in 1 .. Len(t) : s[o + k] = t[k]

\* Two sequences are as long together as apart.
LEMMA ConcatLength ==
  ASSUME NEW T, NEW a \in Seq(T), NEW b \in Seq(T)
  PROVE  Len(Concat(a, b)) = Len(a) + Len(b)
BY ConcatProperties DEF Concat

\* A sequence lies in itself from the start.
LEMMA LiesSelf ==
  ASSUME NEW T, NEW s \in Seq(T)
  PROVE  Lies(s, 0, s)
BY DEF Lies

\* Where two sequences lie one behind the other, each of them lies.
LEMMA LiesApart ==
  ASSUME NEW T, NEW a \in Seq(T), NEW b \in Seq(T), NEW s, NEW o \in Nat,
         Lies(s, o, Concat(a, b))
  PROVE  Lies(s, o, a) /\ Lies(s, o + Len(a), b)
<1> DEFINE ab == Concat(a, b)
<1>1. /\ Len(a) \in Nat /\ Len(b) \in Nat /\ Len(ab) = Len(a) + Len(b)
      /\ \A k \in 1 .. Len(a) + Len(b) :
           ab[k] = IF k <= Len(a) THEN a[k] ELSE b[k - Len(a)]
  BY ConcatProperties DEF Concat
<1>2. \A k \in 1 .. Len(ab) : s[o + k] = ab[k]
  BY DEF Lies
<1> HIDE DEF ab
<1>3. Lies(s, o, a)
  <2>1. \A k \in 1 .. Len(a) : k \in 1 .. Len(ab) /\ ab[k] = a[k]
    BY <1>1
  <2> QED BY <1>2, <2>1 DEF Lies
<1>4. Lies(s, o + Len(a), b)
  <2> SUFFICES ASSUME NEW k \in 1 .. Len(b)
               PROVE  s[o + Len(a) + k] = b[k]
    BY DEF Lies
  <2>1. /\ Len(a) + k \in 1 .. Len(ab) /\ Len(a) + k \in 1 .. Len(a) + Len(b)
        /\ ~(Len(a) + k <= Len(a)) /\ Len(a) + k - Len(a) = k
        /\ o + (Len(a) + k) = o + Len(a) + k
    BY <1>1
  <2>2. ab[Len(a) + k] = b[k]
    BY <1>1, <2>1
  <2> QED BY <1>2, <2>1, <2>2
<1> QED BY <1>3, <1>4

\* What never falls on its way ends at its greatest.
LEMMA RisesToEnd ==
  ASSUME NEW n \in Nat, NEW b \in [0 .. n -> Nat], \A i \in 1 .. n : b[i] >= b[i - 1]
  PROVE  \A i \in 0 .. n : b[i] <= b[n]
<1> DEFINE R == {k \in Nat : k <= n => b[n - k] <= b[n]}
<1>1. 0 \in R
  OBVIOUS
<1>2. ASSUME NEW k \in R
      PROVE  k + 1 \in R
  <2>1. SUFFICES ASSUME k + 1 <= n
                 PROVE  b[n - (k + 1)] <= b[n]
    OBVIOUS
  <2>2. /\ n - k \in 1 .. n /\ n - (k + 1) = (n - k) - 1 /\ b[n - k] <= b[n]
        /\ n - k \in 0 .. n /\ n - k - 1 \in 0 .. n /\ n \in 0 .. n
    BY <2>1
  <2>3. /\ b[n - k] >= b[n - k - 1] /\ b[n - k - 1] \in Nat
        /\ b[n - k] \in Nat /\ b[n] \in Nat
    BY <2>2
  <2> QED BY <2>2, <2>3
<1> HIDE DEF R
<1>3. R = Nat
  <2>1. R \in SUBSET Nat
    BY DEF R
  <2> QED BY <1>1, <1>2, <2>1, CountingUp
<1>4. ASSUME NEW i \in 0 .. n
      PROVE  b[i] <= b[n]
  <2>1. n - i \in R /\ n - i <= n /\ n - (n - i) = i
    BY <1>3
  <2> QED BY <2>1 DEF R
<1> QED BY <1>4

\* before[i] entries of the sequences of s, one behind the other, are in front of
\* the i+1-th sequence, which lies there.
Laid(before, s) ==
  /\ before \in [0 .. Len(s) -> Nat]
  /\ before[0] = 0
  /\ before[Len(s)] = Len(FlattenSeq(s))
  /\ \A i \in 1 .. Len(s) : /\ before[i] = before[i - 1] + Len(s[i])
                            /\ Lies(FlattenSeq(s), before[i - 1], s[i])

\* Every one of the sequences that make up another has its place in it.
LEMMA FlattenLaid ==
  ASSUME NEW T
  PROVE  \A s \in Seq(Seq(T)) : \E before : Laid(before, s)
<1> DEFINE P == {s \in Seq(Seq(T)) : \E before : Laid(before, s)}
<1>1. <<>> \in P
  <2> DEFINE before == [i \in 0 .. 0 |-> 0]
  <2>1. before \in [0 .. 0 -> Nat] /\ before[0] = 0
    OBVIOUS
  <2>2. Len(FlattenSeq(<<>>)) = 0 /\ Len(<<>>) = 0 /\ <<>> \in Seq(Seq(T))
    BY FlattenNone
  <2> HIDE DEF before
  <2>3. Laid(before, <<>>)
    BY <2>1, <2>2 DEF Laid
  <2> QED BY <2>2, <2>3
<1>2. ASSUME NEW s \in Seq(Seq(T)), NEW e \in Seq(T), s \in P
      PROVE  Append(s, e) \in P
  <2>1. PICK before : Laid(before, s)
    BY <1>2
  <2> DEFINE n    == Len(s)
             t    == Append(s, e)
             fs   == FlattenSeq(s)
             ft   == FlattenSeq(t)
             next == [i \in 0 .. n + 1 |-> IF i <= n THEN before[i] ELSE before[n] + Len(e)]
  <2>2. /\ n \in Nat /\ t \in Seq(Seq(T)) /\ Len(t) = n + 1 /\ t[n + 1] = e
        /\ \A i \in 1 .. n : t[i] = s[i] /\ s[i] \in Seq(T)
        /\ Len(e) \in Nat
    OBVIOUS
  <2>3. fs \in Seq(T) /\ ft = Concat(fs, e)
    BY FlattenAppend DEF Concat
  <2>4. /\ before \in [0 .. n -> Nat] /\ before[0] = 0 /\ before[n] = Len(fs)
        /\ \A i \in 1 .. n : /\ before[i] = before[i - 1] + Len(s[i])
                             /\ Lies(fs, before[i - 1], s[i])
    BY <2>1 DEF Laid
  <2> HIDE DEF n, t, fs, ft
  <2>5. /\ next \in [0 .. n + 1 -> Nat]
        /\ \A i \in 0 .. n : next[i] = before[i]
        /\ next[n + 1] = before[n] + Len(e)
    BY <2>2, <2>4
  <2>6. Lies(ft, 0, fs) /\ Lies(ft, Len(fs), e) /\ Len(ft) = Len(fs) + Len(e)
    <3>1. ft \in Seq(T)
      BY <2>3, ConcatTyped
    <3>2. Lies(ft, 0, Concat(fs, e))
      BY <2>3, <3>1, LiesSelf
    <3>3. Lies(ft, 0, fs) /\ Lies(ft, 0 + Len(fs), e)
      BY <2>3, <3>2, LiesApart
    <3>4. 0 + Len(fs) = Len(fs)
      BY <2>3
    <3> QED BY <2>3, <3>3, <3>4, ConcatLength
  <2> HIDE DEF next
  <2>7. ASSUME NEW i \in 1 .. n
        PROVE  Lies(ft, before[i - 1], s[i])
    <3>1. /\ i - 1 \in 0 .. n /\ i \in 0 .. n /\ n \in 0 .. n
      BY <2>2
    <3>2. before[i - 1] \in Nat /\ before[i] \in Nat /\ Len(s[i]) \in Nat
          /\ before[i] = before[i - 1] + Len(s[i])
      BY <2>2, <2>4, <3>1
    <3>3. before[i] <= Len(fs)
      <4>1. \A k \in 1 .. n : before[k] >= before[k - 1]
        <5>1. ASSUME NEW k \in 1 .. n PROVE before[k] >= before[k - 1]
          <6>1. k - 1 \in 0 .. n
            BY <2>2
          <6>2. before[k - 1] \in Nat /\ Len(s[k]) \in Nat
            BY <2>2, <2>4, <6>1
          <6> QED BY <2>4, <6>2
        <5> QED BY <5>1
      <4> QED BY <2>2, <2>4, <3>1, <4>1, RisesToEnd
    <3>4. ASSUME NEW k \in 1 .. Len(s[i])
          PROVE  ft[before[i - 1] + k] = s[i][k]
      <4>1. fs[before[i - 1] + k] = s[i][k]
        BY <2>4 DEF Lies
      <4>2. before[i - 1] + k \in 1 .. Len(fs) /\ 0 + (before[i - 1] + k) = before[i - 1] + k
        BY <2>3, <3>2, <3>3
      <4>3. ft[0 + (before[i - 1] + k)] = fs[before[i - 1] + k]
        BY <2>6, <4>2 DEF Lies
      <4> QED BY <4>1, <4>2, <4>3
    <3> QED BY <3>4 DEF Lies
  <2>8. ASSUME NEW i \in 1 .. n + 1
        PROVE  next[i] = next[i - 1] + Len(t[i]) /\ Lies(ft, next[i - 1], t[i])
    <3>1. CASE i \in 1 .. n
      <4>1. i - 1 \in 0 .. n /\ i \in 0 .. n
        BY <2>2, <3>1
      <4>2. next[i] = before[i] /\ next[i - 1] = before[i - 1] /\ t[i] = s[i]
        BY <2>2, <2>5, <3>1, <4>1
      <4> QED BY <2>4, <2>7, <3>1, <4>2
    <3>2. CASE i = n + 1
      <4>1. i - 1 = n /\ n \in 0 .. n
        BY <2>2, <3>2
      <4>2. next[i - 1] = Len(fs) /\ next[i] = Len(fs) + Len(e) /\ t[i] = e
        BY <2>2, <2>4, <2>5, <3>2, <4>1
      <4> QED BY <2>6, <4>2
    <3> QED BY <2>2, <3>1, <3>2
  <2>9. next[0] = 0 /\ next[n + 1] = Len(ft)
    <3>1. 0 \in 0 .. n /\ n \in 0 .. n
      BY <2>2
    <3> QED BY <2>4, <2>5, <2>6, <3>1
  <2>10. Laid(next, t)
    BY <2>2, <2>5, <2>8, <2>9 DEF Laid, ft
  <2> QED BY <2>2, <2>10 DEF t
<1> HIDE DEF P
<1>3. \A s \in Seq(Seq(T)) : s \in P
  BY <1>1, <1>2, AppendReaches
<1> QED BY <1>3 DEF P

------------------------------------------------------------------------------
(* Parts of a sequence taken for a queue. *)

\* The entries of s from the first to the last.
LEMMA SliceIs ==
  ASSUME NEW T, NEW s \in Seq(T), NEW first \in Nat \ {0}, NEW last \in Nat,
         first <= last + 1, last <= Len(s)
  PROVE  /\ SubSeq(s, first, last) \in Seq(T)
         /\ Len(SubSeq(s, first, last)) = last + 1 - first
         /\ \A k \in 1 .. last + 1 - first : SubSeq(s, first, last)[k] = s[first + k - 1]
<1>1. Len(s) \in Nat /\ \A i \in 1 .. Len(s) : s[i] \in T
  OBVIOUS
<1>2. \A i \in first .. last : s[i] \in T
  BY <1>1
<1>3. /\ SubSeq(s, first, last) \in Seq(T)
      /\ Len(SubSeq(s, first, last)) = IF first <= last THEN last - first + 1 ELSE 0
      /\ \A k \in 1 .. last - first + 1 : SubSeq(s, first, last)[k] = s[first + k - 1]
  BY <1>2, SubSeqProperties
<1>4. last - first + 1 = last + 1 - first /\ (~(first <= last) => last + 1 - first = 0)
  OBVIOUS
<1> QED BY <1>3, <1>4

\* The queue ends where the sequence does, and both get an entry.
LEMMA SliceSent ==
  ASSUME NEW T, NEW s \in Seq(T), NEW e \in T, NEW m \in 0 .. Len(s)
  PROVE  SubSeq(Append(s, e), m + 1, Len(s) + 1) = Append(SubSeq(s, m + 1, Len(s)), e)
<1> DEFINE n == Len(s)
           t == Append(s, e)
           q == SubSeq(s, m + 1, n)
           a == SubSeq(t, m + 1, n + 1)
           b == Append(q, e)
<1>1. /\ n \in Nat /\ m \in Nat /\ m <= n /\ t \in Seq(T) /\ Len(t) = n + 1
      /\ t[n + 1] = e /\ \A i \in 1 .. n : t[i] = s[i]
  OBVIOUS
<1> HIDE DEF t
<1>2. /\ q \in Seq(T) /\ Len(q) = n - m
      /\ \A k \in 1 .. n - m : q[k] = s[m + k]
  <2>1. /\ q \in Seq(T) /\ Len(q) = n + 1 - (m + 1)
        /\ \A k \in 1 .. n + 1 - (m + 1) : q[k] = s[m + 1 + k - 1]
    <3>1. m + 1 \in Nat \ {0} /\ m + 1 <= n + 1 /\ n <= Len(s)
      BY <1>1
    <3> HIDE DEF n
    <3> QED BY <1>1, <3>1, SliceIs
  <2>2. n + 1 - (m + 1) = n - m
    BY <1>1
  <2>3. \A k \in 1 .. n - m : m + 1 + k - 1 = m + k
    BY <1>1
  <2> HIDE DEF q, n
  <2> QED BY <2>1, <2>2, <2>3
<1>3. /\ a \in Seq(T) /\ Len(a) = n - m + 1
      /\ \A k \in 1 .. n - m + 1 : a[k] = t[m + k]
  <2>1. /\ a \in Seq(T) /\ Len(a) = n + 1 + 1 - (m + 1)
        /\ \A k \in 1 .. n + 1 + 1 - (m + 1) : a[k] = t[m + 1 + k - 1]
    <3>1. m + 1 \in Nat \ {0} /\ m + 1 <= n + 1 + 1 /\ n + 1 <= Len(t) /\ n + 1 \in Nat
      BY <1>1
    <3> HIDE DEF n
    <3> QED BY <1>1, <3>1, SliceIs
  <2>2. n + 1 + 1 - (m + 1) = n - m + 1
    BY <1>1
  <2>3. \A k \in 1 .. n - m + 1 : m + 1 + k - 1 = m + k
    BY <1>1
  <2> HIDE DEF a, n
  <2> QED BY <2>1, <2>2, <2>3
<1> HIDE DEF q, a, n
<1>4. /\ b \in Seq(T) /\ Len(b) = n - m + 1 /\ b[n - m + 1] = e
      /\ \A k \in 1 .. n - m : b[k] = q[k]
  <2>1. /\ b \in Seq(T) /\ Len(b) = Len(q) + 1 /\ b[Len(q) + 1] = e
        /\ \A k \in 1 .. Len(q) : b[k] = q[k]
    BY <1>2, AppendProperties
  <2> HIDE DEF b
  <2> QED BY <1>2, <2>1
<1> HIDE DEF b
<1>5. \A k \in 1 .. n - m + 1 : a[k] = b[k]
  <2> SUFFICES ASSUME NEW k \in 1 .. n - m + 1
               PROVE  a[k] = b[k]
    OBVIOUS
  <2>1. CASE k = n - m + 1
    <3>1. m + k = n + 1
      BY <1>1, <2>1
    <3> QED BY <1>1, <1>3, <1>4, <2>1, <3>1
  <2>2. CASE k # n - m + 1
    <3>1. k \in 1 .. n - m /\ m + k \in 1 .. n
      BY <1>1, <2>2
    <3> QED BY <1>1, <1>2, <1>3, <1>4, <3>1
  <2> QED BY <2>1, <2>2
<1>6. a = b
  BY <1>1, <1>3, <1>4, <1>5, SeqEqual
<1> QED BY <1>6 DEF a, b, t, q, n

\* The queue loses entries at its end.
LEMMA SliceCut ==
  ASSUME NEW T, NEW s \in Seq(T), NEW m \in Nat, NEW less \in Nat, NEW last \in Nat,
         m <= less, less <= last, last <= Len(s)
  PROVE  /\ less - m \in 0 .. Len(SubSeq(s, m + 1, last))
         /\ SubSeq(s, m + 1, less) = SubSeq(SubSeq(s, m + 1, last), 1, less - m)
<1> DEFINE q == SubSeq(s, m + 1, last)
           n == less - m
           a == SubSeq(s, m + 1, less)
           b == SubSeq(q, 1, n)
<1>1. m + 1 \in Nat \ {0} /\ n \in Nat /\ last - m \in Nat /\ n <= last - m
      /\ m + 1 <= last + 1 /\ m + 1 <= less + 1 /\ less <= Len(s)
  OBVIOUS
<1>2. /\ q \in Seq(T) /\ Len(q) = last + 1 - (m + 1)
      /\ \A k \in 1 .. last + 1 - (m + 1) : q[k] = s[m + 1 + k - 1]
  BY <1>1, SliceIs
<1>3. /\ a \in Seq(T) /\ Len(a) = less + 1 - (m + 1)
      /\ \A k \in 1 .. less + 1 - (m + 1) : a[k] = s[m + 1 + k - 1]
  BY <1>1, SliceIs
<1> HIDE DEF q, a
<1>4. last + 1 - (m + 1) = last - m /\ less + 1 - (m + 1) = n
  OBVIOUS
<1>5. /\ b \in Seq(T) /\ Len(b) = n + 1 - 1
      /\ \A k \in 1 .. n + 1 - 1 : b[k] = q[1 + k - 1]
  <2>1. 1 \in Nat \ {0} /\ 1 <= n + 1 /\ n <= Len(q)
    BY <1>1, <1>2, <1>4
  <2> HIDE DEF n
  <2> QED BY <1>1, <1>2, <2>1, SliceIs
<1> HIDE DEF b, n
<1>6. n + 1 - 1 = n /\ \A k \in 1 .. n : 1 + k - 1 = k /\ k \in 1 .. last - m
  BY <1>1
<1>7. a = b
  <2>1. \A k \in 1 .. n : a[k] = b[k]
    BY <1>2, <1>3, <1>4, <1>5, <1>6
  <2>2. Len(a) = n /\ Len(b) = n
    BY <1>3, <1>4, <1>5, <1>6
  <2> QED BY <1>3, <1>5, <2>1, <2>2, SeqEqual
<1>8. n \in 0 .. Len(q)
  BY <1>1, <1>2, <1>4
<1> QED BY <1>7, <1>8 DEF a, b, q, n

\* The first entry of the queue is taken.
LEMMA SliceTaken ==
  ASSUME NEW T, NEW s \in Seq(T), NEW m \in Nat, NEW last \in Nat, m < last, last <= Len(s)
  PROVE  /\ SubSeq(s, m + 1, last) # <<>>
         /\ Head(SubSeq(s, m + 1, last)) = s[m + 1]
         /\ SubSeq(s, m + 1 + 1, last) = Tail(SubSeq(s, m + 1, last))
<1> DEFINE q == SubSeq(s, m + 1, last)
           a == SubSeq(s, m + 1 + 1, last)
           n == last - m
<1>1. /\ m + 1 \in Nat \ {0} /\ m + 1 + 1 \in Nat \ {0} /\ n \in Nat \ {0}
      /\ m + 1 <= last + 1 /\ m + 1 + 1 <= last + 1
      /\ last + 1 - (m + 1) = n /\ last + 1 - (m + 1 + 1) = n - 1
  OBVIOUS
<1>2. /\ q \in Seq(T) /\ Len(q) = last + 1 - (m + 1)
      /\ \A k \in 1 .. last + 1 - (m + 1) : q[k] = s[m + 1 + k - 1]
  BY <1>1, SliceIs
<1>3. /\ a \in Seq(T) /\ Len(a) = last + 1 - (m + 1 + 1)
      /\ \A k \in 1 .. last + 1 - (m + 1 + 1) : a[k] = s[m + 1 + 1 + k - 1]
  BY <1>1, SliceIs
<1> HIDE DEF q, a
<1>4. Len(q) = n /\ Len(a) = n - 1
  BY <1>1, <1>2, <1>3
<1>5. q # <<>> /\ Head(q) = q[1]
  BY <1>1, <1>2, <1>4
<1>6. q[1] = s[m + 1]
  <2>1. 1 \in 1 .. last + 1 - (m + 1) /\ m + 1 + 1 - 1 = m + 1
    BY <1>1
  <2> QED BY <1>2, <2>1
<1> DEFINE t == Tail(q)
<1>7. /\ t \in Seq(T) /\ Len(t) = n - 1
      /\ \A k \in 1 .. n - 1 : t[k] = q[k + 1]
  <2>1. /\ Tail(q) \in Seq(T) /\ Len(Tail(q)) = Len(q) - 1
        /\ \A i \in 1 .. Len(Tail(q)) : Tail(q)[i] = q[i + 1]
    BY <1>2, <1>5, HeadTailProperties
  <2> QED BY <1>4, <2>1
<1> HIDE DEF t, n
<1>8. \A k \in 1 .. n - 1 : a[k] = t[k]
  <2> SUFFICES ASSUME NEW k \in 1 .. n - 1
               PROVE  a[k] = t[k]
    OBVIOUS
  <2>1. /\ k \in 1 .. last + 1 - (m + 1 + 1) /\ k + 1 \in 1 .. last + 1 - (m + 1)
        /\ m + 1 + 1 + k - 1 = m + 1 + (k + 1) - 1
    BY <1>1
  <2> QED BY <1>2, <1>3, <1>7, <2>1
<1>9. a = t
  BY <1>3, <1>4, <1>7, <1>8, SeqEqual
<1> QED BY <1>5, <1>6, <1>9 DEF q, a, t
==============================================================================
