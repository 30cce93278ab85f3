-------------------------- MODULE CollectionTheorems --------------------------
(***************************************************************************)
(* Facts about sequences, sorted lists and sums that the models compute    *)
(* by recursion.                                                           *)
(*                                                                         *)
(* The induction theorems of the library have an operator as a parameter,  *)
(* which the provers cannot instantiate.  Here induction is done by the    *)
(* least counterexample: the set of those is a first-order term, and       *)
(* LeastNumber and SmallestSet say what follows when it is not empty.      *)
(***************************************************************************)
EXTENDS Lists, SequencesExt, SequenceTheorems, FiniteSetTheorems, TLAPS

\* A set of natural numbers has a least one.
LEMMA LeastNumber ==
  ASSUME NEW S \in SUBSET Nat, S # {}
  PROVE  \E n \in S : \A m \in S : n <= m
<1>1. IsWellFoundedOn(OpToRel(<, Nat), Nat)
  BY NatLessThanWellFounded
<1>2. PICK n \in S : \A m \in S : ~ (<<m, n>> \in OpToRel(<, Nat))
  BY <1>1, WFMin
<1>3. \A m \in S : m < n => <<m, n>> \in OpToRel(<, Nat)
  BY DEF OpToRel
<1>4. ASSUME NEW m \in S
      PROVE  n <= m
  <2>1. m \in Nat /\ n \in Nat /\ ~ (m < n)
    BY <1>2, <1>3
  <2> QED
    BY <2>1
<1> QED
  BY <1>4

\* Induction over the naturals, for a set instead of a property.
LEMMA InductiveSet ==
  ASSUME NEW G, 0 \in G, \A n \in Nat : n \in G => n + 1 \in G
  PROVE  \A n \in Nat : n \in G
<1> DEFINE bad == Nat \ G
<1>1. ASSUME bad # {}
      PROVE  FALSE
  <2>1. bad \in SUBSET Nat
    OBVIOUS
  <2>2. PICK n \in bad : \A m \in bad : n <= m
    <3> HIDE DEF bad
    <3> QED
      BY <1>1, <2>1, LeastNumber
  <2>3. n \in Nat /\ n # 0
    OBVIOUS
  <2>4. n - 1 \in Nat /\ (n - 1) + 1 = n /\ ~ (n <= n - 1)
    BY <2>3
  <2>5. n - 1 \in G
    BY <2>2, <2>4
  <2> QED
    BY <2>4, <2>5
<1> QED
  BY <1>1

\* Among some subsets of a finite set there is one with none below it.
LEMMA SmallestSet ==
  ASSUME NEW T, IsFiniteSet(T), NEW M \in SUBSET (SUBSET T), M # {}
  PROVE  \E S \in M : \A R \in M : R \subseteq S => R = S
<1> DEFINE sizes == {Cardinality(S) : S \in M}
<1>1. \A S \in SUBSET T : IsFiniteSet(S) /\ Cardinality(S) \in Nat
  BY FS_Subset, FS_CardinalityType
<1>2. sizes \in SUBSET Nat /\ sizes # {}
  BY <1>1
<1>3. PICK n \in sizes : \A m \in sizes : n <= m
  BY <1>2, LeastNumber
<1>4. PICK S \in M : Cardinality(S) = n
  BY <1>3
<1>5. ASSUME NEW R \in M, R \subseteq S
      PROVE  R = S
  <2>1. IsFiniteSet(S) /\ R \in SUBSET S /\ Cardinality(R) \in Nat /\ Cardinality(S) \in Nat
    BY <1>1, <1>5
  <2>2. Cardinality(R) <= Cardinality(S)
    BY <2>1, FS_Subset
  <2>3. Cardinality(S) <= Cardinality(R)
    BY <1>3, <1>4
  <2>4. Cardinality(R) = Cardinality(S)
    BY <2>1, <2>2, <2>3
  <2> QED
    BY <2>1, <2>4, FS_Subset
<1> QED
  BY <1>5

\* Some element of a finite set of integers is the greatest.
LEMMA GreatestNumber ==
  ASSUME NEW S, IsFiniteSet(S), S \subseteq Int, S # {}
  PROVE  Max(S) \in S /\ \A x \in S : x <= Max(S)
<1> DEFINE bad == {s \in SUBSET S : s # {} /\ ~ \E x \in s : \A y \in s : y <= x}
<1>1. ASSUME bad # {}
      PROVE  FALSE
  <2>0. bad \in SUBSET (SUBSET S)
    OBVIOUS
  <2>1. PICK s \in bad : \A r \in bad : r \subseteq s => r = s
    <3> HIDE DEF bad
    <3>1. IsFiniteSet(S) /\ bad \in SUBSET (SUBSET S) /\ bad # {}
      BY <1>1, <2>0
    <3> QED
      BY ONLY <3>1, SmallestSet
  <2>2. PICK y \in s : TRUE
    BY <2>1
  <2>3. CASE s \ {y} = {}
    BY <2>1, <2>2, <2>3
  <2>4. CASE s \ {y} # {}
    <3>1. s \ {y} \notin bad
      BY <2>1, <2>2
    <3>2. PICK x \in s \ {y} : \A z \in s \ {y} : z <= x
      BY <2>4, <3>1
    <3>3. x \in Int /\ y \in Int /\ \A z \in s : z \in Int
      BY <2>1, <2>2, <3>2
    <3>4. CASE y <= x
      BY <2>1, <3>2, <3>4
    <3>5. CASE x <= y
      <4>1. \A z \in s : z <= y
        BY <3>2, <3>3, <3>5
      <4> QED
        BY <2>1, <2>2, <4>1
    <3> QED
      BY <3>3, <3>4, <3>5
  <2> QED
    BY <2>3, <2>4
<1>2. \E x \in S : \A y \in S : x >= y
  BY <1>1
<1>3. Max(S) \in S /\ \A y \in S : Max(S) >= y
  BY <1>2 DEF Max
<1> QED
  BY <1>3

\* The values of a function on a finite set are finitely many.
LEMMA FiniteImage ==
  ASSUME NEW S, IsFiniteSet(S), NEW f
  PROVE  IsFiniteSet({f[x] : x \in S})
<1> DEFINE T == {f[x] : x \in S}
           g == [x \in S |-> f[x]]
<1>1. g \in Surjection(S, T)
  BY DEF Surjection
<1> HIDE DEF g, T
<1>2. IsFiniteSet(T)
  BY <1>1, FS_Surjection
<1> QED
  BY <1>2 DEF T

\* A sequence over a set is one over a wider set.
LEMMA WiderSeq ==
  ASSUME NEW A, NEW B, A \subseteq B
  PROVE  Seq(A) \subseteq Seq(B)
BY SeqMonotonic

-----------------------------------------------------------------------------
(* Subsequences.                                                           *)

\* There is a function that satisfies the recursive definition.
LEMMA PickDefined ==
  ASSUME NEW s, Len(s) \in Nat, NEW I
  PROVE  \E pick : /\ Subsequence(s, I) = pick[Len(s)]
                   /\ pick[0] = <<>>
                   /\ \A i \in 1..Len(s) :
                        pick[i] = IF i \in I THEN Append(pick[i - 1], s[i]) ELSE pick[i - 1]
<1> DEFINE E(n, h) == h = [i \in 0..n |->
             IF i = 0 THEN <<>> ELSE IF i \in I THEN Append(h[i - 1], s[i]) ELSE h[i - 1]]
           bad == {n \in Nat : ~ \E h : E(n, h)}
<1>1. ASSUME bad # {}
      PROVE  FALSE
  <2>1. PICK n \in bad : \A m \in bad : n <= m
    BY <1>1, LeastNumber
  <2>2. n # 0
    <3> DEFINE h == [i \in 0..0 |-> <<>>]
    <3>1. E(0, h)
      OBVIOUS
    <3> QED
      BY <3>1
  <2>3. n - 1 \in Nat /\ n \in Nat /\ ~ (n <= n - 1)
    BY <2>2
  <2>4. PICK h : E(n - 1, h)
    <3>1. n - 1 \notin bad
      BY <2>1, <2>3
    <3> HIDE DEF E
    <3> QED
      BY <2>3, <3>1
  <2> DEFINE g == [i \in 0..n |-> IF i = n THEN (IF n \in I THEN Append(h[n - 1], s[n]) ELSE h[n - 1]) ELSE h[i]]
  <2>5. ASSUME NEW i \in 0..n
        PROVE  g[i] = IF i = 0 THEN <<>> ELSE IF i \in I THEN Append(g[i - 1], s[i]) ELSE g[i - 1]
    <3>1. CASE i = n
      BY <2>2, <2>3, <3>1
    <3>2. CASE i # n
      <4>1. i \in 0..(n - 1) /\ g[i] = h[i] /\ (i # 0 => g[i - 1] = h[i - 1])
        BY <2>3, <3>2
      <4> QED
        BY <2>4, <4>1
    <3> QED
      BY <3>1, <3>2
  <2>6. E(n, g)
    <3>1. g = [i \in 0..n |-> g[i]]
      OBVIOUS
    <3> HIDE DEF g
    <3> QED
      BY <2>5, <3>1
  <2> QED
    BY <2>1, <2>6
<1>2. \E h : E(Len(s), h)
  <2> HIDE DEF E
  <2> QED
    BY <1>1
<1>3. PICK pick : pick = CHOOSE h : h = [i \in 0..Len(s) |->
        IF i = 0 THEN <<>> ELSE IF i \in I THEN Append(h[i - 1], s[i]) ELSE h[i - 1]]
  OBVIOUS
<1>4. E(Len(s), pick)
  BY <1>2, <1>3
<1>5. Subsequence(s, I) = pick[Len(s)]
  BY <1>3 DEF Subsequence
<1>6. \A i \in 0..Len(s) : pick[i] =
        IF i = 0 THEN <<>> ELSE IF i \in I THEN Append(pick[i - 1], s[i]) ELSE pick[i - 1]
  BY <1>4
<1>7. pick[0] = <<>>
  BY <1>6
<1>8. \A i \in 1..Len(s) : pick[i] = IF i \in I THEN Append(pick[i - 1], s[i]) ELSE pick[i - 1]
  BY <1>6
<1> QED
  BY <1>5, <1>7, <1>8

\* r holds the elements of s at the indexes of I up to n, each once, in order:
\* at says where each of them comes from.
IsPicked(r, s, I, n) ==
  \E at \in [1..Len(r) -> 1..n] :
    /\ \A k \in 1..Len(r) : at[k] \in I /\ r[k] = s[at[k]]
    /\ \A k, l \in 1..Len(r) : k < l => at[k] < at[l]
    /\ \A i \in 1..n : i \in I => \E k \in 1..Len(r) : at[k] = i

\* An element that is not picked changes nothing.
LEMMA PickedSkips ==
  ASSUME NEW S, NEW r \in Seq(S), NEW s, NEW I, NEW n \in Nat, n + 1 \notin I, IsPicked(r, s, I, n)
  PROVE  IsPicked(r, s, I, n + 1)
<1> DEFINE L == Len(r)
<1>1. L \in Nat
  BY LenProperties
<1>2. PICK at \in [1..L -> 1..n] :
        /\ \A k \in 1..L : at[k] \in I /\ r[k] = s[at[k]]
        /\ \A k, l \in 1..L : k < l => at[k] < at[l]
        /\ \A i \in 1..n : i \in I => \E k \in 1..L : at[k] = i
  BY DEF IsPicked
<1>3. at \in [1..L -> 1..(n + 1)]
  BY <1>1
<1>4. ASSUME NEW i \in 1..(n + 1), i \in I
      PROVE  \E k \in 1..L : at[k] = i
  <2>1. i \in 1..n
    BY <1>4
  <2> QED
    BY <1>2, <1>4, <2>1
<1> QED
  BY <1>2, <1>3, <1>4 DEF IsPicked

\* An element that is picked comes last.
LEMMA PickedAppends ==
  ASSUME NEW S, NEW r \in Seq(S), NEW s, NEW I, NEW n \in Nat, s[n + 1] \in S,
         n + 1 \in I, IsPicked(r, s, I, n)
  PROVE  IsPicked(Append(r, s[n + 1]), s, I, n + 1)
<1> DEFINE L == Len(r)
           q == Append(r, s[n + 1])
<1>1. L \in Nat
  BY LenProperties
<1>2. PICK at \in [1..L -> 1..n] :
        /\ \A k \in 1..L : at[k] \in I /\ r[k] = s[at[k]]
        /\ \A k, l \in 1..L : k < l => at[k] < at[l]
        /\ \A i \in 1..n : i \in I => \E k \in 1..L : at[k] = i
  BY DEF IsPicked
<1>3. Len(q) = L + 1 /\ q[L + 1] = s[n + 1] /\ \A k \in 1..L : q[k] = r[k]
  BY AppendProperties
<1> DEFINE more == [k \in 1..(L + 1) |-> IF k = L + 1 THEN n + 1 ELSE at[k]]
<1>4. more[L + 1] = n + 1 /\ \A k \in 1..L : more[k] = at[k] /\ at[k] \in 1..n
  BY <1>1
<1>5. more \in [1..(L + 1) -> 1..(n + 1)]
  BY <1>1
<1> HIDE DEF L, q, more
<1>6. ASSUME NEW k \in 1..(L + 1)
      PROVE  more[k] \in I /\ q[k] = s[more[k]]
  <2>1. CASE k = L + 1
    BY <1>3, <1>4, <2>1
  <2>2. CASE k # L + 1
    <3>1. k \in 1..L
      BY <1>1, <2>2
    <3> QED
      BY <1>2, <1>3, <1>4, <3>1
  <2> QED
    BY <2>1, <2>2
<1>7. ASSUME NEW k \in 1..(L + 1), NEW l \in 1..(L + 1), k < l
      PROVE  more[k] < more[l]
  <2>1. k \in 1..L
    BY <1>1, <1>7
  <2>2. CASE l = L + 1
    BY <1>4, <2>1, <2>2
  <2>3. CASE l # L + 1
    <3>1. l \in 1..L
      BY <1>1, <2>3
    <3> QED
      BY <1>2, <1>4, <1>7, <2>1, <3>1
  <2> QED
    BY <2>2, <2>3
<1>8. ASSUME NEW i \in 1..(n + 1), i \in I
      PROVE  \E k \in 1..(L + 1) : more[k] = i
  <2>1. CASE i = n + 1
    <3>1. L + 1 \in 1..(L + 1)
      BY <1>1
    <3> QED
      BY <1>4, <2>1, <3>1
  <2>2. CASE i # n + 1
    <3>1. i \in 1..n
      BY <2>2
    <3>2. PICK k \in 1..L : at[k] = i
      BY <1>2, <1>8, <3>1
    <3>3. k \in 1..(L + 1)
      BY <1>1
    <3> QED
      BY <1>4, <3>2, <3>3
  <2> QED
    BY <2>1, <2>2
<1>9. /\ Len(q) = L + 1
      /\ more \in [1..Len(q) -> 1..(n + 1)]
      /\ \A k \in 1..Len(q) : more[k] \in I /\ q[k] = s[more[k]]
      /\ \A k, l \in 1..Len(q) : k < l => more[k] < more[l]
      /\ \A i \in 1..(n + 1) : i \in I => \E k \in 1..Len(q) : more[k] = i
  BY <1>3, <1>5, <1>6, <1>7, <1>8
<1>10. IsPicked(q, s, I, n + 1)
  BY <1>9 DEF IsPicked
<1> QED
  BY <1>10 DEF q

\* The result holds the elements of the indexes, each once, in their order.
LEMMA SubsequenceFacts ==
  ASSUME NEW S, NEW s \in Seq(S), NEW I
  PROVE  /\ Subsequence(s, I) \in Seq(S)
         /\ Len(Subsequence(s, I)) <= Len(s)
         /\ IsPicked(Subsequence(s, I), s, I, Len(s))
<1>1. Len(s) \in Nat /\ \A i \in 1..Len(s) : s[i] \in S
  BY LenProperties
<1>2. PICK pick : /\ Subsequence(s, I) = pick[Len(s)]
                  /\ pick[0] = <<>>
                  /\ \A i \in 1..Len(s) :
                       pick[i] = IF i \in I THEN Append(pick[i - 1], s[i]) ELSE pick[i - 1]
  BY <1>1, PickDefined
<1> DEFINE G == {n \in Nat : n <= Len(s) => /\ pick[n] \in Seq(S)
                                            /\ Len(pick[n]) <= n
                                            /\ IsPicked(pick[n], s, I, n)}
<1>5. 0 \in G
  <2>1. PICK e : e = pick[0]
    OBVIOUS
  <2>2. e = <<>> /\ e \in Seq(S) /\ Len(e) <= 0
    BY <1>2, <2>1
  <2>3. IsPicked(e, s, I, 0)
    <3>1. e \in [1..0 -> 1..0]
      BY <2>2
    <3>2. \A k \in 1..0 : FALSE
      OBVIOUS
    <3> QED
      BY <2>2, <3>1, <3>2 DEF IsPicked
  <2>4. 0 <= Len(s) => pick[0] \in Seq(S) /\ Len(pick[0]) <= 0 /\ IsPicked(pick[0], s, I, 0)
    BY <2>1, <2>2, <2>3, Zenon
  <2> QED
    BY <2>4
<1>6. ASSUME NEW n \in Nat, n \in G
      PROVE  n + 1 \in G
  <2> SUFFICES ASSUME n + 1 <= Len(s)
               PROVE  /\ pick[n + 1] \in Seq(S)
                      /\ Len(pick[n + 1]) <= n + 1
                      /\ IsPicked(pick[n + 1], s, I, n + 1)
    OBVIOUS
  <2>1. PICK r : r = pick[n]
    OBVIOUS
  <2>2. r \in Seq(S) /\ Len(r) <= n /\ IsPicked(r, s, I, n) /\ Len(r) \in Nat
    BY <1>1, <1>6, <2>1, LenProperties
  <2>3. n + 1 \in 1..Len(s) /\ (n + 1) - 1 = n /\ s[n + 1] \in S
    BY <1>1
  <2>4. pick[n + 1] = IF n + 1 \in I THEN Append(r, s[n + 1]) ELSE r
    BY <1>2, <2>1, <2>3
  <2>5. CASE n + 1 \in I
    <3>1. Append(r, s[n + 1]) \in Seq(S) /\ Len(Append(r, s[n + 1])) = Len(r) + 1
      BY <2>2, <2>3, AppendProperties
    <3>2. IsPicked(Append(r, s[n + 1]), s, I, n + 1)
      BY <2>2, <2>3, <2>5, PickedAppends
    <3> QED
      BY <2>2, <2>4, <2>5, <3>1, <3>2
  <2>6. CASE n + 1 \notin I
    <3>1. IsPicked(r, s, I, n + 1)
      BY <2>2, <2>6, PickedSkips
    <3> QED
      BY <2>2, <2>4, <2>6, <3>1
  <2> QED
    BY <2>5, <2>6
<1>7. Len(s) \in G
  <2> HIDE DEF G
  <2> QED
    BY <1>1, <1>5, <1>6, InductiveSet
<1> QED
  BY <1>1, <1>2, <1>7

-----------------------------------------------------------------------------
(* Sorted sets.                                                            *)

\* Counted by those that come before, and itself, every place of a finite set
\* in a total order is taken by one element.
LEMMA EveryPlaceIsTaken ==
  ASSUME NEW S, IsFiniteSet(S), NEW R, NEW rank,
         rank = [p \in S |-> Cardinality({q \in S : <<q, p>> \in R})],
         \A p \in S : <<p, p>> \in R,
         \A p, q \in S : <<p, q>> \in R \/ <<q, p>> \in R,
         \A p, q \in S : <<p, q>> \in R /\ <<q, p>> \in R => p = q,
         \A p, q, r \in S : <<p, q>> \in R /\ <<q, r>> \in R => <<p, r>> \in R
  PROVE  rank \in Bijection(S, 1..Cardinality(S))
<1> DEFINE N == Cardinality(S)
           down(p) == {q \in S : <<q, p>> \in R}
<1>1. N \in Nat
  BY FS_CardinalityType
<1>2. ASSUME NEW p \in S
      PROVE  IsFiniteSet(down(p)) /\ rank[p] = Cardinality(down(p)) /\ rank[p] \in 1..N
  <2>1. down(p) \in SUBSET S /\ p \in down(p)
    OBVIOUS
  <2>2. IsFiniteSet(down(p)) /\ Cardinality(down(p)) <= N
    <3> HIDE DEF down
    <3> QED
      BY <2>1, FS_Subset
  <2>3. Cardinality(down(p)) \in Nat /\ Cardinality(down(p)) # 0
    <3> HIDE DEF down
    <3> QED
      BY <2>1, <2>2, FS_CardinalityType, FS_EmptySet
  <2>4. rank[p] = Cardinality(down(p))
    OBVIOUS
  <2> HIDE DEF down, N
  <2> QED
    BY <1>1, <2>2, <2>3, <2>4
<1>3. ASSUME NEW p \in S, NEW q \in S, <<p, q>> \in R, p # q
      PROVE  rank[p] # rank[q]
  <2>1. down(p) \in SUBSET down(q) /\ q \in down(q) /\ q \notin down(p)
    BY <1>3
  <2>2. down(p) # down(q)
    BY <2>1
  <2> HIDE DEF down
  <2> QED
    BY <1>2, <2>1, <2>2, FS_Subset
<1>4. \A p, q \in S : rank[p] = rank[q] => p = q
  BY <1>3
<1>5. rank \in [S -> 1..N]
  <2>1. rank = [p \in S |-> rank[p]]
    OBVIOUS
  <2> HIDE DEF N
  <2> QED
    BY <1>2, <2>1
<1>6. rank \in Injection(S, 1..N)
  BY <1>4, <1>5 DEF Injection, IsInjective
<1>7. IsFiniteSet(1..N) /\ Cardinality(1..N) = N
  BY <1>1, FS_Interval
<1>8. rank \in Surjection(S, 1..N)
  BY <1>6, <1>7, FS_Injection
<1> QED
  BY <1>6, <1>8 DEF Bijection

\* How many members of S come before one, itself included.
Ranks(S, R) == [p \in S |-> Cardinality({q \in S : <<q, p>> \in R})]

Orders(R, S) ==
  /\ \A p \in S : <<p, p>> \in R
  /\ \A p, q \in S : <<p, q>> \in R \/ <<q, p>> \in R
  /\ \A p, q \in S : <<p, q>> \in R /\ <<q, p>> \in R => p = q
  /\ \A p, q, r \in S : <<p, q>> \in R /\ <<q, r>> \in R => <<p, r>> \in R

\* Each place is given to the member whose rank it is, if there is one.
PlacesByRank(s, rank, S) ==
  /\ DOMAIN s = 1..Cardinality(S) /\ s = [i \in DOMAIN s |-> s[i]]
  /\ \A i \in 1..Cardinality(S) : (\E p \in S : rank[p] = i) => s[i] \in S /\ rank[s[i]] = i

\* A finite set in a total order, listed by it: every element once, and none
\* after one that it precedes.
LEMMA SortedList ==
  ASSUME NEW S, IsFiniteSet(S), NEW R, Orders(R, S), NEW s, PlacesByRank(s, Ranks(S, R), S)
  PROVE  /\ s \in Seq(S) /\ Len(s) = Cardinality(S) /\ Cardinality(S) \in Nat
         /\ s \in Bijection(1..Cardinality(S), S)
         /\ \A i, j \in 1..Cardinality(S) : i < j => <<s[i], s[j]>> \in R
<1> DEFINE N == Cardinality(S)
<1>1. PICK rank : rank = Ranks(S, R)
  OBVIOUS
<1>2. rank = [p \in S |-> Cardinality({q \in S : <<q, p>> \in R})]
  BY <1>1 DEF Ranks
<1>3. N \in Nat
  BY FS_CardinalityType
<1>4. rank \in Bijection(S, 1..N)
  BY <1>2, EveryPlaceIsTaken DEF Orders
<1>5. ASSUME NEW i \in 1..N
      PROVE  s[i] \in S /\ rank[s[i]] = i
  <2>1. \E p \in S : rank[p] = i
    BY <1>4 DEF Bijection, Surjection
  <2> QED
    BY <1>1, <2>1 DEF PlacesByRank
<1>6. s \in [1..N -> S]
  <2>1. DOMAIN s = 1..N /\ s = [i \in DOMAIN s |-> s[i]]
    BY DEF PlacesByRank
  <2>2. s \in [DOMAIN s -> {s[i] : i \in DOMAIN s}]
    BY ONLY <2>1
  <2> HIDE DEF N
  <2> QED
    BY ONLY <1>5, <2>1, <2>2
<1>7. s \in Seq(S) /\ Len(s) = N
  <2> HIDE DEF N
  <2> QED
    BY ONLY <1>3, <1>6, SeqDef, LenProperties
<1>8. s \in Bijection(1..N, S)
  <2>1. \A i, j \in 1..N : s[i] = s[j] => i = j
    BY <1>5
  <2>2. \A p \in S : \E i \in 1..N : s[i] = p
    <3>1. ASSUME NEW p \in S PROVE \E i \in 1..N : s[i] = p
      <4>1. PICK i : i = rank[p] /\ i \in 1..N
        BY <1>4 DEF Bijection, Surjection
      <4>2. s[i] \in S /\ rank[s[i]] = rank[p]
        BY <1>5, <4>1
      <4>3. s[i] = p
        BY <1>4, <4>2 DEF Bijection, Injection, IsInjective
      <4> QED
        BY <4>1, <4>3
    <3> QED
      BY <3>1
  <2> HIDE DEF N
  <2>3. DOMAIN s = 1..N
    BY <1>6
  <2> QED
    BY ONLY <1>6, <2>1, <2>2, <2>3 DEF Bijection, Injection, IsInjective, Surjection
<1>9. ASSUME NEW i \in 1..N, NEW j \in 1..N, i < j
      PROVE  <<s[i], s[j]>> \in R
  <2>1. s[i] \in S /\ rank[s[i]] = i /\ s[j] \in S /\ rank[s[j]] = j
    BY <1>5
  <2>2. PICK p, q : p = s[i] /\ q = s[j] /\ p \in S /\ q \in S /\ rank[p] = i /\ rank[q] = j
    BY ONLY <2>1
  <2>3. CASE <<q, p>> \in R
    <3> DEFINE down(x) == {y \in S : <<y, x>> \in R}
    <3>1. down(q) \subseteq down(p)
      BY <2>2, <2>3 DEF Orders
    <3>2. IsFiniteSet(down(p))
      <4>1. down(p) \subseteq S
        OBVIOUS
      <4> HIDE DEF down
      <4> QED
        BY <4>1, FS_Subset
    <3>3. Cardinality(down(q)) <= Cardinality(down(p))
      <4> HIDE DEF down
      <4> QED
        BY <3>1, <3>2, FS_Subset
    <3>4. Cardinality(down(p)) = i /\ Cardinality(down(q)) = j
      BY <1>2, <2>2
    <3> HIDE DEF down
    <3> QED
      BY <1>3, <1>9, <3>3, <3>4
  <2> QED
    BY <2>2, <2>3 DEF Orders
<1> QED
  BY <1>3, <1>7, <1>8, <1>9

-----------------------------------------------------------------------------
(* Sums over finite sets.                                                  *)

\* What the recursion of SumFunctionOnSet asks of a function at a set.
SumsUp(f, s, sum, less) ==
  sum = IF s = {} THEN 0 ELSE f[CHOOSE x \in s : TRUE] + less

\* A function that does, and gives the sum over S.
IsSummation(f, S, sum) ==
  /\ SumFunctionOnSet(f, S) = sum[S]
  /\ \A s \in SUBSET S : SumsUp(f, s, sum[s], sum[s \ {CHOOSE x \in s : TRUE}])

\* There is a function that satisfies the recursive definition.
LEMMA SumDefined ==
  ASSUME NEW f, NEW S, IsFiniteSet(S)
  PROVE  \E sum : IsSummation(f, S, sum)
<1> DEFINE upTo(n) == {s \in SUBSET S : Cardinality(s) <= n}
           next(h, s) == IF s = {} THEN 0
                         ELSE f[CHOOSE x \in s : TRUE] + h[s \ {CHOOSE x \in s : TRUE}]
           E(n, h) == h = [s \in upTo(n) |-> next(h, s)]
           bad == {n \in Nat : ~ \E h : E(n, h)}
<1>1. \A s \in SUBSET S : IsFiniteSet(s) /\ Cardinality(s) \in Nat /\ Cardinality(s) <= Cardinality(S)
  BY FS_Subset, FS_CardinalityType
<1>2. ASSUME NEW s \in SUBSET S, s # {}
      PROVE  LET r == s \ {CHOOSE x \in s : TRUE} IN r \in SUBSET S /\ Cardinality(r) = Cardinality(s) - 1
  BY <1>1, <1>2, FS_RemoveElement
<1>3. ASSUME bad # {}
      PROVE  FALSE
  <2>1. PICK n \in bad : \A m \in bad : n <= m
    BY <1>3, LeastNumber
  <2>2. n # 0
    <3> DEFINE h == [s \in upTo(0) |-> 0]
    <3>1. upTo(0) = {{}}
      BY <1>1, FS_EmptySet
    <3>2. \A s \in upTo(0) : next(h, s) = 0
      BY <3>1
    <3>3. E(0, h)
      <4> HIDE DEF next, upTo
      <4> QED
        BY <3>2
    <3> QED
      BY <3>3
  <2>3. n - 1 \in Nat /\ n \in Nat /\ ~ (n <= n - 1)
    BY <2>2
  <2>4. PICK h : E(n - 1, h)
    <3>1. n - 1 \notin bad
      BY <2>1, <2>3
    <3> HIDE DEF E
    <3> QED
      BY <2>3, <3>1
  <2> DEFINE g == [s \in upTo(n) |-> next(h, s)]
  <2>5. \A s \in upTo(n - 1) : s \in upTo(n) /\ g[s] = h[s]
    <3>1. \A s \in upTo(n - 1) : s \in upTo(n)
      BY <1>1, <2>3
    <3>2. \A s \in upTo(n) : g[s] = next(h, s)
      OBVIOUS
    <3>3. \A s \in upTo(n - 1) : h[s] = next(h, s)
      BY <2>4
    <3> HIDE DEF next, upTo, g
    <3> QED
      BY <3>1, <3>2, <3>3
  <2>6. ASSUME NEW s \in upTo(n)
        PROVE  g[s] = next(g, s)
    <3>1. CASE s = {}
      BY <3>1
    <3>2. CASE s # {}
      <4> DEFINE r == s \ {CHOOSE x \in s : TRUE}
      <4>1. r \in upTo(n - 1)
        BY <1>1, <1>2, <2>3, <3>2
      <4>2. g[r] = h[r]
        BY <2>5, <4>1
      <4>3. g[s] = next(h, s)
        OBVIOUS
      <4> HIDE DEF g
      <4> QED
        BY <3>2, <4>2, <4>3
    <3> QED
      BY <3>1, <3>2
  <2>7. E(n, g)
    <3>1. g = [s \in upTo(n) |-> g[s]]
      OBVIOUS
    <3> HIDE DEF g, next, upTo
    <3> QED
      BY <2>6, <3>1
  <2> QED
    BY <2>1, <2>7
<1>4. Cardinality(S) \in Nat /\ upTo(Cardinality(S)) = SUBSET S
  BY <1>1
<1>5. \E h : h = [s \in SUBSET S |-> next(h, s)]
  <2>1. \E h : E(Cardinality(S), h)
    <3> HIDE DEF E
    <3> QED
      BY <1>3, <1>4
  <2> HIDE DEF next, upTo
  <2> QED
    BY <1>4, <2>1
<1>6. PICK sum : sum = CHOOSE h : h = [s \in SUBSET S |-> next(h, s)]
  OBVIOUS
<1>7. sum = [s \in SUBSET S |-> next(sum, s)]
  <2> HIDE DEF next
  <2> QED
    BY <1>5, <1>6
<1>8. SumFunctionOnSet(f, S) = sum[S]
  BY <1>6 DEF SumFunctionOnSet, FoldFunctionOnSet, MapThenFoldSet
<1>9. \A s \in SUBSET S : sum[s] = next(sum, s)
  <2> HIDE DEF next
  <2> QED
    BY <1>7
<1> QED
  BY <1>8, <1>9 DEF IsSummation, SumsUp

\* A sum is that of one element, the one that is chosen, and of the rest.
LEMMA SumChoice ==
  ASSUME NEW f, NEW S, IsFiniteSet(S)
  PROVE  SumsUp(f, S, SumFunctionOnSet(f, S), SumFunctionOnSet(f, S \ {CHOOSE x \in S : TRUE}))
<1> DEFINE y == CHOOSE x \in S : TRUE
           T == S \ {y}
<1>1. IsFiniteSet(T) /\ T \in SUBSET S
  BY FS_Subset
<1>2. PICK sum : IsSummation(f, S, sum)
  BY SumDefined
<1>3. PICK less : IsSummation(f, T, less)
  <2> HIDE DEF T
  <2> QED
    BY <1>1, SumDefined
<1> DEFINE bad == {s \in SUBSET T : less[s] # sum[s]}
<1>4. ASSUME bad # {}
      PROVE  FALSE
  <2>1. bad \in SUBSET (SUBSET T)
    OBVIOUS
  <2>2. PICK s \in bad : \A r \in bad : r \subseteq s => r = s
    <3> HIDE DEF bad, T
    <3> QED
      BY <1>1, <1>4, <2>1, SmallestSet
  <2>3. SumsUp(f, s, less[s], less[s \ {CHOOSE x \in s : TRUE}])
    BY <1>3 DEF IsSummation
  <2>4. SumsUp(f, s, sum[s], sum[s \ {CHOOSE x \in s : TRUE}])
    BY <1>2 DEF IsSummation
  <2>5. s # {}
    BY <2>3, <2>4 DEF SumsUp
  <2>6. CHOOSE x \in s : TRUE \in s
    BY <2>5
  <2>7. s \ {CHOOSE x \in s : TRUE} \notin bad
    BY <2>2, <2>5
  <2> QED
    BY <2>3, <2>4, <2>7 DEF SumsUp
<1>5. less[T] = sum[T]
  BY <1>4
<1>6. SumsUp(f, S, sum[S], sum[T])
  BY <1>2 DEF IsSummation
<1>7. SumFunctionOnSet(f, S) = sum[S] /\ SumFunctionOnSet(f, T) = less[T]
  BY <1>2, <1>3 DEF IsSummation
<1> QED
  BY <1>5, <1>6, <1>7

\* Integers have an integer sum.
LEMMA SumType ==
  ASSUME NEW f, NEW S, IsFiniteSet(S), \A x \in S : f[x] \in Int
  PROVE  SumFunctionOnSet(f, S) \in Int
<1> DEFINE bad == {s \in SUBSET S : SumFunctionOnSet(f, s) \notin Int}
<1>1. ASSUME bad # {}
      PROVE  FALSE
  <2>1. bad \in SUBSET (SUBSET S)
    OBVIOUS
  <2>2. PICK s \in bad : \A r \in bad : r \subseteq s => r = s
    <3> HIDE DEF bad
    <3> QED
      BY <1>1, <2>1, SmallestSet
  <2>3. PICK y : y = CHOOSE x \in s : TRUE
    OBVIOUS
  <2>4. SumsUp(f, s, SumFunctionOnSet(f, s), SumFunctionOnSet(f, s \ {y}))
    BY <2>3, SumChoice, FS_Subset
  <2>5. s # {}
    BY <2>4 DEF SumsUp
  <2>6. y \in s /\ f[y] \in Int
    BY <2>3, <2>5
  <2>7. SumFunctionOnSet(f, s \ {y}) \in Int
    BY <2>2, <2>6
  <2> QED
    BY <2>3, <2>4, <2>6, <2>7 DEF SumsUp
<1> QED
  BY <1>1

\* A sum over no elements is zero.
LEMMA SumEmpty == ASSUME NEW f PROVE SumFunctionOnSet(f, {}) = 0
<1>1. IsFiniteSet({})
  BY FS_EmptySet
<1> QED
  BY <1>1, SumChoice DEF SumsUp

\* A sum is that of any one element and of the rest.
LEMMA SumStep ==
  ASSUME NEW f, NEW S, IsFiniteSet(S), \A x \in S : f[x] \in Int, NEW z \in S
  PROVE  SumFunctionOnSet(f, S) = f[z] + SumFunctionOnSet(f, S \ {z})
<1> DEFINE bad == {s \in SUBSET S : \E x \in s :
                     SumFunctionOnSet(f, s) # f[x] + SumFunctionOnSet(f, s \ {x})}
<1>1. ASSUME bad # {}
      PROVE  FALSE
  <2>1. bad \in SUBSET (SUBSET S)
    OBVIOUS
  <2>2. PICK s \in bad : \A r \in bad : r \subseteq s => r = s
    <3> HIDE DEF bad
    <3> QED
      BY <1>1, <2>1, SmallestSet
  <2>3. PICK x \in s : SumFunctionOnSet(f, s) # f[x] + SumFunctionOnSet(f, s \ {x})
    OBVIOUS
  <2>4. PICK y : y = CHOOSE e \in s : TRUE
    OBVIOUS
  <2>5. y \in s
    BY <2>4
  <2>6. SumFunctionOnSet(f, s) = f[y] + SumFunctionOnSet(f, s \ {y})
    <3>1. IsFiniteSet(s)
      BY FS_Subset
    <3>2. SumsUp(f, s, SumFunctionOnSet(f, s), SumFunctionOnSet(f, s \ {CHOOSE e \in s : TRUE}))
      BY <3>1, SumChoice
    <3> QED
      BY <2>4, <2>5, <3>2 DEF SumsUp
  <2>7. x # y
    BY <2>3, <2>6
  <2>8. s \ {x} \notin bad /\ s \ {y} \notin bad /\ s \ {x} \in SUBSET S /\ s \ {y} \in SUBSET S
    BY <2>2, <2>5
  <2>9. SumFunctionOnSet(f, s \ {y}) = f[x] + SumFunctionOnSet(f, (s \ {y}) \ {x})
    BY <2>7, <2>8
  <2>10. SumFunctionOnSet(f, s \ {x}) = f[y] + SumFunctionOnSet(f, (s \ {x}) \ {y})
    BY <2>5, <2>7, <2>8
  <2>11. PICK r : r = SumFunctionOnSet(f, (s \ {x}) \ {y})
    OBVIOUS
  <2>12. IsFiniteSet((s \ {x}) \ {y}) /\ (s \ {x}) \ {y} = (s \ {y}) \ {x}
    BY FS_Subset
  <2>13. r \in Int /\ f[x] \in Int /\ f[y] \in Int
    BY <2>5, <2>11, <2>12, SumType
  <2>14. /\ SumFunctionOnSet(f, s) = f[y] + (f[x] + r)
         /\ SumFunctionOnSet(f, s \ {x}) = f[y] + r
    BY <2>6, <2>9, <2>10, <2>11, <2>12
  <2> QED
    BY <2>3, <2>13, <2>14
<1> QED
  BY <1>1

\* Functions that agree on a set have the same sum there.
LEMMA SumSame ==
  ASSUME NEW f, NEW g, NEW S, IsFiniteSet(S), \A x \in S : f[x] = g[x]
  PROVE  SumFunctionOnSet(f, S) = SumFunctionOnSet(g, S)
<1> DEFINE bad == {s \in SUBSET S : SumFunctionOnSet(f, s) # SumFunctionOnSet(g, s)}
<1>1. ASSUME bad # {}
      PROVE  FALSE
  <2>1. bad \in SUBSET (SUBSET S)
    OBVIOUS
  <2>2. PICK s \in bad : \A r \in bad : r \subseteq s => r = s
    <3> HIDE DEF bad
    <3> QED
      BY <1>1, <2>1, SmallestSet
  <2>3. PICK y : y = CHOOSE x \in s : TRUE
    OBVIOUS
  <2>4. /\ SumsUp(f, s, SumFunctionOnSet(f, s), SumFunctionOnSet(f, s \ {y}))
        /\ SumsUp(g, s, SumFunctionOnSet(g, s), SumFunctionOnSet(g, s \ {y}))
    BY <2>3, SumChoice, FS_Subset
  <2>5. s # {}
    BY <2>4 DEF SumsUp
  <2>6. y \in s /\ f[y] = g[y]
    BY <2>3, <2>5
  <2>7. SumFunctionOnSet(f, s \ {y}) = SumFunctionOnSet(g, s \ {y})
    BY <2>2, <2>6
  <2> QED
    BY <2>3, <2>4, <2>6, <2>7 DEF SumsUp
<1> QED
  BY <1>1

\* The sum over two sets that have nothing in common is that of their sums.
LEMMA SumUnion ==
  ASSUME NEW f, NEW S, NEW T, IsFiniteSet(S), IsFiniteSet(T), S \cap T = {},
         \A x \in S \cup T : f[x] \in Int
  PROVE  SumFunctionOnSet(f, S \cup T) = SumFunctionOnSet(f, S) + SumFunctionOnSet(f, T)
<1> DEFINE bad == {s \in SUBSET S :
                     SumFunctionOnSet(f, s \cup T) # SumFunctionOnSet(f, s) + SumFunctionOnSet(f, T)}
<1>1. ASSUME bad # {}
      PROVE  FALSE
  <2>1. bad \in SUBSET (SUBSET S)
    OBVIOUS
  <2>2. PICK s \in bad : \A r \in bad : r \subseteq s => r = s
    <3> HIDE DEF bad
    <3> QED
      BY <1>1, <2>1, SmallestSet
  <2>3. SumFunctionOnSet(f, T) \in Int
    BY SumType
  <2>4. s # {}
    <3>1. {} \cup T = T
      OBVIOUS
    <3> QED
      BY <2>3, <3>1, SumEmpty
  <2>5. PICK y : y \in s
    BY <2>4
  <2>6. IsFiniteSet(s) /\ IsFiniteSet(s \ {y}) /\ IsFiniteSet(s \cup T)
    BY FS_Subset, FS_Union
  <2>7. SumFunctionOnSet(f, s) = f[y] + SumFunctionOnSet(f, s \ {y})
    BY <2>5, <2>6, SumStep
  <2>8. (s \cup T) \ {y} = (s \ {y}) \cup T
    BY <2>5
  <2>9. SumFunctionOnSet(f, s \cup T) = f[y] + SumFunctionOnSet(f, (s \ {y}) \cup T)
    BY <2>5, <2>6, <2>8, SumStep
  <2>10. SumFunctionOnSet(f, (s \ {y}) \cup T) = SumFunctionOnSet(f, s \ {y}) + SumFunctionOnSet(f, T)
    BY <2>2, <2>5
  <2>11. SumFunctionOnSet(f, s \ {y}) \in Int /\ f[y] \in Int
    BY <2>5, <2>6, SumType
  <2> QED
    BY <2>3, <2>7, <2>9, <2>10, <2>11
<1> QED
  BY <1>1

\* The sum of differences is the difference of the sums.
LEMMA SumDifference ==
  ASSUME NEW f, NEW g, NEW h, NEW S, IsFiniteSet(S),
         \A x \in S : f[x] \in Int /\ g[x] \in Int /\ h[x] = f[x] - g[x]
  PROVE  SumFunctionOnSet(h, S) = SumFunctionOnSet(f, S) - SumFunctionOnSet(g, S)
<1> DEFINE bad == {s \in SUBSET S :
                     SumFunctionOnSet(h, s) # SumFunctionOnSet(f, s) - SumFunctionOnSet(g, s)}
<1>1. ASSUME bad # {}
      PROVE  FALSE
  <2>1. bad \in SUBSET (SUBSET S)
    OBVIOUS
  <2>2. PICK s \in bad : \A r \in bad : r \subseteq s => r = s
    <3> HIDE DEF bad
    <3> QED
      BY <1>1, <2>1, SmallestSet
  <2>3. s # {}
    <3>1. SumFunctionOnSet(h, {}) = 0 /\ SumFunctionOnSet(f, {}) = 0 /\ SumFunctionOnSet(g, {}) = 0
      BY SumEmpty
    <3> QED
      BY <3>1
  <2>4. PICK y : y \in s
    BY <2>3
  <2>5. IsFiniteSet(s) /\ IsFiniteSet(s \ {y}) /\ \A x \in S : h[x] \in Int
    BY FS_Subset
  <2>6. /\ SumFunctionOnSet(f, s) = f[y] + SumFunctionOnSet(f, s \ {y})
        /\ SumFunctionOnSet(g, s) = g[y] + SumFunctionOnSet(g, s \ {y})
        /\ SumFunctionOnSet(h, s) = h[y] + SumFunctionOnSet(h, s \ {y})
    BY <2>4, <2>5, SumStep
  <2>7. /\ SumFunctionOnSet(f, s \ {y}) \in Int /\ f[y] \in Int
        /\ SumFunctionOnSet(g, s \ {y}) \in Int /\ g[y] \in Int
    BY <2>4, <2>5, SumType
  <2>8. SumFunctionOnSet(h, s \ {y}) = SumFunctionOnSet(f, s \ {y}) - SumFunctionOnSet(g, s \ {y})
    BY <2>2, <2>4
  <2>9. h[y] = f[y] - g[y]
    BY <2>4
  <2> QED
    BY <2>6, <2>7, <2>8, <2>9
<1> QED
  BY <1>1

\* Of two sets of one size, the one of the greater values has the greater sum.
LEMMA SumOfGreater ==
  ASSUME NEW f, NEW S, NEW T, IsFiniteSet(S), IsFiniteSet(T), Cardinality(S) = Cardinality(T),
         \A x \in S \cup T : f[x] \in Int,
         \A x \in S, y \in T : f[x] <= f[y]
  PROVE  SumFunctionOnSet(f, S) <= SumFunctionOnSet(f, T)
<1> DEFINE bad == {s \in SUBSET S : \E t \in SUBSET T :
                     Cardinality(s) = Cardinality(t) /\ ~ (SumFunctionOnSet(f, s) <= SumFunctionOnSet(f, t))}
<1>1. ASSUME bad # {}
      PROVE  FALSE
  <2>1. bad \in SUBSET (SUBSET S)
    OBVIOUS
  <2>2. PICK s \in bad : \A r \in bad : r \subseteq s => r = s
    <3> HIDE DEF bad
    <3> QED
      BY <1>1, <2>1, SmallestSet
  <2>3. PICK t \in SUBSET T : Cardinality(s) = Cardinality(t)
                              /\ ~ (SumFunctionOnSet(f, s) <= SumFunctionOnSet(f, t))
    BY <2>2
  <2>4. s \subseteq S /\ IsFiniteSet(s) /\ IsFiniteSet(t)
    BY FS_Subset
  <2>5. s # {}
    <3>1. ASSUME s = {} PROVE FALSE
      <4>1. t = {}
        BY <2>3, <2>4, <3>1, FS_EmptySet
      <4> QED
        BY <2>3, <3>1, <4>1, SumEmpty
    <3> QED
      BY <3>1
  <2>6. t # {}
    BY <2>3, <2>4, <2>5, FS_EmptySet
  <2>7. PICK x \in s, y \in t : TRUE
    BY <2>5, <2>6
  <2>8. /\ IsFiniteSet(s \ {x}) /\ Cardinality(s \ {x}) = Cardinality(s) - 1
        /\ IsFiniteSet(t \ {y}) /\ Cardinality(t \ {y}) = Cardinality(t) - 1
    BY <2>4, <2>7, FS_RemoveElement
  <2>9. SumFunctionOnSet(f, s \ {x}) <= SumFunctionOnSet(f, t \ {y})
    <3>1. s \ {x} \notin bad
      BY <2>2, <2>7
    <3>2. s \ {x} \in SUBSET S /\ t \ {y} \in SUBSET T
      OBVIOUS
    <3> QED
      BY <2>3, <2>8, <3>1, <3>2
  <2>10. /\ SumFunctionOnSet(f, s) = f[x] + SumFunctionOnSet(f, s \ {x})
        /\ SumFunctionOnSet(f, t) = f[y] + SumFunctionOnSet(f, t \ {y})
    BY <2>4, <2>7, SumStep
  <2>11. /\ f[x] \in Int /\ f[y] \in Int /\ f[x] <= f[y]
         /\ SumFunctionOnSet(f, s \ {x}) \in Int /\ SumFunctionOnSet(f, t \ {y}) \in Int
    <3>1. \A z \in (s \ {x}) \cup (t \ {y}) : f[z] \in Int
      BY <2>4
    <3> QED
      BY <2>4, <2>7, <2>8, <3>1, SumType
  <2> QED
    BY <2>3, <2>9, <2>10, <2>11
<1>2. S \notin bad
  BY <1>1
<1> QED
  BY <1>2

\* A sum does not change when its terms are named differently.
LEMMA SumRenamed ==
  ASSUME NEW f, NEW g, NEW I, NEW S, IsFiniteSet(I), NEW h \in Bijection(I, S),
         \A i \in I : g[i] = f[h[i]] /\ g[i] \in Int
  PROVE  SumFunctionOnSet(g, I) = SumFunctionOnSet(f, S)
<1> DEFINE image(s) == {h[i] : i \in s}
           bad == {s \in SUBSET I : SumFunctionOnSet(g, s) # SumFunctionOnSet(f, image(s))}
<1>1. /\ \A i \in I : h[i] \in S
      /\ \A i, j \in I : h[i] = h[j] => i = j
      /\ \A x \in S : \E i \in I : h[i] = x
  BY DEF Bijection, Injection, IsInjective, Surjection
<1>2. ASSUME bad # {}
      PROVE  FALSE
  <2>1. bad \in SUBSET (SUBSET I)
    OBVIOUS
  <2>2. PICK s \in bad : \A r \in bad : r \subseteq s => r = s
    <3> HIDE DEF bad
    <3> QED
      BY <1>2, <2>1, SmallestSet
  <2>3. s # {}
    <3>1. image({}) = {}
      OBVIOUS
    <3>2. SumFunctionOnSet(g, {}) = 0 /\ SumFunctionOnSet(f, {}) = 0
      BY SumEmpty
    <3> QED
      BY <3>1, <3>2
  <2>4. PICK j \in s : TRUE
    BY <2>3
  <2>5. s \subseteq I /\ j \in I /\ IsFiniteSet(s) /\ IsFiniteSet(image(s))
    <3>1. s \in SUBSET I
      BY <2>2
    <3>2. IsFiniteSet(s)
      BY <3>1, FS_Subset
    <3>3. IsFiniteSet(image(s))
      BY <3>2, FiniteImage
    <3> HIDE DEF image, bad
    <3> QED
      BY <2>4, <3>1, <3>2, <3>3
  <2>6. h[j] \in image(s) /\ image(s) \ {h[j]} = image(s \ {j})
    BY <1>1, <2>4, <2>5
  <2>7. SumFunctionOnSet(g, s \ {j}) = SumFunctionOnSet(f, image(s \ {j}))
    BY <2>2, <2>4
  <2>8. \A i \in s : g[i] \in Int
    BY <2>5
  <2>9. \A x \in image(s) : f[x] \in Int
    BY <2>5
  <2>10. g[j] = f[h[j]]
    BY <2>5
  <2>11. SumFunctionOnSet(g, s) # SumFunctionOnSet(f, image(s))
    BY <2>2
  <2> HIDE DEF image, bad
  <2>12. SumFunctionOnSet(g, s) = g[j] + SumFunctionOnSet(g, s \ {j})
    BY <2>4, <2>5, <2>8, SumStep
  <2>13. SumFunctionOnSet(f, image(s)) = f[h[j]] + SumFunctionOnSet(f, image(s) \ {h[j]})
    BY <2>5, <2>6, <2>9, SumStep
  <2> QED
    BY <2>6, <2>7, <2>10, <2>11, <2>12, <2>13
<1>3. image(I) = S
  BY <1>1
<1>4. I \notin bad
  BY <1>2
<1> QED
  BY <1>3, <1>4

-----------------------------------------------------------------------------
(* Lists of a set, every member once.                                      *)

Enumerates(s, S) == s \in Seq(S) /\ IsInjective(s) /\ ToSet(s) = S

LEMMA EnumerationFacts ==
  ASSUME NEW s, NEW S, Enumerates(s, S)
  PROVE  /\ Len(s) \in Nat /\ DOMAIN s = 1..Len(s) /\ s \in Bijection(1..Len(s), S)
         /\ IsFiniteSet(S) /\ Cardinality(S) = Len(s)
<1>1. Len(s) \in Nat /\ s \in [1..Len(s) -> S] /\ DOMAIN s = 1..Len(s)
  BY LenProperties DEF Enumerates
<1>2. s \in Bijection(1..Len(s), S)
  BY <1>1 DEF Enumerates, ToSet, IsInjective, Bijection, Injection, Surjection
<1>3. IsFiniteSet(1..Len(s)) /\ Cardinality(1..Len(s)) = Len(s)
  BY <1>1, FS_Interval
<1> QED
  BY <1>1, <1>2, <1>3, FS_Bijection DEF ExistsBijection

LEMMA BijectionEnumerates ==
  ASSUME NEW s, NEW S, s \in Seq(S), s \in Bijection(1..Len(s), S)
  PROVE  Enumerates(s, S)
<1>1. DOMAIN s = 1..Len(s)
  BY LenProperties
<1>2. IsInjective(s)
  BY <1>1 DEF Bijection, Injection, IsInjective
<1>3. ToSet(s) = S
  BY <1>1 DEF Bijection, Surjection, Injection, ToSet
<1> QED
  BY <1>2, <1>3 DEF Enumerates

LEMMA Prefix ==
  ASSUME NEW s, NEW S, Enumerates(s, S), NEW n \in 0..Len(s)
  PROVE  /\ Enumerates(SubSeq(s, 1, n), {s[i] : i \in 1..n}) /\ Len(SubSeq(s, 1, n)) = n
         /\ \A i \in 1..n : SubSeq(s, 1, n)[i] = s[i]
<1>1. PICK T, t : T = {s[i] : i \in 1..n} /\ t = SubSeq(s, 1, n)
  OBVIOUS
<1>2. Len(s) \in Nat /\ DOMAIN s = 1..Len(s)
  BY EnumerationFacts
<1>3. n \in Int /\ n \in Nat /\ 1..n \subseteq DOMAIN s
  BY <1>2
<1>4. \A i \in 1..n : s[i] \in T
  BY <1>1
<1>5. t \in Seq(T) /\ Len(t) = (IF 1 <= n THEN n - 1 + 1 ELSE 0) /\ \A i \in 1..(n - 1 + 1) : t[i] = s[1 + i - 1]
  BY <1>1, <1>3, <1>4, SubSeqProperties
<1>6. Len(t) = n /\ \A i \in 1..n : t[i] = s[i]
  BY <1>3, <1>5
<1>7. DOMAIN t = 1..n
  BY <1>5, <1>6, LenProperties
<1>8. IsInjective(t)
  BY <1>2, <1>3, <1>6, <1>7 DEF Enumerates, IsInjective
<1>9. ToSet(t) = T
  BY <1>1, <1>6, <1>7 DEF ToSet
<1> QED
  BY <1>1, <1>5, <1>6, <1>8, <1>9 DEF Enumerates

LEMMA Joined ==
  ASSUME NEW s, NEW S, Enumerates(s, S), NEW t, NEW T, Enumerates(t, T), S \cap T = {}
  PROVE  /\ Enumerates(s \o t, S \cup T) /\ Len(s \o t) = Len(s) + Len(t)
         /\ \A i \in 1..Len(s) : (s \o t)[i] = s[i]
         /\ \A i \in 1..Len(t) : (s \o t)[Len(s) + i] = t[i]
<1>1. PICK u, a, b : u = s \o t /\ a = Len(s) /\ b = Len(t)
  OBVIOUS
<1>2. a \in Nat /\ b \in Nat /\ DOMAIN s = 1..a /\ DOMAIN t = 1..b
  BY <1>1, EnumerationFacts
<1>3. s \in Seq(S \cup T) /\ t \in Seq(S \cup T)
  BY WiderSeq DEF Enumerates
<1>4. u \in Seq(S \cup T) /\ Len(u) = a + b
      /\ \A i \in 1..(a + b) : u[i] = IF i <= a THEN s[i] ELSE t[i - a]
  BY <1>1, <1>3, ConcatProperties
<1>5. DOMAIN u = 1..(a + b)
  BY <1>4, LenProperties
<1>6. /\ \A i \in 1..a : i \in DOMAIN u /\ u[i] = s[i]
      /\ \A i \in 1..b : a + i \in DOMAIN u /\ u[a + i] = t[i]
  BY <1>2, <1>4, <1>5
<1>7. \A i \in DOMAIN u : i \in 1..a \/ (i - a \in 1..b /\ i = a + (i - a))
  BY <1>2, <1>5
<1>8. \A i \in 1..a : s[i] \in S
  BY <1>2 DEF Enumerates, ToSet
<1>9. \A i \in 1..b : t[i] \in T
  BY <1>2 DEF Enumerates, ToSet
<1>10. ASSUME NEW i \in DOMAIN u
      PROVE  \/ i \in 1..a /\ u[i] = s[i] /\ u[i] \in S
             \/ i - a \in 1..b /\ u[i] = t[i - a] /\ u[i] \in T
  <2>1. i \in Int /\ a \in Int
    BY <1>2, <1>5
  <2>2. CASE i \in 1..a
    BY <1>6, <1>8, <2>2
  <2>3. CASE i - a \in 1..b
    <3>1. PICK k : k = i - a
      OBVIOUS
    <3>2. k \in 1..b /\ i = a + k
      BY <2>1, <2>3, <3>1
    <3> QED
      BY <1>6, <1>9, <3>1, <3>2
  <2> QED
    BY <1>7, <2>2, <2>3
<1>11. ASSUME NEW i \in DOMAIN u, NEW j \in DOMAIN u, u[i] = u[j] PROVE i = j
  <2>1. CASE i \in 1..a /\ u[i] = s[i] /\ j \in 1..a /\ u[j] = s[j]
    BY <1>2, <1>11, <2>1 DEF Enumerates, IsInjective
  <2>2. CASE i - a \in 1..b /\ u[i] = t[i - a] /\ j - a \in 1..b /\ u[j] = t[j - a]
    <3>1. i - a = j - a
      BY <1>2, <1>11, <2>2 DEF Enumerates, IsInjective
    <3> QED
      BY <1>2, <1>5, <3>1
  <2> QED
    BY <1>10, <1>11, <2>1, <2>2
<1>12. ToSet(u) = S \cup T
  <2>1. \A x \in S : \E i \in 1..a : x = s[i]
    BY <1>2 DEF Enumerates, ToSet
  <2>2. \A x \in T : \E i \in 1..b : x = t[i]
    BY <1>2 DEF Enumerates, ToSet
  <2>3. \A x \in S \cup T : \E i \in DOMAIN u : x = u[i]
    BY <1>6, <2>1, <2>2
  <2>4. \A i \in DOMAIN u : u[i] \in S \cup T
    BY <1>6, <1>7, <1>8, <1>9
  <2> QED
    BY <2>3, <2>4 DEF ToSet
<1>13. IsInjective(u)
  BY <1>11 DEF IsInjective
<1> QED
  BY <1>1, <1>4, <1>6, <1>12, <1>13 DEF Enumerates

LEMMA SumOfList ==
  ASSUME NEW s, NEW S, Enumerates(s, S), NEW f, \A x \in S : f[x] \in Int
  PROVE  SumFunction([i \in DOMAIN s |-> f[s[i]]]) = SumFunctionOnSet(f, S)
<1>1. PICK g : g = [i \in DOMAIN s |-> f[s[i]]]
  OBVIOUS
<1>2. Len(s) \in Nat /\ DOMAIN s = 1..Len(s) /\ s \in Bijection(1..Len(s), S)
  BY EnumerationFacts
<1>3. IsFiniteSet(1..Len(s))
  BY <1>2, FS_Interval
<1>4. \A i \in 1..Len(s) : s[i] \in S
  BY <1>2 DEF Bijection, Injection
<1>5. \A i \in 1..Len(s) : g[i] = f[s[i]] /\ g[i] \in Int
  BY <1>1, <1>2, <1>4
<1>6. SumFunctionOnSet(g, 1..Len(s)) = SumFunctionOnSet(f, S)
  BY <1>2, <1>3, <1>5, SumRenamed
<1>7. DOMAIN g = 1..Len(s)
  BY <1>1, <1>2
<1> QED
  BY <1>1, <1>6, <1>7 DEF SumFunction

\* As many members of A as T has sum to no more, when T holds the greatest.
LEMMA SumOfBest ==
  ASSUME NEW f, NEW A, IsFiniteSet(A), NEW S, NEW T, S \subseteq A, T \subseteq A,
         Cardinality(S) = Cardinality(T), \A x \in A : f[x] \in Int,
         \A x \in A \ T, y \in T : f[x] <= f[y]
  PROVE  SumFunctionOnSet(f, S) <= SumFunctionOnSet(f, T)
<1>1. PICK X, Y, Z : X = S \cap T /\ Y = S \ T /\ Z = T \ S
  OBVIOUS
<1>2. IsFiniteSet(S) /\ IsFiniteSet(T)
  BY FS_Subset
<1>3. IsFiniteSet(X) /\ IsFiniteSet(Y) /\ IsFiniteSet(Z)
  <2>1. X \subseteq A /\ Y \subseteq A /\ Z \subseteq A
    BY <1>1
  <2> QED
    BY <2>1, FS_Subset
<1>4. S = X \cup Y /\ T = X \cup Z /\ X \cap Y = {} /\ X \cap Z = {}
  BY <1>1
<1>5. Cardinality(Y) = Cardinality(Z)
  <2>1. Cardinality(X \cup Y) = Cardinality(X) + Cardinality(Y) - Cardinality(X \cap Y)
    BY <1>3, FS_Union
  <2>2. Cardinality(X \cup Z) = Cardinality(X) + Cardinality(Z) - Cardinality(X \cap Z)
    BY <1>3, FS_Union
  <2>3. Cardinality({}) = 0
    BY FS_EmptySet
  <2>4. Cardinality(X) \in Nat /\ Cardinality(Y) \in Nat /\ Cardinality(Z) \in Nat
    BY <1>3, FS_CardinalityType
  <2>5. Cardinality(S) = Cardinality(X) + Cardinality(Y) /\ Cardinality(T) = Cardinality(X) + Cardinality(Z)
    <3>1. Cardinality(X \cap Y) = 0 /\ Cardinality(X \cap Z) = 0
      BY ONLY <1>4, <2>3, Zenon
    <3>2. Cardinality(S) = Cardinality(X \cup Y) /\ Cardinality(T) = Cardinality(X \cup Z)
      BY ONLY <1>4, Zenon
    <3>3. PICK cx, cy, cz, ct, cs, cu, cv, z1, z2 :
            /\ cx = Cardinality(X) /\ cy = Cardinality(Y) /\ cz = Cardinality(Z) /\ cs = Cardinality(S)
            /\ ct = Cardinality(T) /\ cu = Cardinality(X \cup Y) /\ cv = Cardinality(X \cup Z)
            /\ z1 = Cardinality(X \cap Y) /\ z2 = Cardinality(X \cap Z)
      OBVIOUS
    <3>4. cu = cx + cy - z1 /\ cv = cx + cz - z2 /\ z1 = 0 /\ z2 = 0 /\ cs = cu /\ ct = cv
          /\ cx \in Nat /\ cy \in Nat /\ cz \in Nat
      BY ONLY <2>1, <2>2, <2>4, <3>1, <3>2, <3>3, Zenon
    <3>5. cs = cx + cy /\ ct = cx + cz
      BY ONLY <3>4
    <3> QED
      BY ONLY <3>3, <3>5, Zenon
  <2>6. Cardinality(S) = Cardinality(T)
    OBVIOUS
  <2> QED
    BY ONLY <2>4, <2>5, <2>6
<1>6. SumFunctionOnSet(f, Y) <= SumFunctionOnSet(f, Z)
  <2>1. \A x \in Y \cup Z : f[x] \in Int
    BY <1>1
  <2>2. \A x \in Y, y \in Z : f[x] <= f[y]
    BY <1>1
  <2> QED
    BY <1>3, <1>5, <2>1, <2>2, SumOfGreater
<1>7. \A x \in X \cup Y : f[x] \in Int
  BY <1>1
<1>8. \A x \in X \cup Z : f[x] \in Int
  BY <1>1
<1>9. SumFunctionOnSet(f, X \cup Y) = SumFunctionOnSet(f, X) + SumFunctionOnSet(f, Y)
  BY <1>3, <1>4, <1>7, SumUnion
<1>10. SumFunctionOnSet(f, X \cup Z) = SumFunctionOnSet(f, X) + SumFunctionOnSet(f, Z)
  BY <1>3, <1>4, <1>8, SumUnion
<1>11. SumFunctionOnSet(f, X) \in Int /\ SumFunctionOnSet(f, Y) \in Int /\ SumFunctionOnSet(f, Z) \in Int
  BY <1>3, <1>7, <1>8, SumType
<1> QED
  BY <1>4, <1>6, <1>9, <1>10, <1>11
=============================================================================
