-------------------------- MODULE ChartQueriesProofs -------------------------
(***************************************************************************)
(* Proofs about ChartQueries, for every number of threads and every limit: *)
(* the query gate and the bytes of the cache are counted exactly and       *)
(* bounded, and every chart is answered from a state of its file that the  *)
(* request has seen.                                                       *)
(***************************************************************************)
EXTENDS ChartQueries, FiniteSetTheorems, TLAPS

-----------------------------------------------------------------------------
(* Induction over the natural numbers, from the well-foundedness of < *)

\* Every nonempty set of natural numbers has a least element.
LEMMA LeastNatural ==
  ASSUME NEW T, T \subseteq Nat, T # {}
  PROVE  \E n \in T : \A m \in T : n <= m
<1> DEFINE R == OpToRel(<, Nat)
<1>1. IsWellFoundedOn(R, Nat)  BY NatLessThanWellFounded
<1>2. PICK n \in T : \A m \in T : ~(<<m, n>> \in R)
  <2> HIDE DEF R
  <2> QED BY <1>1, WFMin
<1>3. \A m \in T : ~(m < n)  BY <1>2 DEF OpToRel
<1> HIDE DEF R
<1> QED BY <1>3

\* A set that holds 0 and is closed under successor holds every natural number.
LEMMA NaturalInduction ==
  ASSUME NEW S, 0 \in S, \A n \in Nat : n \in S => n + 1 \in S
  PROVE  Nat \subseteq S
<1> SUFFICES ASSUME Nat \ S # {} PROVE FALSE
  OBVIOUS
<1>1. PICK n \in Nat \ S : \A m \in Nat \ S : n <= m  BY LeastNatural
<1>2. n # 0 OBVIOUS
<1>3. n - 1 \in S  BY <1>1, <1>2
<1> QED BY <1>3, <1>1, <1>2

-----------------------------------------------------------------------------
(* Sums of a weight function, as cardinalities: w[i] units for every i in I *)

Units(w, I) == UNION {{i} \X (1..w[i]) : i \in I}
Total(w, I) == Cardinality(Units(w, I))

LEMMA UnitsOfOne ==
  ASSUME NEW w, NEW i, w[i] \in Nat
  PROVE  IsFiniteSet(Units(w, {i})) /\ Total(w, {i}) = w[i]
<1> DEFINE f == [n \in 1..w[i] |-> <<i, n>>]
<1>1. Units(w, {i}) = {i} \X (1..w[i]) BY DEF Units
<1>2. f \in Bijection(1..w[i], Units(w, {i}))
  <2>1. f \in [1..w[i] -> Units(w, {i})] BY <1>1
  <2>2. \A a, b \in 1..w[i] : f[a] = f[b] => a = b OBVIOUS
  <2>3. \A t \in Units(w, {i}) : \E n \in 1..w[i] : f[n] = t BY <1>1
  <2> QED BY <2>1, <2>2, <2>3 DEF Bijection, Injection, Surjection, IsInjective
<1>3. IsFiniteSet(1..w[i]) /\ Cardinality(1..w[i]) = w[i] BY FS_Interval
<1> QED BY <1>2, <1>3, FS_Bijection DEF Total, ExistsBijection

LEMMA UnitsOfBoth ==
  ASSUME NEW w, NEW I, NEW J, I \intersect J = {},
         IsFiniteSet(Units(w, I)), IsFiniteSet(Units(w, J))
  PROVE  /\ IsFiniteSet(Units(w, I \union J))
         /\ Total(w, I \union J) = Total(w, I) + Total(w, J)
<1>1. Units(w, I \union J) = Units(w, I) \union Units(w, J) BY DEF Units
<1>2. Units(w, I) \intersect Units(w, J) = {} BY DEF Units
<1>3. Total(w, I) \in Nat /\ Total(w, J) \in Nat BY FS_CardinalityType DEF Total
<1>4. /\ IsFiniteSet(Units(w, I) \union Units(w, J))
      /\ Cardinality(Units(w, I) \union Units(w, J))
           = Cardinality(Units(w, I)) + Cardinality(Units(w, J))
             - Cardinality(Units(w, I) \intersect Units(w, J))
  BY FS_Union
<1>5. Cardinality(Units(w, I) \intersect Units(w, J)) = 0 BY <1>2, FS_EmptySet
<1>6. Cardinality(Units(w, I) \union Units(w, J)) = Total(w, I) + Total(w, J)
  BY <1>3, <1>4, <1>5 DEF Total
<1> QED BY <1>1, <1>4, <1>6 DEF Total

LEMMA UnitsAndOne ==
  ASSUME NEW w, NEW s, NEW x \in s, w[x] \in Nat, IsFiniteSet(Units(w, s \ {x}))
  PROVE  Total(w, s) = w[x] + Total(w, s \ {x})
<1> DEFINE J == s \ {x}
           I == {x}
<1>1. IsFiniteSet(Units(w, I)) /\ Total(w, I) = w[x] BY UnitsOfOne
<1>2. I \intersect J = {} /\ I \union J = s OBVIOUS
<1>3. IsFiniteSet(Units(w, J)) OBVIOUS
<1> HIDE DEF I, J
<1>4. Total(w, I \union J) = Total(w, I) + Total(w, J) BY <1>1, <1>2, <1>3, UnitsOfBoth
<1>5. Total(w, s) = w[x] + Total(w, J) BY <1>1, <1>2, <1>4
<1> QED BY <1>5 DEF J

LEMMA UnitsOfNone == ASSUME NEW w PROVE IsFiniteSet(Units(w, {})) /\ Total(w, {}) = 0
<1>1. Units(w, {}) = {} BY DEF Units
<1> QED BY <1>1, FS_EmptySet DEF Total

LEMMA UnitsFinite ==
  ASSUME NEW I, IsFiniteSet(I), NEW w, \A i \in I : w[i] \in Nat
  PROVE  IsFiniteSet(Units(w, I)) /\ Total(w, I) \in Nat
<1> DEFINE Good == {n \in Nat : \A J \in SUBSET I : Cardinality(J) = n => IsFiniteSet(Units(w, J))}
<1>1. 0 \in Good
  <2> SUFFICES ASSUME NEW J \in SUBSET I, Cardinality(J) = 0 PROVE IsFiniteSet(Units(w, J))
    OBVIOUS
  <2>1. J = {} BY FS_Subset, FS_EmptySet
  <2> QED BY <2>1, UnitsOfNone
<1>2. ASSUME NEW n \in Nat, n \in Good PROVE n + 1 \in Good
  <2> SUFFICES ASSUME NEW J \in SUBSET I, Cardinality(J) = n + 1 PROVE IsFiniteSet(Units(w, J))
    OBVIOUS
  <2>1. IsFiniteSet(J) BY FS_Subset
  <2>2. J # {} BY FS_EmptySet
  <2>3. PICK x \in J : TRUE BY <2>2
  <2>4. Cardinality(J \ {x}) = n
    <3>1. Cardinality(J \ {x}) = Cardinality(J) - 1 BY <2>1, <2>3, FS_RemoveElement
    <3> QED BY <3>1
  <2>5. IsFiniteSet(Units(w, J \ {x})) BY <1>2, <2>4
  <2>6. IsFiniteSet(Units(w, {x})) BY UnitsOfOne
  <2>7. J = (J \ {x}) \union {x} BY <2>3
  <2> HIDE DEF Good
  <2>8. IsFiniteSet(Units(w, (J \ {x}) \union {x}))
    BY <2>5, <2>6, UnitsOfBoth
  <2> QED BY <2>7, <2>8
<1> HIDE DEF Good
<1>3. Nat \subseteq Good BY <1>1, <1>2, NaturalInduction
<1>4. Cardinality(I) \in Good BY <1>3, FS_CardinalityType
<1>5. IsFiniteSet(Units(w, I)) BY <1>4 DEF Good
<1> QED BY <1>5, FS_CardinalityType DEF Total

\* The fold of the library, over its recursive function, is this total.
LEMMA SumIsTotal ==
  ASSUME NEW w, IsFiniteSet(DOMAIN w), \A i \in DOMAIN w : w[i] \in Nat
  PROVE  SumFunction(w) = Total(w, DOMAIN w)
<1> DEFINE D == DOMAIN w
           Rec(g) == [s \in SUBSET D |->
                        IF s = {} THEN 0
                        ELSE LET x == CHOOSE y \in s : TRUE IN w[x] + g[s \ {x}]]
           iter == CHOOSE g : g = Rec(g)
           known == [s \in SUBSET D |-> Total(w, s)]
<1>1. SumFunction(w) = iter[D]
  BY DEF SumFunction, SumFunctionOnSet, FoldFunctionOnSet, MapThenFoldSet
<1>2. known = Rec(known)
  <2> SUFFICES ASSUME NEW s \in SUBSET D
               PROVE  known[s] = IF s = {} THEN 0
                                 ELSE LET x == CHOOSE y \in s : TRUE IN w[x] + known[s \ {x}]
    OBVIOUS
  <2>1. CASE s = {} BY <2>1, UnitsOfNone
  <2>2. CASE s # {}
    <3> DEFINE x == CHOOSE y \in s : TRUE
    <3>1. x \in s BY <2>2
    <3> HIDE DEF x
    <3>2. IsFiniteSet(s \ {x}) BY FS_Subset
    <3>3. IsFiniteSet(Units(w, s \ {x})) BY <3>2, UnitsFinite
    <3>4. Total(w, s) = w[x] + Total(w, s \ {x}) BY <3>1, <3>3, UnitsAndOne
    <3>7. known[s] = w[x] + known[s \ {x}] BY <3>4
    <3> QED BY <2>2, <3>7 DEF x
  <2> QED BY <2>1, <2>2
<1>3. iter = Rec(iter)
  <2> HIDE DEF Rec, known
  <2>1. \E g : g = Rec(g) BY <1>2
  <2> QED BY <2>1
<1> HIDE DEF iter
<1> DEFINE Good == {n \in Nat : \A s \in SUBSET D : Cardinality(s) = n => iter[s] = Total(w, s)}
<1>4. 0 \in Good
  <2> SUFFICES ASSUME NEW s \in SUBSET D, Cardinality(s) = 0 PROVE iter[s] = Total(w, s)
    OBVIOUS
  <2>1. s = {} BY FS_Subset, FS_EmptySet
  <2>2. iter[s] = 0 BY <1>3, <2>1
  <2> QED BY <2>1, <2>2, UnitsOfNone
<1>5. ASSUME NEW n \in Nat, n \in Good PROVE n + 1 \in Good
  <2> SUFFICES ASSUME NEW s \in SUBSET D, Cardinality(s) = n + 1 PROVE iter[s] = Total(w, s)
    OBVIOUS
  <2>1. IsFiniteSet(s) BY FS_Subset
  <2>2. s # {} BY FS_EmptySet
  <2> DEFINE x == CHOOSE y \in s : TRUE
  <2>3. x \in s BY <2>2
  <2>4. iter[s] = w[x] + iter[s \ {x}] BY <1>3, <2>2
  <2> HIDE DEF x
  <2>5. Cardinality(s \ {x}) = n
    <3>1. Cardinality(s \ {x}) = Cardinality(s) - 1 BY <2>1, <2>3, FS_RemoveElement
    <3> QED BY <3>1
  <2>6. iter[s \ {x}] = Total(w, s \ {x}) BY <1>5, <2>5
  <2>7. IsFiniteSet(s \ {x}) BY FS_Subset
  <2>8. IsFiniteSet(Units(w, s \ {x})) BY <2>7, UnitsFinite
  <2>9. Total(w, s) = w[x] + Total(w, s \ {x}) BY <2>3, <2>8, UnitsAndOne
  <2> QED BY <2>4, <2>6, <2>9
<1> HIDE DEF Good
<1>6. Nat \subseteq Good BY <1>4, <1>5, NaturalInduction
<1>7. Cardinality(D) \in Good BY <1>6, FS_CardinalityType
<1>8. iter[D] = Total(w, D) BY <1>7 DEF Good
<1> QED BY <1>1, <1>8

\* Weights carried over by a bijection add up to the same.
LEMMA Renumbered ==
  ASSUME NEW I, NEW K, NEW f \in Bijection(I, K), IsFiniteSet(I), NEW v, NEW w,
         \A i \in I : v[i] \in Nat /\ v[i] = w[f[i]]
  PROVE  Total(v, I) = Total(w, K)
<1> DEFINE g == [u \in Units(v, I) |-> <<f[u[1]], u[2]>>]
<1>0. /\ f \in [I -> K] /\ \A i, j \in I : f[i] = f[j] => i = j
      /\ \A k \in K : \E i \in I : f[i] = k
  BY DEF Bijection, Injection, Surjection, IsInjective
<1>1. \A u \in Units(v, I) : u = <<u[1], u[2]>> /\ u[1] \in I /\ u[2] \in 1..v[u[1]]
  BY DEF Units
<1>2. g \in [Units(v, I) -> Units(w, K)]
  <2> SUFFICES ASSUME NEW u \in Units(v, I) PROVE <<f[u[1]], u[2]>> \in Units(w, K)
    OBVIOUS
  <2>1. f[u[1]] \in K /\ u[2] \in 1..w[f[u[1]]] BY <1>0, <1>1
  <2> QED BY <2>1 DEF Units
<1>3. \A a, b \in Units(v, I) : g[a] = g[b] => a = b BY <1>0, <1>1
<1>4. \A t \in Units(w, K) : \E u \in Units(v, I) : g[u] = t
  <2> SUFFICES ASSUME NEW t \in Units(w, K) PROVE \E u \in Units(v, I) : g[u] = t
    OBVIOUS
  <2>1. t = <<t[1], t[2]>> /\ t[1] \in K /\ t[2] \in 1..w[t[1]] BY DEF Units
  <2>2. PICK i \in I : f[i] = t[1] BY <1>0, <2>1
  <2>3. <<i, t[2]>> \in Units(v, I) BY <2>1, <2>2 DEF Units
  <2>4. g[<<i, t[2]>>] = t BY <2>1, <2>2, <2>3
  <2> QED BY <2>3, <2>4
<1>5. g \in Bijection(Units(v, I), Units(w, K))
  <2> HIDE DEF g
  <2> QED BY <1>2, <1>3, <1>4 DEF Bijection, Injection, Surjection, IsInjective
<1>6. IsFiniteSet(Units(v, I)) BY UnitsFinite
<1> QED BY <1>5, <1>6, FS_Bijection DEF Total, ExistsBijection

-----------------------------------------------------------------------------
(* Parts of a sequence *)

LEMMA InitialSegment == \A n \in Nat : IsFiniteSet(1..n) /\ Cardinality(1..n) = n
BY FS_Interval

Upto(I, i) == {j \in I : j <= i}
Pick(I, n) == CHOOSE i \in I : Cardinality({j \in I : j <= i}) = n

\* The n-th smallest element of a finite set exists for every n up to its size.
LEMMA PickIsBijection ==
  ASSUME NEW I, I \subseteq Nat, IsFiniteSet(I)
  PROVE  [n \in 1..Cardinality(I) |-> Pick(I, n)] \in Bijection(1..Cardinality(I), I)
<1> DEFINE N == Cardinality(I)
           rank == [i \in I |-> Cardinality(Upto(I, i))]
           pick == [n \in 1..N |-> Pick(I, n)]
<1>0. N \in Nat BY FS_CardinalityType
<1>1. ASSUME NEW i \in I
      PROVE  IsFiniteSet(Upto(I, i)) /\ Cardinality(Upto(I, i)) \in 1..N
  <2>1. Upto(I, i) \in SUBSET I /\ i \in Upto(I, i) BY DEF Upto
  <2>2. IsFiniteSet(Upto(I, i)) /\ Cardinality(Upto(I, i)) <= N BY <2>1, FS_Subset
  <2>3. Cardinality(Upto(I, i)) \in Nat /\ Cardinality(Upto(I, i)) # 0
    BY <2>1, <2>2, FS_CardinalityType, FS_EmptySet
  <2> QED BY <1>0, <2>2, <2>3
<1>2. ASSUME NEW i \in I, NEW j \in I, i < j PROVE rank[i] # rank[j]
  <2> HIDE DEF N, rank, pick
  <2>0. i \in Nat /\ j \in Nat /\ \A k \in I : k \in Nat OBVIOUS
  <2>1. Upto(I, i) \in SUBSET Upto(I, j) /\ j \in Upto(I, j) /\ j \notin Upto(I, i)
    <3>1. \A k \in I : k <= i => k <= j BY <1>2, <2>0
    <3>2. j <= j /\ ~ (j <= i) BY <1>2, <2>0
    <3> QED BY <3>1, <3>2 DEF Upto
  <2>2. IsFiniteSet(Upto(I, j)) BY <1>1
  <2>3. Cardinality(Upto(I, j)) # Cardinality(Upto(I, i)) BY <2>1, <2>2, FS_Subset
  <2> QED BY <2>3 DEF rank
<1>3. \A i, j \in I : rank[i] = rank[j] => i = j
  <2> HIDE DEF rank
  <2> SUFFICES ASSUME NEW i \in I, NEW j \in I, rank[i] = rank[j], i # j PROVE FALSE
    OBVIOUS
  <2>1. i < j \/ j < i OBVIOUS
  <2> QED BY <1>2, <2>1
<1>4. rank \in [I -> 1..N] BY <1>1
<1>5. \A n \in 1..N : \E i \in I : rank[i] = n
  <2> HIDE DEF rank, N
  <2>1. rank \in Injection(I, 1..N) BY <1>3, <1>4 DEF Injection, IsInjective
  <2>2. IsFiniteSet(1..N) /\ Cardinality(1..N) = N BY <1>0, FS_Interval
  <2>3. rank \in Surjection(I, 1..N) BY <2>1, <2>2, FS_Injection DEF N
  <2> QED BY <2>3 DEF Surjection
<1>6. \A n \in 1..N : Pick(I, n) \in I /\ rank[Pick(I, n)] = n
  <2> SUFFICES ASSUME NEW n \in 1..N PROVE Pick(I, n) \in I /\ rank[Pick(I, n)] = n
    OBVIOUS
  <2>1. \E i \in I : Cardinality({j \in I : j <= i}) = n BY <1>5 DEF Upto
  <2>2. Pick(I, n) \in I /\ Cardinality({j \in I : j <= Pick(I, n)}) = n BY <2>1 DEF Pick
  <2> QED BY <2>2 DEF Upto
<1> HIDE DEF rank, N
<1>7. pick \in [1..N -> I] BY <1>6
<1>8. \A m, n \in 1..N : pick[m] = pick[n] => m = n BY <1>6
<1>9. \A i \in I : \E n \in 1..N : pick[n] = i
  <2> SUFFICES ASSUME NEW i \in I PROVE \E n \in 1..N : pick[n] = i
    OBVIOUS
  <2>1. rank[i] \in 1..N BY <1>4
  <2>2. pick[rank[i]] = i BY <1>3, <1>6, <2>1
  <2> QED BY <2>1, <2>2
<1>10. pick \in Bijection(1..N, I)
  <2> HIDE DEF pick
  <2> QED BY <1>7, <1>8, <1>9 DEF Bijection, Injection, Surjection, IsInjective
<1> QED BY <1>10 DEF N

Entry == [key : Keys, from : SUBSET Stamps, size : Lengths, expired : BOOLEAN]

\* The bytes of the entries of s with an index in I.
BytesAt(s, I) == Total(Sizes(s), I)

LEMMA SizesTyped ==
  ASSUME NEW s \in Seq(Entry)
  PROVE  /\ DOMAIN Sizes(s) = 1..Len(s) /\ DOMAIN s = 1..Len(s)
         /\ \A i \in 1..Len(s) : Sizes(s)[i] \in Nat /\ Sizes(s)[i] = s[i].size
         /\ \A I \in SUBSET (1..Len(s)) :
              /\ IsFiniteSet(I) /\ \A i \in I : Sizes(s)[i] \in Nat
<1>1. DOMAIN s = 1..Len(s) /\ \A i \in 1..Len(s) : s[i] \in Entry OBVIOUS
<1>2. \A e \in Entry : e.size \in Nat BY ChartAssumption DEF Entry
<1>3. \A I \in SUBSET (1..Len(s)) : IsFiniteSet(I)
  <2>1. IsFiniteSet(1..Len(s)) BY FS_Interval
  <2> QED BY <2>1, FS_Subset
<1> QED BY <1>1, <1>2, <1>3 DEF Sizes

LEMMA BytesAreAll ==
  ASSUME NEW s \in Seq(Entry) PROVE Bytes(s) = BytesAt(s, 1..Len(s))
BY SizesTyped, SumIsTotal DEF Bytes, BytesAt

LEMMA BytesAtNat ==
  ASSUME NEW s \in Seq(Entry), NEW I \in SUBSET (1..Len(s)) PROVE BytesAt(s, I) \in Nat
BY SizesTyped, UnitsFinite DEF BytesAt

\* Splitting the entries splits the bytes.
LEMMA BytesSplit ==
  ASSUME NEW s \in Seq(Entry), NEW I \in SUBSET (1..Len(s)), NEW J \in SUBSET (1..Len(s)),
         I \intersect J = {}
  PROVE  BytesAt(s, I \union J) = BytesAt(s, I) + BytesAt(s, J)
<1>1. IsFiniteSet(Units(Sizes(s), I)) /\ IsFiniteSet(Units(Sizes(s), J))
  BY SizesTyped, UnitsFinite
<1> QED BY <1>1, UnitsOfBoth DEF BytesAt

\* A sequence made of the entries of s at I has their bytes.
LEMMA BytesMoved ==
  ASSUME NEW s \in Seq(Entry), NEW t \in Seq(Entry), NEW I \in SUBSET (1..Len(s)),
         NEW f \in Bijection(1..Len(t), I), \A n \in 1..Len(t) : t[n].size = s[f[n]].size
  PROVE  Bytes(t) = BytesAt(s, I)
<1>1. f \in [1..Len(t) -> I] BY DEF Bijection, Injection
<1>2. \A n \in 1..Len(t) : Sizes(t)[n] \in Nat /\ Sizes(t)[n] = Sizes(s)[f[n]]
  <2> SUFFICES ASSUME NEW n \in 1..Len(t)
               PROVE  Sizes(t)[n] \in Nat /\ Sizes(t)[n] = Sizes(s)[f[n]]
    OBVIOUS
  <2>1. f[n] \in 1..Len(s) BY <1>1
  <2>2. Sizes(s)[f[n]] = s[f[n]].size BY <2>1, SizesTyped
  <2>3. Sizes(t)[n] \in Nat /\ Sizes(t)[n] = t[n].size BY SizesTyped
  <2> QED BY <2>2, <2>3
<1>3. IsFiniteSet(1..Len(t)) BY SizesTyped
<1> QED BY <1>2, <1>3, BytesAreAll, Renumbered DEF BytesAt

\* What is picked from a sequence.
LEMMA PickedParts ==
  ASSUME NEW s \in Seq(Entry), NEW I \in SUBSET (1..Len(s))
  PROVE  /\ Picked(s, I) \in Seq(Entry)
         /\ Len(Picked(s, I)) = Cardinality(I)
         /\ Cardinality(I) \in Nat /\ Cardinality(I) <= Len(s)
         /\ Bytes(Picked(s, I)) = BytesAt(s, I)
         /\ \E f \in Bijection(1..Cardinality(I), I) :
              \A n \in 1..Cardinality(I) : Picked(s, I)[n] = s[f[n]]
<1> DEFINE N == Cardinality(I)
           f == [n \in 1..N |-> Pick(I, n)]
           t == Picked(s, I)
<1>1. I \subseteq Nat /\ IsFiniteSet(I) BY SizesTyped
<1>2. N \in Nat /\ N <= Len(s)
  <2>1. Len(s) \in Nat OBVIOUS
  <2>2. IsFiniteSet(1..Len(s)) /\ Cardinality(1..Len(s)) = Len(s)
    <3> HIDE DEF N, f, t
    <3> QED BY <2>1, InitialSegment
  <2> QED BY <1>1, <2>2, FS_Subset, FS_CardinalityType
<1>3. f \in Bijection(1..N, I) BY <1>1, PickIsBijection
<1>4. t = [n \in 1..N |-> s[f[n]]] BY DEF Picked, Pick
<1> HIDE DEF N, f, t
<1>5. f \in [1..N -> I] BY <1>3 DEF Bijection, Injection
<1>6. \A n \in 1..N : s[f[n]] \in Entry
  <2>1. \A i \in 1..Len(s) : s[i] \in Entry OBVIOUS
  <2> QED BY <1>5, <2>1
<1>7. t \in Seq(Entry) /\ Len(t) = N BY <1>2, <1>4, <1>6
<1>8. \A n \in 1..N : t[n] = s[f[n]] BY <1>4
<1>9. Bytes(t) = BytesAt(s, I) BY <1>3, <1>7, <1>8, BytesMoved
<1> QED BY <1>2, <1>3, <1>7, <1>8, <1>9 DEF t, N

LEMMA BytesOfPart ==
  ASSUME NEW s \in Seq(Entry), NEW m \in Nat, NEW n \in 0..Len(s), m <= n
  PROVE  /\ SubSeq(s, m + 1, n) \in Seq(Entry) /\ Len(SubSeq(s, m + 1, n)) = n - m
         /\ \A i \in 1..(n - m) : SubSeq(s, m + 1, n)[i] = s[m + i]
         /\ Bytes(SubSeq(s, m + 1, n)) = BytesAt(s, (m + 1)..n)
<1> DEFINE t == SubSeq(s, m + 1, n)
           f == [i \in 1..(n - m) |-> m + i]
<1>1. t \in Seq(Entry) /\ Len(t) = n - m /\ \A i \in 1..(n - m) : t[i] = s[m + i] OBVIOUS
<1>2. f \in Bijection(1..(n - m), (m + 1)..n)
  <2>1. f \in [1..(n - m) -> (m + 1)..n] OBVIOUS
  <2>2. \A i, j \in 1..(n - m) : f[i] = f[j] => i = j OBVIOUS
  <2>3. \A k \in (m + 1)..n : \E i \in 1..(n - m) : f[i] = k
    <3>1. \A k \in (m + 1)..n : k - m \in 1..(n - m) /\ f[k - m] = k OBVIOUS
    <3> QED BY <3>1
  <2> HIDE DEF f
  <2> QED BY <2>1, <2>2, <2>3 DEF Bijection, Injection, Surjection, IsInjective
<1>3. \A i \in 1..(n - m) : t[i].size = s[f[i]].size BY <1>1
<1> HIDE DEF t, f
<1>4. (m + 1)..n \in SUBSET (1..Len(s)) OBVIOUS
<1>5. Bytes(t) = BytesAt(s, (m + 1)..n) BY <1>1, <1>2, <1>3, <1>4, BytesMoved
<1> QED BY <1>1, <1>5 DEF t

LEMMA BytesAppended ==
  ASSUME NEW s \in Seq(Entry), NEW e \in Entry
  PROVE  /\ Append(s, e) \in Seq(Entry) /\ Len(Append(s, e)) = Len(s) + 1
         /\ Bytes(Append(s, e)) = Bytes(s) + e.size
<1> DEFINE t == Append(s, e)
           n == Len(s)
           id == [i \in 1..n |-> i]
<1>1. /\ t \in Seq(Entry) /\ Len(t) = n + 1 /\ n \in Nat
      /\ t[n + 1] = e /\ \A i \in 1..n : t[i] = s[i]
  OBVIOUS
<1> HIDE DEF t
<1>2. BytesAt(t, 1..n) = Bytes(s)
  <2>1. id \in Bijection(1..n, 1..n) BY DEF Bijection, Injection, Surjection, IsInjective
  <2>2. \A i \in 1..n : s[i].size = t[id[i]].size BY <1>1
  <2>3. 1..n \in SUBSET (1..Len(t)) BY <1>1
  <2> HIDE DEF id
  <2> QED BY <1>1, <2>1, <2>2, <2>3, BytesMoved
<1>3. BytesAt(t, {n + 1}) = e.size
  <2>1. Sizes(t)[n + 1] \in Nat /\ Sizes(t)[n + 1] = e.size BY <1>1, SizesTyped
  <2> QED BY <2>1, UnitsOfOne DEF BytesAt
<1>4. (1..n) \union {n + 1} = 1..Len(t) /\ (1..n) \intersect {n + 1} = {} BY <1>1
<1>5. BytesAt(t, (1..n) \union {n + 1}) = BytesAt(t, 1..n) + BytesAt(t, {n + 1})
  BY <1>1, <1>4, BytesSplit
<1>6. Bytes(t) = Bytes(s) + e.size BY <1>1, <1>2, <1>3, <1>4, <1>5, BytesAreAll
<1> QED BY <1>1, <1>6 DEF t

-----------------------------------------------------------------------------
(* Requests *)

Places == InsideGate \union {"idle", "row", "keyed", "missed", "computed", "answered"}
QueryRow == [at : Places, chart : Charts, version : Versions, path : Paths, stamp : Stamps,
             from : SUBSET Stamps, late : BOOLEAN, during : SUBSET Stamps]

\* What a request that runs has seen of its file: every state up to the present
\* one, the state in its key among them, and nothing older in its result.
Watch(r, now) ==
  r.at # "idle" =>
    /\ now \in r.during
    /\ \A n \in r.during : n..now \subseteq r.during
    /\ IF r.at = "row" THEN r.from = {} ELSE r.stamp \in r.during
    /\ r.stamp <= now
    /\ r.from \subseteq r.stamp..now
Watched == \A q \in Queries : Watch(query[q], stamp[query[q].path])

\* An entry was computed from states its file had since the one in its key.
EntriesTrue ==
  \A i \in DOMAIN cache : cache[i].from \subseteq cache[i].key.stamp..stamp[cache[i].key.path]

Inside == {q \in Queries : query[q].at \in InsideGate}
GateCounted == active = Cardinality(Inside) /\ active <= MaxConcurrent

KeysDiffer(s) == \A i, j \in DOMAIN s : s[i].key = s[j].key => i = j
CacheCounted ==
  /\ bytes = Bytes(cache) /\ bytes <= MaxBytes /\ Len(cache) <= MaxEntries
  /\ KeysDiffer(cache)

ChartInv == ChartTypeOK /\ Watched /\ EntriesTrue /\ GateCounted /\ CacheCounted

LEMMA TypesMeant ==
  ChartTypeOK <=>
    /\ version \in Versions /\ path \in Paths /\ stamp \in [Paths -> Stamps]
    /\ query \in [Queries -> QueryRow]
    /\ active \in Int /\ bytes \in Int /\ cache \in Seq(Entry)
BY DEF ChartTypeOK, QueryRow, Places, Entry

LEMMA NoQueryTyped == NoQuery \in QueryRow /\ NoQuery.at = "idle"
<1>1. (CHOOSE c \in Charts : TRUE) \in Charts /\ (CHOOSE p \in Paths : TRUE) \in Paths
  BY ChartAssumption
<1>2. 1 \in Versions /\ 0 \in Stamps BY ChartAssumption DEF Versions, Stamps
<1> QED BY <1>1, <1>2 DEF NoQuery, QueryRow, Places

\* A step that replaces one request and moves neither the dataset nor the cache.
LEMMA RequestMoves ==
  ASSUME ChartInv, NEW q \in Queries, NEW r \in QueryRow, Watch(r, stamp[r.path]),
         query' = [query EXCEPT ![q] = r], DataKept
  PROVE  /\ query' \in [Queries -> QueryRow] /\ Watched'
         /\ version' \in Versions /\ path' \in Paths /\ stamp' \in [Paths -> Stamps]
         /\ query'[q].at = r.at
         /\ \A u \in Queries : u # q => query'[u] = query[u]
<1>1. query \in [Queries -> QueryRow] BY TypesMeant DEF ChartInv
<1>2. query' \in [Queries -> QueryRow] /\ query'[q] = r
      /\ \A u \in Queries : u # q => query'[u] = query[u]
  BY <1>1
<1>3. Watched' BY <1>2 DEF Watched, DataKept, ChartInv
<1> QED BY <1>2, <1>3, TypesMeant DEF DataKept, ChartInv

LEMMA GateSame ==
  ASSUME GateCounted, UNCHANGED active, NEW q \in Queries,
         query'[q].at \in InsideGate <=> query[q].at \in InsideGate,
         \A u \in Queries : u # q => query'[u] = query[u]
  PROVE  GateCounted'
<1>1. Inside' = Inside BY DEF Inside
<1> QED BY <1>1 DEF GateCounted

LEMMA GateEntered ==
  ASSUME GateCounted, active \in Int, active < MaxConcurrent, active' = active + 1,
         NEW q \in Queries, query[q].at \notin InsideGate, query'[q].at \in InsideGate,
         \A u \in Queries : u # q => query'[u] = query[u]
  PROVE  GateCounted'
<1>1. Inside' = Inside \union {q} /\ q \notin Inside BY DEF Inside
<1>2. IsFiniteSet(Inside) BY ChartAssumption, FS_Subset DEF Inside
<1>3. Cardinality(Inside \union {q}) = Cardinality(Inside) + 1 BY <1>1, <1>2, FS_AddElement
<1> QED BY <1>1, <1>3, ChartAssumption DEF GateCounted

LEMMA GateLeft ==
  ASSUME GateCounted, active \in Int, active' = active - 1,
         NEW q \in Queries, query[q].at \in InsideGate, query'[q].at \notin InsideGate,
         \A u \in Queries : u # q => query'[u] = query[u]
  PROVE  GateCounted'
<1>1. Inside' = Inside \ {q} /\ q \in Inside BY DEF Inside
<1>2. IsFiniteSet(Inside) BY ChartAssumption, FS_Subset DEF Inside
<1>3. Cardinality(Inside \ {q}) = Cardinality(Inside) - 1 BY <1>1, <1>2, FS_RemoveElement
<1> QED BY <1>1, <1>3, ChartAssumption DEF GateCounted

LEMMA CacheSame ==
  ASSUME ChartInv, CacheKept, DataKept
  PROVE  CacheCounted' /\ EntriesTrue' /\ bytes' \in Int /\ cache' \in Seq(Entry)
BY TypesMeant DEF ChartInv, CacheKept, DataKept, CacheCounted, EntriesTrue

\* A request makes its key from the present state, and reads that state.
LEMMA WatchKept ==
  ASSUME NEW now \in Nat, NEW r, NEW t, Watch(r, now), r.at # "idle", t.at \notin {"idle", "row"},
         t.during = r.during, t.from = r.from \/ t.from = r.from \union {now},
         IF r.at = "row" THEN t.stamp = now ELSE t.stamp = r.stamp,
         r.stamp \in Nat
  PROVE  Watch(t, now)
<1>1. CASE r.at = "row" BY <1>1 DEF Watch
<1>2. CASE r.at # "row" BY <1>2 DEF Watch
<1> QED BY <1>1, <1>2

\* Every step of a request but those that use the cache.
LEMMA RequestKeeps ==
  ASSUME ChartInv, NEW q \in Queries,
         \/ \E c \in Charts : ReadRow(q, c)
         \/ MakeKey(q) \/ EnterGate(q) \/ Execute(q) \/ ReadFile(q)
         \/ TimerFires(q) \/ QueryFails(q) \/ LeaveGate(q) \/ Respond(q)
  PROVE  ChartInv'
<1>1. /\ version \in Versions /\ path \in Paths /\ stamp \in [Paths -> Stamps]
      /\ query \in [Queries -> QueryRow] /\ query[q] \in QueryRow
      /\ active \in Int /\ active' \in Int
  <2>1. \/ active' = active \/ active' = active + 1 \/ active' = active - 1
    BY DEF ReadRow, MakeKey, EnterGate, Execute, ReadFile, TimerFires, QueryFails, LeaveGate, Left,
           Respond
  <2> QED BY <2>1, TypesMeant DEF ChartInv
<1> DEFINE now == stamp[query[q].path]
<1>2. /\ now \in Stamps /\ query[q].path \in Paths /\ query[q].stamp \in Stamps
      /\ query[q].from \subseteq Stamps /\ query[q].during \subseteq Stamps
      /\ Stamps \subseteq Nat
  BY <1>1, ChartAssumption DEF QueryRow, Stamps
<1>3. Watch(query[q], now) BY DEF ChartInv, Watched
<1>4. DataKept /\ CacheKept
  BY DEF ReadRow, MakeKey, EnterGate, Execute, ReadFile, TimerFires, QueryFails, LeaveGate, Respond
<1>5. ASSUME NEW r \in QueryRow, query' = [query EXCEPT ![q] = r], Watch(r, stamp[r.path]),
             GateCounted'
      PROVE  ChartInv'
  <2>1. /\ query' \in [Queries -> QueryRow] /\ Watched'
        /\ version' \in Versions /\ path' \in Paths /\ stamp' \in [Paths -> Stamps]
    BY <1>4, <1>5, RequestMoves
  <2>2. CacheCounted' /\ EntriesTrue' /\ bytes' \in Int /\ cache' \in Seq(Entry)
    BY <1>4, CacheSame
  <2>3. ChartTypeOK'
    BY <1>1, <2>1, <2>2 DEF ChartTypeOK, QueryRow, Places, Entry
  <2> QED BY <1>5, <2>1, <2>2, <2>3 DEF ChartInv
<1>6. ASSUME NEW r \in QueryRow, query' = [query EXCEPT ![q] = r], Watch(r, stamp[r.path]),
             UNCHANGED active, r.at \in InsideGate <=> query[q].at \in InsideGate
      PROVE  ChartInv'
  <2>1. GateCounted' BY <1>4, <1>6, RequestMoves, GateSame DEF ChartInv
  <2> QED BY <1>5, <1>6, <2>1
<1>7. NoQuery \in QueryRow /\ NoQuery.at = "idle" /\ Watch(NoQuery, stamp[NoQuery.path])
  BY NoQueryTyped DEF Watch
<1>8. ASSUME NEW s \in Places \ {"idle", "row"}, NEW b \in BOOLEAN,
             query[q].at \notin {"idle", "row"},
             query' = [query EXCEPT ![q] = [query[q] EXCEPT !.at = s, !.late = b]]
      PROVE  /\ [query[q] EXCEPT !.at = s, !.late = b] \in QueryRow
             /\ [query[q] EXCEPT !.at = s, !.late = b].at = s
             /\ Watch([query[q] EXCEPT !.at = s, !.late = b],
                      stamp[[query[q] EXCEPT !.at = s, !.late = b].path])
  BY <1>1, <1>3, <1>8 DEF QueryRow, Watch
<1>9. query[q].late \in BOOLEAN
      /\ \A s : [query EXCEPT ![q].at = s]
                  = [query EXCEPT ![q] = [query[q] EXCEPT !.at = s, !.late = query[q].late]]
  BY <1>1 DEF QueryRow
<1>10. ASSUME NEW c \in Charts, ReadRow(q, c) PROVE ChartInv'
  <2> DEFINE r == [NoQuery EXCEPT !.at = "row", !.chart = c, !.version = version, !.path = path,
                                  !.during = {stamp[path]}]
  <2>1. r \in QueryRow /\ r.at = "row" /\ r.path = path /\ r.during = {stamp[path]}
        /\ r.stamp = 0 /\ r.from = {}
    <3>1. NoQuery.stamp = 0 /\ NoQuery.from = {} BY DEF NoQuery
    <3>2. stamp[path] \in Stamps BY <1>1
    <3> QED BY <1>1, <1>7, <3>1, <3>2 DEF QueryRow, Places
  <2>2. stamp[path] \in Nat BY <1>1, <1>2
  <2>3. Watch(r, stamp[r.path])
    <3> HIDE DEF r
    <3> QED BY <2>1, <2>2 DEF Watch
  <2>4. query' = [query EXCEPT ![q] = r] /\ query[q].at = "idle" /\ UNCHANGED active
    BY <1>10 DEF ReadRow
  <2> HIDE DEF r
  <2> QED BY <1>6, <2>1, <2>3, <2>4 DEF InsideGate
<1>11. CASE MakeKey(q)
  <2>1. query[q].at = "row" /\ UNCHANGED active BY <1>11 DEF MakeKey
  <2>2. CASE query' = [query EXCEPT ![q] = NoQuery] BY <1>6, <1>7, <2>1, <2>2 DEF InsideGate
  <2>3. CASE query' = [query EXCEPT ![q].at = "keyed", ![q].stamp = stamp[query[q].path]]
    <3> DEFINE r == [query[q] EXCEPT !.at = "keyed", !.stamp = now]
    <3>1. query' = [query EXCEPT ![q] = r] BY <1>1, <2>3
    <3>2. r \in QueryRow /\ r.at = "keyed" /\ r.stamp = now /\ r.path = query[q].path
          /\ r.during = query[q].during /\ r.from = query[q].from
      BY <1>1, <1>2 DEF QueryRow, Places
    <3>3. Watch(r, stamp[r.path])
      <4>1. query[q].from = {} BY <1>3, <2>1 DEF Watch
      <4> HIDE DEF r, now
      <4>2. now \in Nat /\ query[q].stamp \in Nat BY <1>2
      <4>3. Watch(r, now) BY <1>3, <2>1, <3>2, <4>2, WatchKept
      <4>4. stamp[r.path] = now BY <3>2 DEF now
      <4> QED BY <4>3, <4>4
    <3> HIDE DEF r
    <3> QED BY <1>6, <2>1, <3>1, <3>2, <3>3 DEF InsideGate
  <2> QED BY <1>11, <2>2, <2>3 DEF MakeKey
<1>12. ASSUME NEW s \in Places \ {"idle", "row"}, query[q].at \notin {"idle", "row"}, Move(q, s),
              UNCHANGED active, s \in InsideGate <=> query[q].at \in InsideGate
       PROVE  ChartInv'
  <2> DEFINE r == [query[q] EXCEPT !.at = s, !.late = query[q].late]
  <2>1. query' = [query EXCEPT ![q] = r] BY <1>9, <1>12 DEF Move
  <2>2. r \in QueryRow /\ r.at = s /\ Watch(r, stamp[r.path]) BY <1>8, <1>9, <1>12, <2>1
  <2> HIDE DEF r
  <2> QED BY <1>6, <1>12, <2>1, <2>2
<1>13. CASE EnterGate(q)
  <2>1. query[q].at = "missed" BY <1>13 DEF EnterGate
  <2>2. ASSUME active < MaxConcurrent, active' = active + 1, NEW s \in {"loading", "open"}, Move(q, s)
        PROVE  ChartInv'
    <3> DEFINE r == [query[q] EXCEPT !.at = s, !.late = query[q].late]
    <3>1. r \in QueryRow /\ r.at = s /\ Watch(r, stamp[r.path]) /\ query' = [query EXCEPT ![q] = r]
      BY <1>8, <1>9, <2>1, <2>2 DEF Move, Places, InsideGate
    <3> HIDE DEF r
    <3>2. GateCounted'
      <4>1. query'[q].at = s /\ \A u \in Queries : u # q => query'[u] = query[u]
        BY <1>4, <3>1, RequestMoves
      <4> QED BY <1>1, <2>1, <2>2, <4>1, GateEntered DEF ChartInv, InsideGate
    <3> QED BY <1>5, <3>1, <3>2
  <2>3. CASE query' = [query EXCEPT ![q] = NoQuery] /\ UNCHANGED active
    BY <1>6, <1>7, <2>1, <2>3 DEF InsideGate
  <2> QED BY <1>13, <2>2, <2>3 DEF EnterGate
<1>14. CASE Execute(q)
  BY <1>12, <1>14 DEF Execute, Places, InsideGate
<1>15. CASE ReadFile(q)
  <2> DEFINE r == [query[q] EXCEPT !.at = "ran", !.from = @ \union {now}]
  <2>1. query[q].at \in {"loading", "executing"} /\ UNCHANGED active BY <1>15 DEF ReadFile
  <2>2. query' = [query EXCEPT ![q] = r] BY <1>1, <1>15 DEF ReadFile
  <2>3. r \in QueryRow /\ r.at = "ran" /\ r.stamp = query[q].stamp /\ r.path = query[q].path
        /\ r.during = query[q].during /\ r.from = query[q].from \union {now}
    BY <1>1, <1>2 DEF QueryRow, Places, InsideGate
  <2>4. Watch(r, stamp[r.path])
    <3> HIDE DEF r, now
    <3>1. now \in Nat /\ query[q].stamp \in Nat BY <1>2
    <3>2. Watch(r, now) BY <1>3, <2>1, <2>3, <3>1, WatchKept
    <3>3. stamp[r.path] = now BY <2>3 DEF now
    <3> QED BY <3>2, <3>3
  <2> HIDE DEF r
  <2> QED BY <1>6, <2>1, <2>2, <2>3, <2>4 DEF InsideGate
<1>16. CASE TimerFires(q)
  <2>1. query[q].at \in {"open", "executing", "ran"} /\ UNCHANGED active BY <1>16 DEF TimerFires
  <2>2. PICK s \in {query[q].at} \union (IF query[q].at = "executing" THEN {"failing"} ELSE {}) :
          query' = [query EXCEPT ![q].at = s, ![q].late = TRUE]
    BY <1>16 DEF TimerFires
  <2>3. s \in InsideGate BY <2>1, <2>2 DEF InsideGate
  <2>4. query' = [query EXCEPT ![q] = [query[q] EXCEPT !.at = s, !.late = TRUE]] BY <1>1, <2>2
  <2> QED BY <1>6, <1>8, <2>1, <2>3, <2>4 DEF Places, InsideGate
<1>17. CASE QueryFails(q)
  BY <1>12, <1>17 DEF QueryFails, Places, InsideGate
<1>18. CASE LeaveGate(q)
  <2>1. query[q].at \in {"ran", "failing"} /\ active' = active - 1 BY <1>18 DEF LeaveGate, Left
  <2>2. ASSUME NEW r \in QueryRow, r.at \notin InsideGate, Watch(r, stamp[r.path]),
               query' = [query EXCEPT ![q] = r]
        PROVE  ChartInv'
    <3>1. query'[q].at = r.at /\ \A u \in Queries : u # q => query'[u] = query[u]
      BY <1>4, <2>2, RequestMoves
    <3>2. GateCounted' BY <1>1, <2>1, <2>2, <3>1, GateLeft DEF ChartInv, InsideGate
    <3> QED BY <1>5, <2>2, <3>2
  <2>3. CASE query' = [query EXCEPT ![q] = NoQuery] BY <1>7, <2>2, <2>3 DEF InsideGate
  <2>4. CASE Move(q, "computed")
    <3> DEFINE r == [query[q] EXCEPT !.at = "computed", !.late = query[q].late]
    <3>1. /\ r \in QueryRow /\ r.at = "computed" /\ Watch(r, stamp[r.path])
          /\ query' = [query EXCEPT ![q] = r]
      BY <1>8, <1>9, <2>1, <2>4 DEF Move, Places
    <3> HIDE DEF r
    <3> QED BY <2>2, <3>1 DEF InsideGate
  <2> QED BY <1>18, <2>3, <2>4 DEF LeaveGate
<1>19. CASE Respond(q)
  BY <1>6, <1>7, <1>19 DEF Respond, InsideGate
<1> QED BY <1>10, <1>11, <1>13, <1>14, <1>15, <1>16, <1>17, <1>18, <1>19

-----------------------------------------------------------------------------
(* The cache *)

LEMMA PickedFits ==
  ASSUME NEW s \in Seq(Entry), NEW I \in SUBSET (1..Len(s)), KeysDiffer(s)
  PROVE  /\ KeysDiffer(Picked(s, I))
         /\ \A n \in 1..Len(Picked(s, I)) : \E i \in I : Picked(s, I)[n] = s[i]
<1> DEFINE t == Picked(s, I)
           N == Cardinality(I)
<1>1. N \in Nat /\ t \in Seq(Entry) /\ Len(t) = N BY PickedParts
<1>2. PICK f \in Bijection(1..N, I) : \A n \in 1..N : t[n] = s[f[n]] BY PickedParts
<1> HIDE DEF t, N
<1>3. f \in [1..N -> I] /\ \A m, n \in 1..N : f[m] = f[n] => m = n
  BY DEF Bijection, Injection, IsInjective
<1>4. DOMAIN t = 1..N /\ DOMAIN s = 1..Len(s) BY <1>1
<1>5. KeysDiffer(t)
  <2> SUFFICES ASSUME NEW m \in 1..N, NEW n \in 1..N, t[m].key = t[n].key PROVE m = n
    BY <1>4 DEF KeysDiffer
  <2>1. f[m] \in DOMAIN s /\ f[n] \in DOMAIN s BY <1>3, <1>4
  <2>2. s[f[m]].key = s[f[n]].key BY <1>2
  <2>3. f[m] = f[n] BY <2>1, <2>2 DEF KeysDiffer
  <2> QED BY <1>3, <2>3
<1>6. \A n \in 1..Len(t) : \E i \in I : t[n] = s[i] BY <1>1, <1>2, <1>3
<1> QED BY <1>5, <1>6 DEF t

LEMMA AppendParts ==
  ASSUME NEW s \in Seq(Entry), NEW e \in Entry
  PROVE  /\ Len(s) \in Nat /\ Append(s, e)[Len(s) + 1] = e
         /\ \A i \in 1..Len(s) : Append(s, e)[i] = s[i]
OBVIOUS

LEMMA AppendFits ==
  ASSUME NEW s \in Seq(Entry), NEW e \in Entry, KeysDiffer(s), \A i \in 1..Len(s) : s[i].key # e.key
  PROVE  KeysDiffer(Append(s, e))
<1>1. /\ Len(s) \in Nat /\ DOMAIN Append(s, e) = 1..(Len(s) + 1) /\ DOMAIN s = 1..Len(s)
      /\ Append(s, e)[Len(s) + 1] = e /\ \A i \in 1..Len(s) : Append(s, e)[i] = s[i]
  OBVIOUS
<1> SUFFICES ASSUME NEW i \in 1..(Len(s) + 1), NEW j \in 1..(Len(s) + 1),
                    Append(s, e)[i].key = Append(s, e)[j].key
             PROVE  i = j
  BY <1>1 DEF KeysDiffer
<1>2. CASE i = Len(s) + 1 /\ j # Len(s) + 1 BY <1>1, <1>2
<1>3. CASE i # Len(s) + 1 /\ j = Len(s) + 1 BY <1>1, <1>3
<1>4. CASE i # Len(s) + 1 /\ j # Len(s) + 1
  <2>1. i \in 1..Len(s) /\ j \in 1..Len(s) BY <1>1, <1>4
  <2> QED BY <1>1, <2>1 DEF KeysDiffer
<1> QED BY <1>2, <1>3, <1>4

EntryFits(e) == e.from \subseteq e.key.stamp..stamp[e.key.path]

\* A request that ends up with the cache as its only other effect.
LEMMA CacheMoves ==
  ASSUME ChartInv, NEW q \in Queries, NEW r \in QueryRow, Watch(r, stamp[r.path]),
         query' = [query EXCEPT ![q] = r], DataKept, UNCHANGED active,
         query[q].at \notin InsideGate, r.at \notin InsideGate,
         cache' \in Seq(Entry), \A i \in 1..Len(cache') : EntryFits(cache'[i]), CacheCounted'
  PROVE  ChartInv'
<1>1. /\ query' \in [Queries -> QueryRow] /\ Watched'
      /\ version' \in Versions /\ path' \in Paths /\ stamp' \in [Paths -> Stamps]
      /\ query'[q].at = r.at /\ \A u \in Queries : u # q => query'[u] = query[u]
  BY RequestMoves
<1>2. GateCounted' BY <1>1, GateSame DEF ChartInv
<1>3. DOMAIN cache' = 1..Len(cache') /\ UNCHANGED stamp BY DEF DataKept
<1>4. EntriesTrue' BY <1>3 DEF EntriesTrue, EntryFits
<1>5. active' \in Int BY TypesMeant DEF ChartInv
<1>6. bytes' \in Int
  <2>1. Bytes(cache') \in Nat BY BytesAreAll, BytesAtNat
  <2> QED BY <2>1 DEF CacheCounted
<1>7. ChartTypeOK' BY <1>1, <1>5, <1>6 DEF ChartTypeOK, QueryRow, Places, Entry
<1> QED BY <1>1, <1>2, <1>4, <1>7 DEF ChartInv

LEMMA LookupKeeps ==
  ASSUME ChartInv, NEW q \in Queries, Lookup(q) PROVE ChartInv'
<1> DEFINE key == KeyOf(query[q])
           found == {i \in DOMAIN cache : cache[i].key = key}
           left == DOMAIN cache \ found
           others == Picked(cache, left)
           row(s) == [query[q] EXCEPT !.at = s]
<1>1. /\ query \in [Queries -> QueryRow] /\ query[q] \in QueryRow /\ cache \in Seq(Entry)
      /\ DOMAIN cache = 1..Len(cache) /\ Len(cache) \in Nat
      /\ \A i \in 1..Len(cache) : cache[i] \in Entry /\ EntryFits(cache[i])
  <2>1. cache \in Seq(Entry) BY TypesMeant DEF ChartInv
  <2>2. \A i \in DOMAIN cache : EntryFits(cache[i]) BY DEF ChartInv, EntriesTrue, EntryFits
  <2> QED BY <2>1, <2>2, TypesMeant DEF ChartInv
<1>2. /\ query[q].at = "keyed" /\ DataKept /\ UNCHANGED active
      /\ \/ found = {} /\ Move(q, "missed") /\ CacheKept
         \/ \E i \in found :
              cache' = others /\ bytes' = bytes - cache[i].size /\ Move(q, "missed")
         \/ \E i \in found :
              /\ cache' = Append(others, cache[i]) /\ UNCHANGED bytes
              /\ query' = [query EXCEPT ![q].at = "answered", ![q].from = cache[i].from]
  BY DEF Lookup
<1>3. Watch(query[q], stamp[query[q].path]) BY DEF ChartInv, Watched
<1>4. /\ key.chart = query[q].chart /\ key.stamp = query[q].stamp /\ key.path = query[q].path
  BY DEF KeyOf
<1>5. CacheCounted BY DEF ChartInv
<1> DEFINE miss == row("missed")
<1>6. Move(q, "missed") =>
        /\ miss \in QueryRow /\ miss.at = "missed" /\ Watch(miss, stamp[miss.path])
        /\ query' = [query EXCEPT ![q] = miss]
  BY <1>1, <1>2, <1>3 DEF Move, QueryRow, Places, Watch
<1> HIDE DEF miss, row
<1>7. CASE Move(q, "missed") /\ CacheKept
  <2>1. cache' \in Seq(Entry) /\ CacheCounted' BY <1>2, <1>7, CacheSame
  <2>2. \A i \in 1..Len(cache') : EntryFits(cache'[i]) BY <1>1, <1>7 DEF CacheKept
  <2> QED BY <1>2, <1>6, <1>7, <2>1, <2>2, CacheMoves DEF InsideGate
<1> DEFINE W(i) == cache[i].size
<1>8. ASSUME NEW i \in found
      PROVE  /\ others \in Seq(Entry) /\ Len(others) = Len(cache) - 1 /\ KeysDiffer(others)
             /\ Bytes(cache) = Bytes(others) + W(i) /\ W(i) \in Nat /\ Bytes(others) \in Nat
             /\ \A n \in 1..Len(others) : EntryFits(others[n]) /\ others[n].key # key
  <2>1. found = {i} BY <1>5 DEF CacheCounted, KeysDiffer
  <2>2. left \in SUBSET (1..Len(cache)) /\ left = (1..Len(cache)) \ {i} /\ i \in 1..Len(cache)
    BY <1>1, <2>1
  <2> HIDE DEF left
  <2>3. others \in Seq(Entry) /\ Len(others) = Cardinality(left) /\ Bytes(others) = BytesAt(cache, left)
    BY <1>1, <2>2, PickedParts
  <2>4. Cardinality(left) = Len(cache) - 1
    <3>1. IsFiniteSet(1..Len(cache)) /\ Cardinality(1..Len(cache)) = Len(cache)
      BY <1>1, InitialSegment
    <3>2. Cardinality((1..Len(cache)) \ {i}) = Cardinality(1..Len(cache)) - 1
      BY <2>2, <3>1, FS_RemoveElement
    <3> QED BY <2>2, <3>1, <3>2
  <2>5. Bytes(cache) = BytesAt(cache, left) + BytesAt(cache, {i})
    <3>1. left \intersect {i} = {} /\ left \union {i} = 1..Len(cache) BY <2>2
    <3>2. BytesAt(cache, left \union {i}) = BytesAt(cache, left) + BytesAt(cache, {i})
      BY <1>1, <2>2, <3>1, BytesSplit
    <3> QED BY <1>1, <3>1, <3>2, BytesAreAll
  <2>6. BytesAt(cache, {i}) = W(i) /\ W(i) \in Nat
    <3>1. Sizes(cache)[i] \in Nat /\ Sizes(cache)[i] = W(i) BY <1>1, <2>2, SizesTyped
    <3> QED BY <3>1, UnitsOfOne DEF BytesAt
  <2>7. KeysDiffer(others) /\ \A n \in 1..Len(others) : \E k \in left : others[n] = cache[k]
    BY <1>1, <1>5, <2>2, PickedFits DEF CacheCounted
  <2>8. \A k \in left : EntryFits(cache[k]) /\ cache[k].key # key BY <1>1 DEF left
  <2>9. BytesAt(cache, left) \in Nat BY <1>1, <2>2, BytesAtNat
  <2> HIDE DEF others, W, found, key
  <2> QED BY <2>3, <2>4, <2>5, <2>6, <2>7, <2>8, <2>9
<1>9. ASSUME NEW i \in found, cache' = others, bytes' = bytes - W(i), Move(q, "missed")
      PROVE  ChartInv'
  <2> HIDE DEF others, W, found
  <2>2. Bytes(cache') = bytes' BY <1>5, <1>8, <1>9 DEF CacheCounted
  <2>3. bytes' <= MaxBytes /\ Len(cache') <= MaxEntries
    <3>1. /\ W(i) \in Nat /\ Bytes(others) \in Nat /\ bytes = Bytes(others) + W(i) /\ bytes <= MaxBytes
          /\ Len(cache') = Len(cache) - 1 /\ Len(cache) <= MaxEntries
      BY <1>5, <1>8, <1>9 DEF CacheCounted
    <3>2. bytes' = Bytes(others) BY <1>9, <2>2
    <3>3. Bytes(others) <= MaxBytes BY <3>1, ChartAssumption
    <3>4. Len(cache) - 1 <= MaxEntries BY <1>1, <3>1, ChartAssumption
    <3> QED BY <3>1, <3>2, <3>3, <3>4
  <2>4. CacheCounted' BY <1>8, <1>9, <2>2, <2>3 DEF CacheCounted, KeysDiffer
  <2>5. cache' \in Seq(Entry) /\ \A n \in 1..Len(cache') : EntryFits(cache'[n])
    BY <1>8, <1>9
  <2> QED BY <1>2, <1>6, <1>9, <2>4, <2>5, CacheMoves DEF InsideGate
<1>10. ASSUME NEW i \in found, cache' = Append(others, cache[i]), UNCHANGED bytes,
              query' = [query EXCEPT ![q].at = "answered", ![q].from = cache[i].from]
       PROVE  ChartInv'
  <2> DEFINE r == [query[q] EXCEPT !.at = "answered", !.from = cache[i].from]
  <2>1. query' = [query EXCEPT ![q] = r] BY <1>1, <1>10
  <2>2. cache[i] \in Entry /\ cache[i].key = key /\ EntryFits(cache[i]) BY <1>1
  <2>3. r \in QueryRow /\ r.at = "answered" /\ r.path = query[q].path /\ r.stamp = query[q].stamp
        /\ r.during = query[q].during /\ r.from = cache[i].from
    BY <1>1, <2>2 DEF QueryRow, Places, Entry
  <2>4. Watch(r, stamp[r.path])
    <3>1. r.from \subseteq query[q].stamp..stamp[query[q].path] BY <1>4, <2>2, <2>3 DEF EntryFits
    <3> HIDE DEF r
    <3> QED BY <1>2, <1>3, <2>3, <3>1 DEF Watch
  <2> HIDE DEF r, others, W, found, key
  <2>5. cache' \in Seq(Entry) /\ Len(cache') = Len(cache) /\ Bytes(cache') = Bytes(cache)
    <3>2. /\ Append(others, cache[i]) \in Seq(Entry)
          /\ Len(Append(others, cache[i])) = Len(others) + 1
          /\ Bytes(Append(others, cache[i])) = Bytes(others) + W(i)
      BY <1>8, <2>2, BytesAppended DEF W
    <3>3. Len(others) + 1 = Len(cache)
      <4>1. Len(others) = Len(cache) - 1 BY <1>8
      <4> QED BY <1>1, <4>1
    <3>4. Bytes(others) + W(i) = Bytes(cache) BY <1>8
    <3> QED BY <1>10, <3>2, <3>3, <3>4
  <2>6. KeysDiffer(cache') BY <1>8, <1>10, <2>2, AppendFits
  <2>7. CacheCounted' BY <1>5, <1>10, <2>5, <2>6 DEF CacheCounted, KeysDiffer
  <2>8. \A n \in 1..Len(cache') : EntryFits(cache'[n])
    <3>1. /\ Len(cache') = Len(others) + 1 /\ Len(others) \in Nat
          /\ cache'[Len(others) + 1] = cache[i]
          /\ \A n \in 1..Len(others) : cache'[n] = others[n]
      BY <1>8, <1>10, <2>2
    <3>2. \A n \in 1..Len(cache') : n \in 1..Len(others) \/ n = Len(others) + 1 BY <3>1
    <3> QED BY <1>8, <2>2, <3>1, <3>2
  <2> QED BY <1>2, <2>1, <2>3, <2>4, <2>5, <2>7, <2>8, CacheMoves DEF InsideGate
<1> QED BY <1>2, <1>7, <1>9, <1>10

LEMMA StoreKeeps ==
  ASSUME ChartInv, NEW q \in Queries, Store(q) PROVE ChartInv'
<1>0. PICK size \in Lengths : Put(q, size) BY DEF Store
<1> DEFINE key == KeyOf(query[q])
           entry == [key |-> key, from |-> query[q].from, size |-> size, expired |-> FALSE]
           r == [query[q] EXCEPT !.at = "answered"]
<1>1. /\ query \in [Queries -> QueryRow] /\ query[q] \in QueryRow /\ cache \in Seq(Entry)
      /\ DOMAIN cache = 1..Len(cache) /\ Len(cache) \in Nat
      /\ \A i \in 1..Len(cache) : cache[i] \in Entry /\ EntryFits(cache[i])
  <2>1. cache \in Seq(Entry) BY TypesMeant DEF ChartInv
  <2>2. \A i \in DOMAIN cache : EntryFits(cache[i]) BY DEF ChartInv, EntriesTrue, EntryFits
  <2> QED BY <2>1, <2>2, TypesMeant DEF ChartInv
<1>2. /\ query[q].at = "computed" /\ DataKept /\ UNCHANGED active
      /\ query' = [query EXCEPT ![q] = r]
  BY <1>1 DEF Store, Move
<1>3. Watch(query[q], stamp[query[q].path]) BY DEF ChartInv, Watched
<1>4. r \in QueryRow /\ r.at = "answered" /\ Watch(r, stamp[r.path])
  BY <1>1, <1>2, <1>3 DEF QueryRow, Places, Watch
<1>5. entry \in Entry /\ entry.key = key /\ EntryFits(entry)
  <2>1. key \in Keys /\ query[q].from \subseteq Stamps BY <1>1 DEF QueryRow, Keys, KeyOf
  <2>2. key.stamp = query[q].stamp /\ key.path = query[q].path BY DEF KeyOf
  <2>3. query[q].from \subseteq query[q].stamp..stamp[query[q].path] BY <1>2, <1>3 DEF Watch
  <2> HIDE DEF key
  <2> QED BY <2>1, <2>2, <2>3 DEF Entry, EntryFits
<1>6. size \in Nat BY ChartAssumption
<1>7. CacheCounted BY DEF ChartInv
<1> HIDE DEF r
<1>8. CASE CacheKept
  <2>1. cache' \in Seq(Entry) /\ CacheCounted' BY <1>2, <1>8, CacheSame
  <2>2. \A i \in 1..Len(cache') : EntryFits(cache'[i]) BY <1>1, <1>8 DEF CacheKept
  <2> QED BY <1>2, <1>4, <2>1, <2>2, CacheMoves DEF InsideGate
<1>9. CASE ~ CacheKept
  <2>1. /\ ~ (size > MaxBytes)
        /\ \E gone \in SUBSET {i \in DOMAIN cache : cache[i].expired} :
             LET goes == gone \union {i \in DOMAIN cache : cache[i].key = key}
                 kept == Picked(cache, DOMAIN cache \ goes)
                 count == bytes - Bytes(Picked(cache, goes))
                 Rest(n) == SubSeq(kept, n + 1, Len(kept))
                 Oldest(n) == Bytes(SubSeq(kept, 1, n))
                 Fitting(n) == Len(kept) - n < MaxEntries /\ count - Oldest(n) + size <= MaxBytes
                 evicted == CHOOSE n \in 0..Len(kept) :
                              /\ Fitting(n) \/ n = Len(kept)
                              /\ \A m \in 0..(n - 1) : ~ Fitting(m)
             IN  /\ cache' = Append(Rest(evicted), entry)
                 /\ bytes' = count - Oldest(evicted) + size
    BY <1>0, <1>9 DEF Put, CountWithout
  <2>2. PICK gone \in SUBSET {i \in DOMAIN cache : cache[i].expired} :
          LET goes == gone \union {i \in DOMAIN cache : cache[i].key = key}
              kept == Picked(cache, DOMAIN cache \ goes)
              count == bytes - Bytes(Picked(cache, goes))
              Rest(n) == SubSeq(kept, n + 1, Len(kept))
              Oldest(n) == Bytes(SubSeq(kept, 1, n))
              Fitting(n) == Len(kept) - n < MaxEntries /\ count - Oldest(n) + size <= MaxBytes
              evicted == CHOOSE n \in 0..Len(kept) :
                           /\ Fitting(n) \/ n = Len(kept)
                           /\ \A m \in 0..(n - 1) : ~ Fitting(m)
          IN  /\ cache' = Append(Rest(evicted), entry)
              /\ bytes' = count - Oldest(evicted) + size
    BY <2>1
  <2> DEFINE goes == gone \union {i \in DOMAIN cache : cache[i].key = key}
             left == DOMAIN cache \ goes
             kept == Picked(cache, left)
             count == bytes - Bytes(Picked(cache, goes))
             Rest(n) == SubSeq(kept, n + 1, Len(kept))
             Oldest(n) == Bytes(SubSeq(kept, 1, n))
             Fitting(n) == Len(kept) - n < MaxEntries /\ count - Oldest(n) + size <= MaxBytes
             evicted == CHOOSE n \in 0..Len(kept) :
                          /\ Fitting(n) \/ n = Len(kept)
                          /\ \A m \in 0..(n - 1) : ~ Fitting(m)
  <2>3. cache' = Append(Rest(evicted), entry) /\ bytes' = count - Oldest(evicted) + size
    BY <2>2
  <2>4. /\ goes \in SUBSET (1..Len(cache)) /\ left \in SUBSET (1..Len(cache))
        /\ goes \intersect left = {} /\ goes \union left = 1..Len(cache)
        /\ \A i \in left : cache[i].key # key
    BY <1>1
  <2> HIDE DEF goes, left
  <2>5. /\ kept \in Seq(Entry) /\ Bytes(kept) = BytesAt(cache, left) /\ KeysDiffer(kept)
        /\ \A n \in 1..Len(kept) : EntryFits(kept[n]) /\ kept[n].key # key
    <3>1. kept \in Seq(Entry) /\ Bytes(kept) = BytesAt(cache, left) BY <1>1, <2>4, PickedParts
    <3>2. KeysDiffer(kept) /\ \A n \in 1..Len(kept) : \E i \in left : kept[n] = cache[i]
      BY <1>1, <1>7, <2>4, PickedFits DEF CacheCounted
    <3>3. \A i \in left : EntryFits(cache[i]) BY <1>1, <2>4
    <3> HIDE DEF kept, key
    <3> QED BY <2>4, <3>1, <3>2, <3>3
  <2>6. count = Bytes(kept) /\ Bytes(kept) \in Nat
    <3>1. Bytes(Picked(cache, goes)) = BytesAt(cache, goes) BY <1>1, <2>4, PickedParts
    <3>2. BytesAt(cache, goes) \in Nat /\ BytesAt(cache, left) \in Nat
      BY <1>1, <2>4, BytesAtNat
    <3>3. BytesAt(cache, goes \union left) = BytesAt(cache, goes) + BytesAt(cache, left)
      BY <1>1, <2>4, BytesSplit
    <3>4. bytes = BytesAt(cache, goes) + BytesAt(cache, left)
      BY <1>1, <1>7, <2>4, <3>3, BytesAreAll DEF CacheCounted
    <3> QED BY <2>5, <3>1, <3>2, <3>4
  <2>7. Len(kept) \in Nat BY <2>5
  <2> HIDE DEF kept, count
  <2>8. ASSUME NEW n \in 0..Len(kept)
        PROVE  /\ Rest(n) \in Seq(Entry) /\ Len(Rest(n)) = Len(kept) - n
               /\ \A i \in 1..Len(Rest(n)) : Rest(n)[i] = kept[n + i] /\ n + i \in 1..Len(kept)
               /\ Oldest(n) \in Nat /\ Bytes(Rest(n)) = Bytes(kept) - Oldest(n)
               /\ Bytes(Rest(n)) \in Nat
               /\ (n = Len(kept) => Bytes(Rest(n)) = 0)
    <3> HIDE DEF Oldest, Fitting, evicted
    <3>0. n \in Nat /\ n <= Len(kept) /\ Len(kept) \in 0..Len(kept) BY <2>7
    <3>1. /\ Rest(n) \in Seq(Entry) /\ Len(Rest(n)) = Len(kept) - n
          /\ \A i \in 1..(Len(kept) - n) : Rest(n)[i] = kept[n + i]
          /\ Bytes(Rest(n)) = BytesAt(kept, (n + 1)..Len(kept))
      BY <2>5, <3>0, BytesOfPart
    <3>2. Oldest(n) = BytesAt(kept, 1..n)
      <4>1. 0 \in Nat /\ 0 <= n BY <2>7
      <4>2. Bytes(SubSeq(kept, 0 + 1, n)) = BytesAt(kept, (0 + 1)..n) BY <2>5, <4>1, BytesOfPart
      <4> QED BY <4>2 DEF Oldest
    <3>3. /\ 1..n \in SUBSET (1..Len(kept)) /\ (n + 1)..Len(kept) \in SUBSET (1..Len(kept))
          /\ (1..n) \intersect ((n + 1)..Len(kept)) = {}
          /\ (1..n) \union ((n + 1)..Len(kept)) = 1..Len(kept)
      BY <2>7
    <3>4. BytesAt(kept, 1..n) \in Nat /\ BytesAt(kept, (n + 1)..Len(kept)) \in Nat
      BY <2>5, <3>3, BytesAtNat
    <3>5. BytesAt(kept, (1..n) \union ((n + 1)..Len(kept)))
            = BytesAt(kept, 1..n) + BytesAt(kept, (n + 1)..Len(kept))
      BY <2>5, <3>3, BytesSplit
    <3>6. Bytes(kept) = BytesAt(kept, 1..n) + BytesAt(kept, (n + 1)..Len(kept))
      BY <2>5, <3>3, <3>5, BytesAreAll
    <3>7. n = Len(kept) => BytesAt(kept, (n + 1)..Len(kept)) = 0
      <4>1. n = Len(kept) => (n + 1)..Len(kept) = {} BY <2>7
      <4> QED BY <4>1, UnitsOfNone DEF BytesAt
    <3> HIDE DEF Rest, Oldest
    <3> QED BY <2>7, <3>1, <3>2, <3>4, <3>6, <3>7
  <2>9. evicted \in 0..Len(kept) /\ (Fitting(evicted) \/ evicted = Len(kept))
    <3> HIDE DEF Fitting
    <3> DEFINE T == {n \in 0..Len(kept) : Fitting(n) \/ n = Len(kept)}
    <3>1. T \subseteq Nat /\ Len(kept) \in T BY <2>7
    <3>2. PICK n \in T : \A m \in T : n <= m BY <3>1, LeastNatural
    <3>3. \A m \in 0..(n - 1) : ~ Fitting(m)
      <4> SUFFICES ASSUME NEW m \in 0..(n - 1), Fitting(m) PROVE FALSE
        OBVIOUS
      <4>1. m \in 0..Len(kept) /\ m < n BY <2>7, <3>2
      <4>2. m \in T BY <4>1
      <4> QED BY <3>2, <4>1, <4>2
    <3>4. \E k \in 0..Len(kept) :
            (Fitting(k) \/ k = Len(kept)) /\ \A m \in 0..(k - 1) : ~ Fitting(m)
      BY <3>2, <3>3
    <3> QED BY <3>4
  <2> DEFINE rest == Rest(evicted)
  <2>10. /\ rest \in Seq(Entry) /\ Len(rest) = Len(kept) - evicted
         /\ \A i \in 1..Len(rest) : rest[i] = kept[evicted + i] /\ evicted + i \in 1..Len(kept)
         /\ Oldest(evicted) \in Nat /\ Bytes(rest) = Bytes(kept) - Oldest(evicted)
         /\ Bytes(rest) \in Nat /\ (evicted = Len(kept) => Bytes(rest) = 0)
    BY <2>8, <2>9
  <2>11. Len(rest) < MaxEntries /\ Bytes(rest) + size <= MaxBytes
    <3>1. CASE Fitting(evicted)
      <4>1. Len(kept) - evicted < MaxEntries /\ count - Oldest(evicted) + size <= MaxBytes
        BY <3>1
      <4> HIDE DEF Oldest, evicted, rest
      <4> QED BY <2>6, <2>10, <4>1
    <3>2. CASE evicted = Len(kept)
      <4> HIDE DEF Oldest, evicted, rest
      <4>1. Len(rest) = 0 /\ Bytes(rest) = 0 BY <2>7, <2>10, <3>2
      <4>2. ~ (size > MaxBytes) BY <2>1
      <4> QED BY <1>6, <4>1, <4>2, ChartAssumption
    <3> QED BY <2>9, <3>1, <3>2
  <2>12. cache' = Append(rest, entry) /\ bytes' = Bytes(rest) + size
    <3>1. bytes' = count - Oldest(evicted) + size BY <2>3
    <3>2. cache' = Append(rest, entry) BY <2>3
    <3> HIDE DEF Oldest, evicted, rest
    <3> QED BY <1>6, <2>6, <2>10, <3>1, <3>2
  <2>13. KeysDiffer(rest) /\ \A i \in 1..Len(rest) : EntryFits(rest[i]) /\ rest[i].key # key
    <3> HIDE DEF evicted, rest, key
    <3>1. DOMAIN rest = 1..Len(rest) /\ DOMAIN kept = 1..Len(kept) BY <2>5, <2>10
    <3>2. \A i, j \in 1..Len(rest) : evicted + i = evicted + j => i = j BY <2>7, <2>9
    <3>3. KeysDiffer(rest) BY <2>5, <2>10, <3>1, <3>2 DEF KeysDiffer
    <3> QED BY <2>5, <2>10, <3>3
  <2>18. entry.size = size OBVIOUS
  <2> HIDE DEF rest, entry, key
  <2>14. /\ cache' \in Seq(Entry) /\ Len(cache') = Len(rest) + 1
         /\ Bytes(cache') = Bytes(rest) + size
    BY <1>5, <2>10, <2>12, <2>18, BytesAppended
  <2>15. KeysDiffer(cache') BY <1>5, <2>10, <2>12, <2>13, AppendFits
  <2>16. CacheCounted'
    <3>1. bytes' = Bytes(cache') BY <2>12, <2>14
    <3>2. bytes' <= MaxBytes BY <2>11, <2>12
    <3>3. Len(cache') <= MaxEntries
      <4>1. Len(rest) \in Nat BY <2>10
      <4> QED BY <2>11, <2>14, <4>1, ChartAssumption
    <3> QED BY <2>15, <3>1, <3>2, <3>3 DEF CacheCounted, KeysDiffer
  <2>17. \A i \in 1..Len(cache') : EntryFits(cache'[i])
    <3>1. /\ Len(rest) \in Nat /\ cache'[Len(rest) + 1] = entry
          /\ \A i \in 1..Len(rest) : cache'[i] = rest[i]
      <4>1. rest \in Seq(Entry) /\ entry \in Entry BY <1>5, <2>10
      <4> QED BY <2>12, <4>1, AppendParts
    <3>2. \A i \in 1..Len(cache') : i \in 1..Len(rest) \/ i = Len(rest) + 1 BY <2>14, <3>1
    <3> QED BY <1>5, <2>13, <3>1, <3>2
  <2> QED BY <1>2, <1>4, <2>14, <2>16, <2>17, CacheMoves DEF InsideGate
<1> QED BY <1>8, <1>9

-----------------------------------------------------------------------------
(* Around the requests *)

\* A file changed once more while every request that has its path sees it.
LEMMA WatchRaised ==
  ASSUME NEW now \in Nat, NEW r, NEW t, Watch(r, now), r.at # "idle", r.stamp \in Nat,
         r.during \subseteq Nat, t.at = r.at, t.stamp = r.stamp, t.from = r.from,
         t.during = r.during \union {now + 1}
  PROVE  Watch(t, now + 1)
<1>1. /\ now \in r.during /\ r.stamp <= now /\ r.from \subseteq r.stamp..now
      /\ \A n \in r.during : n..now \subseteq r.during
      /\ IF r.at = "row" THEN r.from = {} ELSE r.stamp \in r.during
  BY DEF Watch
<1>2. \A n \in t.during : n..(now + 1) \subseteq t.during
  <2> SUFFICES ASSUME NEW n \in t.during, NEW k \in n..(now + 1) PROVE k \in t.during
    OBVIOUS
  <2>1. CASE k = now + 1 BY <2>1
  <2>2. CASE n \in r.during /\ k \in n..now BY <1>1, <2>2
  <2>3. n \in Nat BY <1>1
  <2> QED BY <2>1, <2>2, <2>3
<1>3. t.from \subseteq t.stamp..(now + 1) /\ t.stamp <= now + 1 BY <1>1
<1> QED BY <1>1, <1>2, <1>3 DEF Watch

\* No file changes more often than all of them together.
LEMMA TouchBounded ==
  ASSUME ChartTypeOK, Changes < MaxChanges, NEW p \in Paths
  PROVE  stamp[p] + 1 \in Stamps
<1>1. stamp \in [Paths -> Stamps] /\ DOMAIN stamp = Paths /\ version \in Nat /\ version >= 1
  BY ChartAssumption DEF ChartTypeOK, Versions
<1>2. \A u \in Paths : stamp[u] \in Nat BY <1>1, ChartAssumption DEF Stamps
<1>3. SumFunction(stamp) = Total(stamp, Paths) BY <1>1, <1>2, ChartAssumption, SumIsTotal
<1>4. IsFiniteSet(Paths \ {p}) BY ChartAssumption, FS_Subset
<1>5. IsFiniteSet(Units(stamp, Paths \ {p})) /\ Total(stamp, Paths \ {p}) \in Nat
  BY <1>2, <1>4, UnitsFinite
<1>6. Total(stamp, Paths) = stamp[p] + Total(stamp, Paths \ {p})
  <2>1. stamp[p] \in Nat BY <1>2
  <2>2. IsFiniteSet(Units(stamp, Paths \ {p})) BY <1>5
  <2> QED BY <2>1, <2>2, UnitsAndOne
<1>7. (version - 1) + (stamp[p] + Total(stamp, Paths \ {p})) < MaxChanges
  BY <1>3, <1>6 DEF Changes
<1>8. stamp[p] \in Nat BY <1>2
<1> HIDE DEF Total
<1> QED BY <1>1, <1>5, <1>7, <1>8, ChartAssumption DEF Stamps

LEMMA ReviseBounded ==
  ASSUME ChartTypeOK, Changes < MaxChanges PROVE version + 1 \in Versions
<1>1. DOMAIN stamp = Paths /\ version \in Nat /\ version >= 1
  BY ChartAssumption DEF ChartTypeOK, Versions
<1>2. \A u \in Paths : stamp[u] \in Nat BY ChartAssumption DEF ChartTypeOK, Stamps
<1>3. SumFunction(stamp) = Total(stamp, Paths) /\ Total(stamp, Paths) \in Nat
  BY <1>1, <1>2, ChartAssumption, SumIsTotal, UnitsFinite
<1>4. (version - 1) + SumFunction(stamp) < MaxChanges BY DEF Changes
<1> QED BY <1>1, <1>3, <1>4, ChartAssumption DEF Versions

LEMMA ReviseKeeps == ASSUME ChartInv, Revise PROVE ChartInv'
<1>1. version' \in Versions BY ReviseBounded DEF ChartInv, Revise
<1>2. /\ path' \in Paths /\ UNCHANGED <<stamp, query, active, cache, bytes>>
  BY DEF Revise, CacheKept
<1>3. ChartTypeOK' BY <1>1, <1>2 DEF ChartInv, ChartTypeOK
<1>4. Watched' /\ EntriesTrue' /\ GateCounted'
  BY <1>2 DEF ChartInv, Watched, EntriesTrue, GateCounted, Inside
<1>5. CacheCounted' BY <1>2 DEF ChartInv, CacheCounted
<1> QED BY <1>3, <1>4, <1>5 DEF ChartInv

LEMMA TouchKeeps == ASSUME ChartInv, NEW p \in Paths, Touch(p) PROVE ChartInv'
<1>1. /\ stamp \in [Paths -> Stamps] /\ query \in [Queries -> QueryRow] /\ cache \in Seq(Entry)
      /\ version \in Versions /\ path \in Paths /\ active \in Int /\ bytes \in Int
  BY TypesMeant DEF ChartInv
<1>2. stamp[p] + 1 \in Stamps BY TouchBounded DEF ChartInv, Touch
<1>3. /\ stamp' = [stamp EXCEPT ![p] = @ + 1]
      /\ query' = [q \in Queries |->
                     IF query[q].at # "idle" /\ query[q].path = p
                       THEN [query[q] EXCEPT !.during = @ \union {stamp[p] + 1}] ELSE query[q]]
      /\ UNCHANGED <<version, path, active, cache, bytes>>
  BY DEF Touch, CacheKept
<1>4. Stamps \subseteq Nat BY ChartAssumption DEF Stamps
<1>5. /\ stamp' \in [Paths -> Stamps] /\ stamp'[p] = stamp[p] + 1
      /\ \A u \in Paths : u # p => stamp'[u] = stamp[u]
  BY <1>1, <1>2, <1>3
<1>6. ASSUME NEW q \in Queries
      PROVE  /\ query'[q] \in QueryRow /\ query'[q].at = query[q].at
             /\ Watch(query'[q], stamp'[query'[q].path])
  <2>1. query[q] \in QueryRow /\ Watch(query[q], stamp[query[q].path])
    BY <1>1 DEF ChartInv, Watched
  <2>2. CASE query[q].at # "idle" /\ query[q].path = p
    <3> DEFINE t == [query[q] EXCEPT !.during = @ \union {stamp[p] + 1}]
    <3>1. query'[q] = t BY <1>3, <2>2
    <3>2. /\ t \in QueryRow /\ t.at = query[q].at /\ t.stamp = query[q].stamp
          /\ t.from = query[q].from /\ t.during = query[q].during \union {stamp[p] + 1}
          /\ t.path = p
      BY <1>2, <2>1, <2>2 DEF QueryRow
    <3>3. query[q].stamp \in Nat /\ query[q].during \subseteq Nat /\ stamp[p] \in Nat
      BY <1>1, <1>4, <2>1 DEF QueryRow
    <3> HIDE DEF t
    <3>4. Watch(t, stamp[p] + 1) BY <2>1, <2>2, <3>2, <3>3, WatchRaised
    <3> QED BY <1>5, <3>1, <3>2, <3>4
  <2>3. CASE query[q].at # "idle" /\ query[q].path # p
    <3>1. query'[q] = query[q] BY <1>3, <2>3
    <3>2. query[q].path \in Paths BY <2>1 DEF QueryRow
    <3> QED BY <1>5, <2>1, <2>3, <3>1, <3>2
  <2>4. CASE query[q].at = "idle"
    <3>1. query'[q] = query[q] BY <1>3, <2>4
    <3> QED BY <2>1, <2>4, <3>1 DEF Watch
  <2> QED BY <2>2, <2>3, <2>4
<1>7. query' \in [Queries -> QueryRow]
  <2>1. query' = [q \in Queries |-> query'[q]] BY <1>3
  <2> QED BY <1>6, <2>1
<1>8. ChartTypeOK' BY <1>1, <1>3, <1>5, <1>7 DEF ChartTypeOK, QueryRow, Places, Entry
<1>9. Watched' BY <1>6 DEF Watched
<1>10. EntriesTrue'
  <2> SUFFICES ASSUME NEW i \in DOMAIN cache
               PROVE  cache[i].from \subseteq cache[i].key.stamp..stamp'[cache[i].key.path]
    BY <1>3 DEF EntriesTrue
  <2>1. cache[i].from \subseteq cache[i].key.stamp..stamp[cache[i].key.path]
    BY DEF ChartInv, EntriesTrue
  <2>2. cache[i] \in Entry BY <1>1
  <2>3. cache[i].key.path \in Paths /\ cache[i].key.stamp \in Nat
    BY <1>4, <2>2 DEF Entry, Keys
  <2>4. /\ stamp[cache[i].key.path] \in Nat /\ stamp'[cache[i].key.path] \in Nat
        /\ stamp[cache[i].key.path] <= stamp'[cache[i].key.path]
    <3> DEFINE u == cache[i].key.path
    <3>1. u \in Paths BY <2>3
    <3> HIDE DEF u
    <3>2. stamp[u] \in Nat /\ stamp'[u] \in Nat BY <1>1, <1>4, <1>5, <3>1
    <3>3. stamp[u] <= stamp'[u]
      <4>1. CASE u = p BY <1>5, <3>2, <4>1
      <4>2. CASE u # p BY <1>5, <3>1, <3>2, <4>2
      <4> QED BY <4>1, <4>2
    <3> QED BY <3>2, <3>3 DEF u
  <2> QED BY <2>1, <2>3, <2>4
<1>11. GateCounted'
  <2>1. Inside' = Inside BY <1>6 DEF Inside
  <2> QED BY <1>3, <2>1 DEF ChartInv, GateCounted
<1>12. CacheCounted' BY <1>3 DEF ChartInv, CacheCounted
<1> QED BY <1>8, <1>9, <1>10, <1>11, <1>12 DEF ChartInv

LEMMA ExpiryKeeps == ASSUME ChartInv, NEW i \in DOMAIN cache, EntryExpires(i) PROVE ChartInv'
<1>1. /\ cache' = [cache EXCEPT ![i].expired = TRUE]
      /\ UNCHANGED <<version, path, stamp, query, active, bytes>>
  BY DEF EntryExpires, DataKept
<1>2. cache \in Seq(Entry) /\ DOMAIN cache = 1..Len(cache) /\ Len(cache) \in Nat
  BY TypesMeant DEF ChartInv
<1>3. \A n \in 1..Len(cache) : cache[n] \in Entry BY <1>2
<1>4. /\ cache' \in Seq(Entry) /\ Len(cache') = Len(cache) /\ DOMAIN cache' = DOMAIN cache
      /\ \A n \in DOMAIN cache : /\ cache'[n].key = cache[n].key /\ cache'[n].from = cache[n].from
                              /\ cache'[n].size = cache[n].size
  <2> DEFINE e == [cache[i] EXCEPT !.expired = TRUE]
  <2>1. e \in Entry /\ e.key = cache[i].key /\ e.from = cache[i].from /\ e.size = cache[i].size
    BY <1>2, <1>3 DEF Entry
  <2>2. cache' = [cache EXCEPT ![i] = e] BY <1>1, <1>2
  <2> HIDE DEF e
  <2> QED BY <1>2, <2>1, <2>2
<1>5. ChartTypeOK' BY <1>1, <1>4 DEF ChartInv, ChartTypeOK, Entry
<1>6. Watched' /\ GateCounted' BY <1>1 DEF ChartInv, Watched, GateCounted, Inside
<1>7. EntriesTrue' BY <1>1, <1>4 DEF ChartInv, EntriesTrue
<1>8. Bytes(cache') = Bytes(cache)
  <2>1. Sizes(cache') = Sizes(cache) BY <1>4 DEF Sizes
  <2> QED BY <2>1 DEF Bytes
<1>9. CacheCounted' BY <1>1, <1>4, <1>8 DEF ChartInv, CacheCounted, KeysDiffer
<1> QED BY <1>5, <1>6, <1>7, <1>9 DEF ChartInv

\* A process that has just started.
LEMMA FreshCounted ==
  ASSUME query = [q \in Queries |-> NoQuery], active = 0, cache = <<>>, bytes = 0,
         version \in Versions, path \in Paths, stamp \in [Paths -> Stamps]
  PROVE  ChartInv
<1>1. \A q \in Queries : query[q] = NoQuery OBVIOUS
<1>2. Inside = {} BY <1>1, NoQueryTyped DEF Inside, InsideGate
<1>3. GateCounted BY <1>2, FS_EmptySet, ChartAssumption DEF GateCounted
<1>4. Watched BY <1>1, NoQueryTyped DEF Watched, Watch
<1>5. cache \in Seq(Entry) /\ Len(cache) = 0 /\ DOMAIN cache = {} OBVIOUS
<1>6. Bytes(cache) = 0
  <2>1. Bytes(cache) = BytesAt(cache, 1..0) BY <1>5, BytesAreAll
  <2>2. 1..0 = {} OBVIOUS
  <2> QED BY <2>1, <2>2, UnitsOfNone DEF BytesAt
<1>7. CacheCounted BY <1>5, <1>6, ChartAssumption DEF CacheCounted, KeysDiffer
<1>8. EntriesTrue BY <1>5 DEF EntriesTrue
<1>9. ChartTypeOK BY <1>5, NoQueryTyped, TypesMeant
<1> QED BY <1>3, <1>4, <1>7, <1>8, <1>9 DEF ChartInv

LEMMA ChartInitInv == ChartInit => ChartInv
<1> SUFFICES ASSUME ChartInit PROVE ChartInv
  OBVIOUS
<1>1. path \in Paths BY ChartAssumption DEF ChartInit
<1>2. version \in Versions /\ stamp \in [Paths -> Stamps]
  BY ChartAssumption DEF ChartInit, Versions, Stamps
<1> QED BY <1>1, <1>2, FreshCounted DEF ChartInit

LEMMA RestartKeeps == ASSUME ChartInv, ChartRestart PROVE ChartInv'
<1>1. /\ query' = [q \in Queries |-> NoQuery] /\ active' = 0 /\ cache' = <<>> /\ bytes' = 0
      /\ version' \in Versions /\ path' \in Paths /\ stamp' \in [Paths -> Stamps]
  BY DEF ChartRestart, DataKept, ChartInv, ChartTypeOK
<1>2. \A q \in Queries : query'[q] = NoQuery BY <1>1
<1>3. Inside' = {} BY <1>2, NoQueryTyped DEF Inside, InsideGate
<1>4. GateCounted' BY <1>1, <1>3, FS_EmptySet, ChartAssumption DEF GateCounted
<1>5. Watched' BY <1>2, NoQueryTyped DEF Watched, Watch
<1>6. cache' \in Seq(Entry) /\ Len(cache') = 0 /\ DOMAIN cache' = {} BY <1>1
<1>7. Bytes(cache') = 0
  <2>1. Bytes(cache') = BytesAt(cache', 1..0) BY <1>6, BytesAreAll
  <2>2. 1..0 = {} OBVIOUS
  <2> QED BY <2>1, <2>2, UnitsOfNone DEF BytesAt
<1>8. CacheCounted' BY <1>1, <1>6, <1>7, ChartAssumption DEF CacheCounted, KeysDiffer
<1>9. EntriesTrue' BY <1>6 DEF EntriesTrue
<1>10. ChartTypeOK' BY <1>1, <1>6, NoQueryTyped DEF ChartTypeOK, QueryRow, Places, Entry
<1> QED BY <1>4, <1>5, <1>8, <1>9, <1>10 DEF ChartInv

LEMMA ChartStepInv == ChartInv /\ [ChartNext]_chartVars => ChartInv'
<1> SUFFICES ASSUME ChartInv, [ChartNext]_chartVars PROVE ChartInv'
  OBVIOUS
<1>1. ASSUME NEW q \in Queries,
             \/ \E c \in Charts : ReadRow(q, c)
             \/ MakeKey(q) \/ EnterGate(q) \/ Execute(q) \/ ReadFile(q)
             \/ TimerFires(q) \/ QueryFails(q) \/ LeaveGate(q) \/ Respond(q)
      PROVE  ChartInv'
  BY <1>1, RequestKeeps
<1>2. ASSUME NEW q \in Queries, Lookup(q) PROVE ChartInv' BY <1>2, LookupKeeps
<1>3. ASSUME NEW q \in Queries, Store(q) PROVE ChartInv' BY <1>3, StoreKeeps
<1>4. ASSUME NEW p \in Paths, Touch(p) PROVE ChartInv' BY <1>4, TouchKeeps
<1>5. ASSUME NEW i \in DOMAIN cache, EntryExpires(i) PROVE ChartInv' BY <1>5, ExpiryKeeps
<1>6. CASE Revise BY <1>6, ReviseKeeps
<1>7. CASE ChartRestart BY <1>7, RestartKeeps
<1>8. CASE UNCHANGED chartVars
  <2>1. ChartTypeOK' BY <1>8 DEF chartVars, ChartInv, ChartTypeOK
  <2>2. Watched' /\ EntriesTrue' BY <1>8 DEF chartVars, ChartInv, Watched, EntriesTrue
  <2>3. GateCounted' BY <1>8 DEF chartVars, ChartInv, GateCounted, Inside
  <2>4. CacheCounted' BY <1>8 DEF chartVars, ChartInv, CacheCounted
  <2> QED BY <2>1, <2>2, <2>3, <2>4 DEF ChartInv
<1> QED BY <1>1, <1>2, <1>3, <1>4, <1>5, <1>6, <1>7, <1>8 DEF ChartNext

-----------------------------------------------------------------------------
(* What holds of every behaviour *)

LEMMA ChartAlwaysInv == ChartSpec => []ChartInv
<1> QED BY ChartInitInv, ChartStepInv, PTL DEF ChartSpec

\* The state of the charts is well formed (chart_service.py).
THEOREM ChartTyped == ChartSpec => []ChartTypeOK
<1>1. ChartInv => ChartTypeOK BY DEF ChartInv
<1> QED BY <1>1, ChartAlwaysInv, PTL

LEMMA ChartInvBounded == ChartInv => ChartsBounded
BY DEF ChartInv, ChartsBounded, GateCounted, CacheCounted, Inside, KeysDiffer

LEMMA ChartInvAnswers == ChartInv => ChartAnswers
<1> SUFFICES ASSUME ChartInv, NEW q \in Queries, query[q].at = "answered"
             PROVE  query[q].from \subseteq query[q].during
  BY DEF ChartAnswers
<1>1. Watch(query[q], stamp[query[q].path]) BY DEF ChartInv, Watched
<1>2. /\ query[q].stamp \in query[q].during
      /\ query[q].from \subseteq query[q].stamp..stamp[query[q].path]
      /\ query[q].stamp..stamp[query[q].path] \subseteq query[q].during
  BY <1>1 DEF Watch
<1> QED BY <1>2

\* Over every failure, deadline, replacement, expiry and eviction, the gate
\* counts the queries inside it and the cache the bytes it holds, neither
\* passes its limit, and a key has one entry (QueryGate, ChartCache.get, put).
THEOREM ChartsStayBounded == ChartSpec => []ChartsBounded
BY ChartInvBounded, ChartAlwaysInv, PTL

\* Whoever computed it and through whichever entry, a chart is answered from
\* states its file had while the request ran (_cache_key, get_chart_data).
THEOREM ChartsAnswered == ChartSpec => []ChartAnswers
BY ChartInvAnswers, ChartAlwaysInv, PTL

=============================================================================
