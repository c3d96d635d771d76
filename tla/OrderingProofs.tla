--------------------------- MODULE OrderingProofs ---------------------------
(***************************************************************************)
(* Facts about sorting, sequences and sets of naturals that the proofs     *)
(* about the components cite.                                              *)
(***************************************************************************)
EXTENDS Ordering, Sequences, Functions, FiniteSetTheorems, WellFoundedInduction, TLAPS

(* Every nonempty set of naturals has a least element. *)
LEMMA LeastNatural ==
    ASSUME NEW T \in SUBSET Nat, T # {}
    PROVE  \E m \in T : \A n \in T : m <= n
PROOF
<1> DEFINE less == OpToRel(<, Nat)
<1>1. PICK m \in T : \A n \in T : <<n, m>> \notin less
    BY NatLessThanWellFounded, WFMin
<1>2. \A n \in T : n < m => <<n, m>> \in less
    BY DEF OpToRel
<1> HIDE DEF less
<1>3. \A n \in T : ~(n < m)
    BY <1>1, <1>2
<1> QED
    BY <1>3

(* Every nonempty bounded set of naturals has a greatest one. *)
LEMMA GreatestNatural ==
    ASSUME NEW bound \in Nat, NEW T \in SUBSET (0 .. bound), T # {}
    PROVE  \E m \in T : \A n \in T : n <= m
PROOF
<1> DEFINE U == {bound - n : n \in T}
<1>1. U \in SUBSET Nat /\ U # {}
  <2>1. \A n \in T : bound - n \in Nat
      OBVIOUS
  <2>2. U \in SUBSET Nat
      BY <2>1
  <2>3. U # {}
      BY T # {}
  <2>4. QED
      BY <2>2, <2>3
<1>2. PICK u \in U : \A v \in U : u <= v
    BY <1>1, LeastNatural
<1>3. PICK m \in T : u = bound - m
    BY <1>2
<1>4. \A n \in T : u <= bound - n
    BY <1>2
<1>5. QED
    BY <1>3, <1>4

LEMMA RangeFinite ==
    ASSUME NEW s, s \in Seq(Range(s))
    PROVE  IsFiniteSet(Range(s))
PROOF
<1>1. Len(s) \in Nat /\ DOMAIN s = 1 .. Len(s) /\ s \in [1 .. Len(s) -> Range(s)]
    OBVIOUS
<1>2. IsFiniteSet(1 .. Len(s))
    BY <1>1, FS_Interval
<1>3. s \in Surjection(1 .. Len(s), Range(s))
    BY <1>1 DEF Surjection, Range
<1> QED
    BY <1>2, <1>3, FS_Surjection

LEMMA AppendRange ==
    ASSUME NEW s, s \in Seq(Range(s)), NEW x
    PROVE  /\ Append(s, x) \in Seq(Range(Append(s, x)))
           /\ Range(Append(s, x)) = Range(s) \cup {x}
           /\ Len(s) \in Nat /\ DOMAIN s = 1 .. Len(s)
           /\ Len(Append(s, x)) = Len(s) + 1
           /\ DOMAIN Append(s, x) = 1 .. Len(s) + 1
           /\ \A i \in 1 .. Len(s) : Append(s, x)[i] = s[i]
           /\ Append(s, x)[Len(s) + 1] = x
PROOF
<1> DEFINE S == Range(s) \cup {x}
           longer == Append(s, x)
<1>1. s \in Seq(S) /\ x \in S
    OBVIOUS
<1>2. longer \in Seq(S) /\ Len(longer) = Len(s) + 1 /\ Len(s) \in Nat /\ DOMAIN s = 1 .. Len(s)
    BY <1>1
<1>3. /\ DOMAIN longer = 1 .. Len(s) + 1
      /\ \A i \in 1 .. Len(s) : longer[i] = s[i]
      /\ longer[Len(s) + 1] = x
    BY <1>1, <1>2
<1>4. S \subseteq Range(longer)
    BY <1>2, <1>3 DEF Range
<1>5. Range(longer) \subseteq S
    BY <1>2 DEF Range
<1>6. longer \in Seq(Range(longer)) /\ Range(longer) = S
    BY <1>2, <1>4, <1>5
<1> QED
    BY <1>2, <1>3, <1>6

Preceding(S, before, x) == {y \in S : <<y, x>> \in before}

(* A strict total order puts every element in one place. *)
LEMMA InOrderOk ==
    ASSUME NEW S, IsFiniteSet(S), NEW before,
           \A x \in S : <<x, x>> \notin before,
           \A x, y, z \in S : <<x, y>> \in before /\ <<y, z>> \in before => <<x, z>> \in before,
           \A x, y \in S : x # y => <<x, y>> \in before \/ <<y, x>> \in before
    PROVE  /\ Cardinality(S) \in Nat
           /\ InOrder(S, before) \in Seq(S) /\ Len(InOrder(S, before)) = Cardinality(S)
           /\ DOMAIN InOrder(S, before) = 1 .. Cardinality(S)
           /\ \A k \in 1 .. Cardinality(S) : InOrder(S, before)[k] \in S
           /\ \A j, k \in 1 .. Cardinality(S) : InOrder(S, before)[j] = InOrder(S, before)[k] => j = k
           /\ \A x \in S : \E k \in 1 .. Cardinality(S) : InOrder(S, before)[k] = x
           /\ \A k \in 1 .. Cardinality(S) : Cardinality(Preceding(S, before, InOrder(S, before)[k])) = k - 1
PROOF
<1> DEFINE rank == [x \in S |-> Cardinality(Preceding(S, before, x))]
           ranks == {rank[x] : x \in S}
           sorted == InOrder(S, before)
<1> PICK n : n = Cardinality(S)
    OBVIOUS
<1>1. n \in Nat
    BY FS_CardinalityType
<1>2. ASSUME NEW x \in S
      PROVE  /\ IsFiniteSet(Preceding(S, before, x))
             /\ rank[x] \in Nat /\ rank[x] < n
    <2>1. IsFiniteSet(S \ {x}) /\ Cardinality(S \ {x}) = n - 1
        BY FS_RemoveElement
    <2>2. Preceding(S, before, x) \in SUBSET (S \ {x})
        BY DEF Preceding
    <2>3. IsFiniteSet(Preceding(S, before, x)) /\ Cardinality(Preceding(S, before, x)) <= Cardinality(S \ {x})
        BY <2>1, <2>2, FS_Subset
    <2>4. Cardinality(Preceding(S, before, x)) \in Nat
        BY <2>3, FS_CardinalityType
    <2> QED
        BY <1>1, <2>1, <2>3, <2>4
<1>3. ASSUME NEW x \in S, NEW y \in S, <<x, y>> \in before
      PROVE  rank[x] < rank[y]
    <2>1. x \notin Preceding(S, before, x) /\ Preceding(S, before, x) \cup {x} \in SUBSET Preceding(S, before, y)
        BY <1>3 DEF Preceding
    <2>2. IsFiniteSet(Preceding(S, before, x) \cup {x})
          /\ Cardinality(Preceding(S, before, x) \cup {x}) = Cardinality(Preceding(S, before, x)) + 1
        BY <1>2, <2>1, FS_AddElement
    <2>3. Cardinality(Preceding(S, before, x) \cup {x}) <= Cardinality(Preceding(S, before, y))
        BY <1>2, <2>1, FS_Subset
    <2>4. rank[x] \in Nat /\ rank[y] \in Nat
        BY <1>2
    <2> QED
        BY <2>2, <2>3, <2>4
<1>4. \A x, y \in S : x # y => rank[x] # rank[y]
    <2> SUFFICES ASSUME NEW x \in S, NEW y \in S, x # y PROVE rank[x] # rank[y]
        OBVIOUS
    <2>1. rank[x] \in Nat /\ rank[y] \in Nat
        BY <1>2
    <2>2. rank[x] < rank[y] \/ rank[y] < rank[x]
        BY <1>3
    <2> HIDE DEF rank
    <2> QED
        BY <2>1, <2>2
<1>5. rank \in [S -> ranks] /\ \A r \in ranks : \E x \in S : rank[x] = r
    OBVIOUS
<1> HIDE DEF rank
<1>6. ranks = 0 .. n - 1
    <2>1. ranks \in SUBSET (0 .. n - 1)
        BY <1>1, <1>2
    <2>2. IsFiniteSet(0 .. n - 1) /\ Cardinality(0 .. n - 1) = n
        <3>1. n - 1 \in Int /\ 0 \in Int
            BY <1>1
        <3>2. /\ IsFiniteSet(0 .. n - 1)
              /\ Cardinality(0 .. n - 1) = IF 0 > n - 1 THEN 0 ELSE (n - 1) - 0 + 1
            BY <3>1, FS_Interval
        <3> QED
            BY <1>1, <3>2
    <2>3. rank \in Surjection(S, ranks)
        BY <1>5 DEF Surjection
    <2>4. rank \in Injection(S, ranks)
        BY <1>4, <1>5 DEF Injection, IsInjective
    <2> HIDE DEF ranks
    <2>5. Cardinality(ranks) = n
        BY <2>3, <2>4, FS_Surjection
    <2> QED
        BY <2>1, <2>2, <2>5, FS_Subset
<1>7. \A k \in 1 .. n : \E x \in S : rank[x] = k - 1
    <2> SUFFICES ASSUME NEW k \in 1 .. n PROVE \E x \in S : rank[x] = k - 1
        OBVIOUS
    <2>1. k - 1 \in ranks
        <3>1. k - 1 \in 0 .. n - 1
            BY <1>1
        <3> HIDE DEF ranks
        <3> QED
            BY <1>6, <3>1
    <2> QED
        BY <2>1
<1>8. DOMAIN sorted = 1 .. n
    BY DEF InOrder
<1>9. \A k \in 1 .. n : sorted[k] \in S /\ rank[sorted[k]] = k - 1
    <2> SUFFICES ASSUME NEW k \in 1 .. n PROVE sorted[k] \in S /\ rank[sorted[k]] = k - 1
        OBVIOUS
    <2>1. sorted[k] = CHOOSE x \in S : Cardinality(Preceding(S, before, x)) = k - 1
        BY DEF InOrder, Preceding
    <2>2. \A x \in S : rank[x] = Cardinality(Preceding(S, before, x))
        BY DEF rank
    <2>3. \E x \in S : Cardinality(Preceding(S, before, x)) = k - 1
        BY <1>7, <2>2
    <2>4. sorted[k] \in S /\ Cardinality(Preceding(S, before, sorted[k])) = k - 1
        BY <2>1, <2>3
    <2> QED
        BY <2>2, <2>4
<1>12. sorted \in [1 .. n -> S]
    BY <1>9 DEF InOrder
<1>14. \A k \in 1 .. n : Cardinality(Preceding(S, before, sorted[k])) = k - 1
    BY <1>9 DEF rank
<1> HIDE DEF sorted, ranks
<1>13. sorted \in Seq(S) /\ Len(sorted) = n
    BY <1>1, <1>12
<1>10. \A j, k \in 1 .. n : sorted[j] = sorted[k] => j = k
    BY <1>1, <1>9
<1>11. ASSUME NEW x \in S PROVE \E k \in 1 .. n : sorted[k] = x
    <2>1. rank[x] + 1 \in 1 .. n
        BY <1>1, <1>2
    <2>2. sorted[rank[x] + 1] \in S /\ rank[sorted[rank[x] + 1]] = rank[x]
        <3> PICK k : k = rank[x] + 1
            OBVIOUS
        <3>1. k \in 1 .. n /\ rank[x] \in Nat
            BY <1>2, <2>1
        <3>2. rank[sorted[k]] = k - 1 /\ sorted[k] \in S
            BY <1>9, <3>1
        <3> QED
            BY <3>1, <3>2
    <2>3. sorted[rank[x] + 1] = x
        BY <1>4, <2>2
    <2> QED
        BY <2>1, <2>3
<1> QED
    BY <1>1, <1>8, <1>9, <1>10, <1>11, <1>13, <1>14 DEF sorted

LEMMA IsListing ==
    ASSUME NEW S, NEW before
    PROVE  InOrder(S, before) = [k \in DOMAIN InOrder(S, before) |-> InOrder(S, before)[k]]
PROOF
<1> DEFINE places == 1 .. Cardinality(S)
           Own(k) == CHOOSE x \in S : Cardinality({y \in S : <<y, x>> \in before}) = k - 1
<1>1. InOrder(S, before) = [k \in places |-> Own(k)]
    BY DEF InOrder
<1> HIDE DEF places, Own
<1> QED
    BY <1>1

LEMMA SameSize ==
    ASSUME NEW A, IsFiniteSet(A), NEW B, NEW f,
           \A x \in A : f[x] \in B,
           \A x, y \in A : f[x] = f[y] => x = y,
           \A y \in B : \E x \in A : f[x] = y
    PROVE  IsFiniteSet(B) /\ Cardinality(B) = Cardinality(A)
PROOF
<1> DEFINE g == [x \in A |-> f[x]]
<1>1. g \in [A -> B] /\ \A x \in A : g[x] = f[x]
    OBVIOUS
<1> HIDE DEF g
<1>2. g \in Injection(A, B)
    BY <1>1 DEF Injection, IsInjective
<1>3. g \in Surjection(A, B)
    BY <1>1 DEF Surjection
<1> QED
    BY <1>2, <1>3, FS_Surjection

(* f takes S, in a strict total order, onto T and keeps the order. *)
OrderedAlike(S, first, T, second, f) ==
    /\ \A x \in S : f[x] \in T
    /\ \A x, y \in S : f[x] = f[y] => x = y
    /\ \A y \in T : \E x \in S : f[x] = y
    /\ \A x, y \in S : <<x, y>> \in first <=> <<f[x], f[y]>> \in second
    /\ \A x \in S : <<x, x>> \notin first
    /\ \A x, y, z \in S : <<x, y>> \in first /\ <<y, z>> \in first => <<x, z>> \in first
    /\ \A x, y \in S : x # y => <<x, y>> \in first \/ <<y, x>> \in first

(* What is ordered alike is listed alike. *)
LEMMA SameOrder ==
    ASSUME NEW S, IsFiniteSet(S), NEW T, NEW first, NEW second, NEW f, OrderedAlike(S, first, T, second, f)
    PROVE  /\ Cardinality(S) \in Nat
           /\ DOMAIN InOrder(S, first) = 1 .. Cardinality(S)
           /\ DOMAIN InOrder(T, second) = 1 .. Cardinality(S)
           /\ \A k \in 1 .. Cardinality(S) :
                  InOrder(S, first)[k] \in S /\ InOrder(T, second)[k] = f[InOrder(S, first)[k]]
PROOF
<1>0. /\ \A x \in S : f[x] \in T
      /\ \A x, y \in S : f[x] = f[y] => x = y
      /\ \A y \in T : \E x \in S : f[x] = y
      /\ \A x, y \in S : <<x, y>> \in first <=> <<f[x], f[y]>> \in second
      /\ \A x \in S : <<x, x>> \notin first
      /\ \A x, y, z \in S : <<x, y>> \in first /\ <<y, z>> \in first => <<x, z>> \in first
      /\ \A x, y \in S : x # y => <<x, y>> \in first \/ <<y, x>> \in first
    BY DEF OrderedAlike
<1>1. IsFiniteSet(T) /\ Cardinality(T) = Cardinality(S)
    BY <1>0, SameSize
<1>2. /\ Cardinality(S) \in Nat /\ DOMAIN InOrder(S, first) = 1 .. Cardinality(S)
      /\ \A k \in 1 .. Cardinality(S) : InOrder(S, first)[k] \in S
      /\ \A k \in 1 .. Cardinality(S) : Cardinality(Preceding(S, first, InOrder(S, first)[k])) = k - 1
    BY <1>0, InOrderOk
<1>3. /\ \A y \in T : <<y, y>> \notin second
      /\ \A x, y, z \in T : <<x, y>> \in second /\ <<y, z>> \in second => <<x, z>> \in second
      /\ \A x, y \in T : x # y => <<x, y>> \in second \/ <<y, x>> \in second
  <2>1. \A y \in T : <<y, y>> \notin second
      BY <1>0
  <2>2. ASSUME NEW x \in T, NEW y \in T, NEW z \in T, <<x, y>> \in second, <<y, z>> \in second
        PROVE  <<x, z>> \in second
      <3>1. PICK a \in S, b \in S, c \in S : f[a] = x /\ f[b] = y /\ f[c] = z
          BY <1>0
      <3>2. <<a, b>> \in first /\ <<b, c>> \in first
          BY <1>0, <2>2, <3>1
      <3>3. <<a, c>> \in first
          BY <1>0, <3>2
      <3> QED
          BY <1>0, <3>1, <3>3
  <2>3. ASSUME NEW x \in T, NEW y \in T, x # y PROVE <<x, y>> \in second \/ <<y, x>> \in second
      <3>1. PICK a \in S, b \in S : f[a] = x /\ f[b] = y
          BY <1>0
      <3> QED
          BY <1>0, <2>3, <3>1
  <2> QED
      BY <2>1, <2>2, <2>3
<1>4. /\ DOMAIN InOrder(T, second) = 1 .. Cardinality(T)
      /\ \A k \in 1 .. Cardinality(T) : InOrder(T, second)[k] \in T
      /\ \A x \in T : \E k \in 1 .. Cardinality(T) : InOrder(T, second)[k] = x
      /\ \A k \in 1 .. Cardinality(T) : Cardinality(Preceding(T, second, InOrder(T, second)[k])) = k - 1
    BY <1>1, <1>3, InOrderOk
<1>5. ASSUME NEW x \in S PROVE Cardinality(Preceding(T, second, f[x])) = Cardinality(Preceding(S, first, x))
  <2>1. IsFiniteSet(Preceding(S, first, x))
      BY FS_Subset DEF Preceding
  <2>2. \A y \in Preceding(S, first, x) : f[y] \in Preceding(T, second, f[x])
      BY <1>0 DEF Preceding
  <2>3. \A y \in Preceding(T, second, f[x]) : \E z \in Preceding(S, first, x) : f[z] = y
      BY <1>0 DEF Preceding
  <2>4. \A y, z \in Preceding(S, first, x) : f[y] = f[z] => y = z
      BY <1>0 DEF Preceding
  <2> QED
      BY <2>1, <2>2, <2>3, <2>4, SameSize
<1>6. ASSUME NEW k \in 1 .. Cardinality(S)
      PROVE  InOrder(T, second)[k] = f[InOrder(S, first)[k]]
  <2>1. PICK x \in S : x = InOrder(S, first)[k] /\ Cardinality(Preceding(S, first, x)) = k - 1
      BY <1>2
  <2>2. PICK j \in 1 .. Cardinality(T) : InOrder(T, second)[j] = f[x]
      BY <1>0, <1>4
  <2>3. j - 1 = k - 1
      BY <1>4, <1>5, <2>1, <2>2
  <2>4. j = k
      BY <1>1, <1>2, <2>3
  <2> QED
      BY <2>1, <2>2, <2>4
<1> QED
    BY <1>1, <1>2, <1>4, <1>6

(* A list of indices, in order: each stands behind those that are less. *)
LEMMA AscendingOk ==
    ASSUME NEW n \in Nat, NEW S \in SUBSET (1 .. n)
    PROVE  /\ Cardinality(S) \in Nat
           /\ Ascending(S) \in Seq(S) /\ Len(Ascending(S)) = Cardinality(S)
           /\ DOMAIN Ascending(S) = 1 .. Cardinality(S)
           /\ \A k \in DOMAIN Ascending(S) : Ascending(S)[k] \in S
           /\ \A j, k \in DOMAIN Ascending(S) : Ascending(S)[j] = Ascending(S)[k] => j = k
           /\ \A x \in S : \E k \in DOMAIN Ascending(S) : Ascending(S)[k] = x
           /\ \A k \in DOMAIN Ascending(S) : Cardinality({y \in S : y <= Ascending(S)[k]}) = k
PROOF
<1> DEFINE before == {p \in S \X S : p[1] < p[2]}
           held == InOrder(S, before)
<1>1. IsFiniteSet(S)
  <2>1. IsFiniteSet(1 .. n)
      BY FS_Interval
  <2> QED
      BY <2>1, FS_Subset
<1>2. /\ \A x \in S : <<x, x>> \notin before
      /\ \A x, y, z \in S : <<x, y>> \in before /\ <<y, z>> \in before => <<x, z>> \in before
      /\ \A x, y \in S : x # y => <<x, y>> \in before \/ <<y, x>> \in before
    OBVIOUS
<1>3. \A k : Preceding(S, before, held[k]) = {y \in S : <<y, held[k]>> \in before}
    BY DEF Preceding
<1>4. \A x, y \in S : <<x, y>> \in before <=> x < y
    OBVIOUS
<1>5. Ascending(S) = held
    BY DEF Ascending
<1> HIDE DEF before
<1>6. /\ Cardinality(S) \in Nat
      /\ held \in Seq(S) /\ Len(held) = Cardinality(S)
      /\ DOMAIN held = 1 .. Cardinality(S)
      /\ \A k \in 1 .. Cardinality(S) : held[k] \in S
      /\ \A j, k \in 1 .. Cardinality(S) : held[j] = held[k] => j = k
      /\ \A x \in S : \E k \in 1 .. Cardinality(S) : held[k] = x
      /\ \A k \in 1 .. Cardinality(S) : Cardinality(Preceding(S, before, held[k])) = k - 1
    BY <1>1, <1>2, InOrderOk
<1> HIDE DEF held
<1>7. ASSUME NEW k \in 1 .. Cardinality(S) PROVE Cardinality({y \in S : y <= held[k]}) = k
    <2> PICK x : x = held[k]
        OBVIOUS
    <2> DEFINE less == {y \in S : y < x}
    <2>0. x \in S /\ k \in Nat /\ Cardinality(Preceding(S, before, x)) = k - 1
        BY <1>6
    <2>1. x \in S /\ x \in Nat /\ x \notin less
        BY <2>0
    <2>2. less = Preceding(S, before, x)
        BY <1>3, <1>4, <2>1
    <2>3. {y \in S : y <= x} = less \cup {x}
        <3>1. \A y \in S : y \in Nat /\ (y <= x <=> y < x \/ y = x)
            BY <2>1
        <3> QED
            BY <2>1, <3>1
    <2>4. IsFiniteSet(less)
        BY <1>1, FS_Subset
    <2>5. Cardinality(less) = k - 1 /\ k \in Nat
        BY <2>0, <2>2
    <2> HIDE DEF less
    <2>6. Cardinality(less \cup {x}) = Cardinality(less) + 1
        BY <2>1, <2>4, FS_AddElement
    <2>7. Cardinality(less \cup {x}) = k
        BY <2>5, <2>6
    <2> QED
        BY <2>3, <2>7
<1> QED
    BY <1>5, <1>6, <1>7

LEMMA AscendingGrows ==
    ASSUME NEW n \in Nat, NEW S \in SUBSET (1 .. n), NEW j \in DOMAIN Ascending(S), NEW k \in DOMAIN Ascending(S), j < k
    PROVE  Ascending(S)[j] < Ascending(S)[k]
PROOF
<1> PICK listed : listed = Ascending(S)
    OBVIOUS
<1>1. /\ listed[j] \in S /\ listed[k] \in S /\ j \in Nat /\ k \in Nat
      /\ Cardinality({y \in S : y <= listed[j]}) = j
      /\ Cardinality({y \in S : y <= listed[k]}) = k
    <2>1. n \in Nat /\ S \in SUBSET (1 .. n)
        OBVIOUS
    <2>2. /\ Cardinality(S) \in Nat /\ DOMAIN Ascending(S) = 1 .. Cardinality(S)
          /\ \A i \in DOMAIN Ascending(S) : Ascending(S)[i] \in S
          /\ \A i \in DOMAIN Ascending(S) : Cardinality({y \in S : y <= Ascending(S)[i]}) = i
        BY ONLY <2>1, AscendingOk
    <2> QED
        BY <2>2
<1> PICK x \in S : x = listed[j]
    BY <1>1
<1> PICK z \in S : z = listed[k]
    BY <1>1
<1>2. ASSUME ~(x < z) PROVE FALSE
    <2> PICK upto : upto = {y \in S : y <= x}
        OBVIOUS
    <2> PICK below : below = {y \in S : y <= z}
        OBVIOUS
    <2>1. \A y \in S : y \in Nat
        OBVIOUS
    <2>2. x \in Nat /\ z \in Nat /\ z <= x
        BY <1>2, <2>1
    <2>3. below \in SUBSET upto
        <3>1. \A y \in S : y <= z => y <= x
            BY <2>1, <2>2
        <3> QED
            BY <3>1
    <2>4. IsFiniteSet(upto)
        <3>1. IsFiniteSet(1 .. n)
            BY FS_Interval
        <3>2. upto \in SUBSET (1 .. n)
            OBVIOUS
        <3> QED
            BY <3>1, <3>2, FS_Subset
    <2>5. Cardinality(below) <= Cardinality(upto)
        BY <2>3, <2>4, FS_Subset
    <2>6. Cardinality(below) = k /\ Cardinality(upto) = j
        BY <1>1
    <2> QED
        BY <1>1, <2>5, <2>6
<1> QED
    BY <1>2

LEMMA AscendingAll ==
    ASSUME NEW n \in Nat
    PROVE  DOMAIN Ascending(1 .. n) = 1 .. n /\ \A k \in 1 .. n : Ascending(1 .. n)[k] = k
PROOF
<1> PICK all : all = Ascending(1 .. n)
    OBVIOUS
<1>1. Cardinality(1 .. n) = n
    BY FS_Interval
<1>2. /\ DOMAIN all = 1 .. n
      /\ \A k \in DOMAIN all : all[k] \in 1 .. n
      /\ \A k \in DOMAIN all : Cardinality({y \in 1 .. n : y <= all[k]}) = k
    <2> PICK S : S = 1 .. n
        OBVIOUS
    <2>1. n \in Nat /\ S \in SUBSET (1 .. n)
        OBVIOUS
    <2>2. /\ DOMAIN Ascending(S) = 1 .. Cardinality(S)
          /\ \A k \in DOMAIN Ascending(S) : Ascending(S)[k] \in S
          /\ \A k \in DOMAIN Ascending(S) : Cardinality({y \in S : y <= Ascending(S)[k]}) = k
        BY ONLY <2>1, AscendingOk
    <2> QED
        BY <1>1, <2>2
<1>3. ASSUME NEW k \in 1 .. n PROVE all[k] = k
    <2> PICK x \in 1 .. n : x = all[k]
        BY <1>2
    <2>1. {y \in 1 .. n : y <= x} = 1 .. x
        OBVIOUS
    <2>2. Cardinality(1 .. x) = x
        BY FS_Interval
    <2> QED
        BY <1>2, <2>1, <2>2
<1> QED
    BY <1>2, <1>3

=============================================================================
