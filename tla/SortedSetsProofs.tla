-------------------------- MODULE SortedSetsProofs ---------------------------
(***************************************************************************)
(* What Ascending, Max and Min return, and the least-number principle.     *)
(*                                                                         *)
(* LeastNumber is induction in the form the provers can use: with a set    *)
(* where the library's theorems have an operator.                          *)
(***************************************************************************)
EXTENDS SortedSets, FiniteSetTheorems, WellFoundedInduction, TLAPS

LEMMA LeastNumber ==
  ASSUME NEW T \in SUBSET Nat, T # {}
  PROVE  \E n \in T : \A m \in T : n <= m
<1> DEFINE R == {ss \in Nat \X Nat : ss[1] < ss[2]}
<1>1. IsWellFoundedOn(R, Nat)
  BY NatLessThanWellFounded DEF OpToRel
<1>2. \A m, n \in T : m < n => <<m, n>> \in R
  OBVIOUS
<1> HIDE DEF R
<1>3. PICK n \in T : \A m \in T : <<m, n>> \notin R
  BY <1>1, WFMin
<1>4. \A m \in T : ~(m < n)
  BY <1>2, <1>3
<1> QED
  BY <1>4

LEMMA AscendingProperties ==
  ASSUME NEW S \in SUBSET Int, IsFiniteSet(S)
  PROVE  /\ Cardinality(S) \in Nat
         /\ Ascending(S) \in [1..Cardinality(S) -> S]
         /\ Ascending(S) \in Seq(S)
         /\ Len(Ascending(S)) = Cardinality(S)
         /\ \A i, j \in 1..Cardinality(S) : i < j => Ascending(S)[i] < Ascending(S)[j]
         /\ \A x \in S : \E i \in 1..Cardinality(S) : Ascending(S)[i] = x
<1> DEFINE n == Cardinality(S)
           rank == [x \in S |-> Cardinality(Below(S, x))]
<1>1. n \in Nat
  BY FS_CardinalityType
<1>2. \A x \in S : /\ IsFiniteSet(Below(S, x))
                   /\ Cardinality(Below(S, x)) \in 0..(n - 1)
  <2> TAKE x \in S
  <2>1. Below(S, x) \in SUBSET S /\ Below(S, x) # S
    BY DEF Below
  <2>2. /\ IsFiniteSet(Below(S, x))
        /\ Cardinality(Below(S, x)) <= n /\ Cardinality(Below(S, x)) # n
    BY <2>1, FS_Subset
  <2>3. Cardinality(Below(S, x)) \in Nat
    BY <2>2, FS_CardinalityType
  <2> QED
    BY <1>1, <2>2, <2>3
<1>3. \A x, y \in S : x < y => rank[x] < rank[y]
  <2> SUFFICES ASSUME NEW x \in S, NEW y \in S, x < y
               PROVE  Cardinality(Below(S, x)) < Cardinality(Below(S, y))
    OBVIOUS
  <2>0. x \in Int /\ y \in Int /\ \A z \in S : z \in Int
    OBVIOUS
  <2>1. Below(S, x) \in SUBSET Below(S, y) /\ x \in Below(S, y) /\ x \notin Below(S, x)
    <3>1. \A z \in Below(S, x) : z \in Below(S, y)
      BY <2>0 DEF Below
    <3>2. x \in Below(S, y) /\ x \notin Below(S, x)
      BY <2>0 DEF Below
    <3> QED
      BY <3>1, <3>2
  <2>2. /\ Cardinality(Below(S, x)) <= Cardinality(Below(S, y))
        /\ Cardinality(Below(S, x)) # Cardinality(Below(S, y))
    BY <1>2, <2>1, FS_Subset
  <2>3. Cardinality(Below(S, x)) \in Int /\ Cardinality(Below(S, y)) \in Int
    BY <1>2
  <2> QED
    BY <2>2, <2>3
<1>4. rank \in Injection(S, 0..(n - 1))
  BY <1>2, <1>3 DEF Injection, IsInjective
<1>5. rank \in Surjection(S, 0..(n - 1))
  <2>1. IsFiniteSet(0..(n - 1)) /\ Cardinality(0..(n - 1)) = n
    BY <1>1, FS_Interval
  <2> QED
    BY <1>1, <1>4, <2>1, FS_Injection
<1>6. \A i \in 1..n : Ascending(S)[i] \in S /\ rank[Ascending(S)[i]] = i - 1
  <2> TAKE i \in 1..n
  <2>1. i - 1 \in 0..(n - 1)
    BY <1>1
  <2>2. \E x \in S : Cardinality(Below(S, x)) = i - 1
    BY <1>5, <2>1 DEF Surjection
  <2>3. Ascending(S)[i] = CHOOSE x \in S : Cardinality(Below(S, x)) = i - 1
    BY DEF Ascending
  <2> QED
    BY <2>2, <2>3
<1>7. Ascending(S) \in [1..n -> S]
  <2>1. Ascending(S) = [i \in 1..n |-> Ascending(S)[i]]
    BY DEF Ascending
  <2> QED
    BY <1>6, <2>1
<1>8. \A i, j \in 1..n : i < j => Ascending(S)[i] < Ascending(S)[j]
  <2> SUFFICES ASSUME NEW i \in 1..n, NEW j \in 1..n, i < j
               PROVE  Ascending(S)[i] < Ascending(S)[j]
    OBVIOUS
  <2> DEFINE x == Ascending(S)[i]
             y == Ascending(S)[j]
  <2>1. x \in S /\ y \in S /\ rank[x] = i - 1 /\ rank[y] = j - 1
    BY <1>6
  <2> HIDE DEF x, y, rank
  <2>2. x \in Int /\ y \in Int /\ i \in Int /\ j \in Int
    BY <1>1, <2>1
  <2>3. ~(y < x) /\ y # x
    BY <1>3, <2>1, <2>2
  <2>4. x < y
    BY <2>2, <2>3
  <2> QED
    BY <2>4 DEF x, y
<1>9. \A x \in S : \E i \in 1..n : Ascending(S)[i] = x
  <2> SUFFICES ASSUME NEW x \in S PROVE \E i \in 1..n : Ascending(S)[i] = x
    OBVIOUS
  <2>1. rank[x] \in 0..(n - 1)
    BY <1>2
  <2> HIDE DEF rank
  <2> DEFINE i == rank[x] + 1
  <2>2. i \in 1..n /\ rank[x] = i - 1
    BY <1>1, <2>1
  <2>3. Ascending(S)[i] \in S /\ rank[Ascending(S)[i]] = rank[x]
    BY <1>6, <2>2
  <2> HIDE DEF i
  <2>4. Ascending(S)[i] \in Int /\ x \in Int
    BY <2>3
  <2>5. rank[x] \in Int /\ ~(rank[x] < rank[x])
    <3> HIDE DEF n
    <3> QED
      BY <1>1, <2>1
  <2>6. Ascending(S)[i] = x
    BY <1>3, <2>3, <2>4, <2>5
  <2> QED
    BY <2>2, <2>6
<1>10. Ascending(S) \in Seq(S) /\ Len(Ascending(S)) = n
  <2> HIDE DEF n
  <2> QED
    BY <1>1, <1>7
<1> QED
  BY <1>1, <1>7, <1>8, <1>9, <1>10

LEMMA MaxProperties ==
  ASSUME NEW S \in SUBSET Int, IsFiniteSet(S), S # {}
  PROVE  Max(S) \in S /\ \A x \in S : x <= Max(S)
<1> DEFINE n == Cardinality(S)
           top == Ascending(S)[n]
<1>1. n \in Nat /\ n # 0
  BY AscendingProperties, FS_EmptySet
<1>2. top \in S /\ \A x \in S : x <= top
  <2>1. n \in 1..n /\ top \in S
    BY <1>1, AscendingProperties
  <2> SUFFICES ASSUME NEW x \in S PROVE x <= top
    BY <2>1
  <2>2. PICK i \in 1..n : Ascending(S)[i] = x
    BY AscendingProperties
  <2>3. i < n => x < top
    BY <2>1, <2>2, AscendingProperties
  <2>4. i < n \/ i = n
    BY <1>1
  <2>5. i = n => x = top
    BY <2>2
  <2> HIDE DEF top
  <2>6. top \in Int /\ x \in Int
    BY <2>1
  <2> QED
    BY <2>3, <2>4, <2>5, <2>6
<1> HIDE DEF top
<1> QED
  BY <1>2 DEF Max

LEMMA MinProperties ==
  ASSUME NEW S \in SUBSET Int, IsFiniteSet(S), S # {}
  PROVE  Min(S) \in S /\ \A x \in S : Min(S) <= x
<1> DEFINE n == Cardinality(S)
           first == Ascending(S)[1]
<1>1. n \in Nat /\ n # 0
  BY AscendingProperties, FS_EmptySet
<1>2. first \in S /\ \A x \in S : first <= x
  <2>1. 1 \in 1..n /\ first \in S
    BY <1>1, AscendingProperties
  <2> SUFFICES ASSUME NEW x \in S PROVE first <= x
    BY <2>1
  <2>2. PICK i \in 1..n : Ascending(S)[i] = x
    BY AscendingProperties
  <2>3. 1 < i => first < x
    BY <2>1, <2>2, AscendingProperties
  <2>4. 1 < i \/ i = 1
    BY <1>1
  <2>5. i = 1 => x = first
    BY <2>2
  <2> HIDE DEF first
  <2>6. first \in Int /\ x \in Int
    BY <2>1
  <2> QED
    BY <2>3, <2>4, <2>5, <2>6
<1> HIDE DEF first
<1> QED
  BY <1>2 DEF Min

\* The selected elements are elements, in their order, and all of them.
LEMMA SelectedProperties ==
  ASSUME NEW T, NEW s \in Seq(T), NEW I \in SUBSET DOMAIN s
  PROVE  /\ Selected(s, I) \in Seq(T)
         /\ \A k \in DOMAIN Selected(s, I) : \E i \in I : Selected(s, I)[k] = s[i]
         /\ \A i \in I : \E k \in DOMAIN Selected(s, I) : Selected(s, I)[k] = s[i]
         /\ Len(Selected(s, I)) = Cardinality(I)
<1> DEFINE n == Cardinality(I)
           a == Ascending(I)
<1>1. I \in SUBSET Int /\ IsFiniteSet(I)
  <2>1. DOMAIN s = 1..Len(s) /\ Len(s) \in Nat
    OBVIOUS
  <2>2. IsFiniteSet(1..Len(s))
    BY <2>1, FS_Interval
  <2> QED
    BY <2>1, <2>2, FS_Subset
<1>2. /\ n \in Nat /\ a \in [1..n -> I]
      /\ \A i \in I : \E k \in 1..n : a[k] = i
  BY <1>1, AscendingProperties
<1>3. Selected(s, I) = [k \in 1..n |-> s[a[k]]]
  BY <1>2 DEF Selected
<1> HIDE DEF n, a
<1>4. \A k \in 1..n : a[k] \in I /\ s[a[k]] \in T
  BY <1>2
<1>5. Selected(s, I) \in Seq(T) /\ Len(Selected(s, I)) = n /\ DOMAIN Selected(s, I) = 1..n
  BY <1>2, <1>3, <1>4
<1>6. \A k \in 1..n : Selected(s, I)[k] = s[a[k]]
  BY <1>3
<1>7. \A k \in 1..n : \E i \in I : Selected(s, I)[k] = s[i]
  BY <1>4, <1>6
<1>8. \A i \in I : \E k \in 1..n : Selected(s, I)[k] = s[i]
  BY <1>2, <1>6
<1> QED
  BY <1>5, <1>7, <1>8 DEF n

\* Selected elements are in the order of their indices.
LEMMA SelectedOrder ==
  ASSUME NEW T, NEW s \in Seq(T), NEW I \in SUBSET DOMAIN s,
         NEW k \in DOMAIN Selected(s, I), NEW l \in DOMAIN Selected(s, I), k < l
  PROVE  \E i, j \in I : i < j /\ Selected(s, I)[k] = s[i] /\ Selected(s, I)[l] = s[j]
<1> DEFINE n == Cardinality(I)
           a == Ascending(I)
<1>1. I \in SUBSET Int /\ IsFiniteSet(I)
  <2>1. DOMAIN s = 1..Len(s) /\ Len(s) \in Nat
    OBVIOUS
  <2>2. IsFiniteSet(1..Len(s))
    BY <2>1, FS_Interval
  <2> QED
    BY <2>1, <2>2, FS_Subset
<1>2. /\ n \in Nat /\ a \in [1..n -> I]
      /\ \A i, j \in 1..n : i < j => a[i] < a[j]
  BY <1>1, AscendingProperties
<1>3. Selected(s, I) = [i \in 1..n |-> s[a[i]]]
  BY <1>2 DEF Selected
<1> HIDE DEF n, a
<1> QED
  BY <1>2, <1>3

LEMMA PairIsFinite ==
  ASSUME NEW a, NEW b
  PROVE  IsFiniteSet({a, b})
<1>1. IsFiniteSet({a})
  BY FS_Singleton
<1>2. IsFiniteSet({a} \union {b})
  BY <1>1, FS_AddElement
<1>3. {a, b} = {a} \union {b}
  OBVIOUS
<1> QED
  BY <1>2, <1>3

LEMMA TripleIsFinite ==
  ASSUME NEW a, NEW b, NEW c
  PROVE  IsFiniteSet({a, b, c})
<1>1. IsFiniteSet({a, b} \union {c})
  BY PairIsFinite, FS_AddElement
<1>2. {a, b, c} = {a, b} \union {c}
  OBVIOUS
<1> QED
  BY <1>1, <1>2

\* The values of a function on a finite set are finitely many.
LEMMA ImageIsFinite ==
  ASSUME NEW f, NEW S, IsFiniteSet(S)
  PROVE  IsFiniteSet({f[x] : x \in S})
<1> DEFINE T == {f[x] : x \in S}
<1>1. [x \in S |-> f[x]] \in Surjection(S, T)
  BY DEF Surjection
<1> QED
  BY <1>1, FS_Surjection

\* A set of integers between two integers is finite.
LEMMA BoundedIsFinite ==
  ASSUME NEW lo \in Int, NEW hi \in Int, NEW S \in SUBSET (lo..hi)
  PROVE  IsFiniteSet(S)
<1>1. IsFiniteSet(lo..hi)
  BY FS_Interval
<1> QED
  BY <1>1, FS_Subset

LEMMA AscendingInSeq ==
  ASSUME NEW U \in SUBSET Int, NEW S \in SUBSET U, IsFiniteSet(S)
  PROVE  Ascending(S) \in Seq(U) /\ (S # {} => Ascending(S) # <<>>)
<1>1. S \in SUBSET Int
  OBVIOUS
<1>2. /\ Cardinality(S) \in Nat /\ Ascending(S) \in [1..Cardinality(S) -> S]
      /\ \A x \in S : \E i \in 1..Cardinality(S) : Ascending(S)[i] = x
  BY <1>1, AscendingProperties
<1> DEFINE a == Ascending(S)
           n == Cardinality(S)
<1>3. a \in [1..n -> U] /\ n \in Nat
  BY <1>2
<1>4. S # {} => 1..n # {}
  BY <1>2
<1> HIDE DEF a, n
<1>5. a \in Seq(U) /\ Len(a) = n
  BY <1>3
<1>6. S # {} => a # <<>>
  BY <1>3, <1>4, <1>5
<1> QED
  BY <1>5, <1>6 DEF a
=============================================================================
