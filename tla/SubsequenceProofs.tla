-------------------------- MODULE SubsequenceProofs --------------------------
(***************************************************************************)
(* What Kept does to a sequence: it keeps the elements at the given        *)
(* indices, all of them, each once and in their order; and what the        *)
(* recursive functions over a sequence rest on; how many elements of a     *)
(* sequence are of a kind.                                                 *)
(***************************************************************************)
EXTENDS Subsequences, FiniteSetTheorems, WellFoundedInduction, TLAPS

\* A non-empty set of natural numbers has a least element.
LEMMA LeastNumber ==
    ASSUME NEW S \in SUBSET Nat, S # {}
    PROVE  \E n \in S : \A m \in S : n <= m
<1> DEFINE R == OpToRel(<, Nat)
<1>1. IsWellFoundedOn(R, Nat)
    BY NatLessThanWellFounded
<1>2. PICK n \in S : \A m \in S : ~ (<<m, n>> \in R)
    <2> HIDE DEF R
    <2> QED
        BY <1>1, WFMin
<1>3. \A m \in S : ~ (m < n)
    BY <1>2 DEF OpToRel
<1> QED
    BY <1>3

\* How many of the indices kept are not larger than i.
Rank(kept, i) == Cardinality({k \in kept : k <= i})

\* The indices kept are finitely many, at most n.
LEMMA KeptIsFinite ==
    ASSUME NEW n \in Nat, NEW kept \in SUBSET (1..n)
    PROVE  IsFiniteSet(kept) /\ Cardinality(kept) \in 0..n
<1>1. IsFiniteSet(1..n) /\ Cardinality(1..n) = n
    BY FS_Interval
<1>2. IsFiniteSet(kept) /\ Cardinality(kept) <= n
    BY <1>1, FS_Subset
<1> QED
    BY <1>2, FS_CardinalityType

\* The rank of an index is a natural number that grows with the index, by one
\* at every index that is kept.
LEMMA RankGrows ==
    ASSUME NEW n \in Nat, NEW kept \in SUBSET (1..n), NEW i \in Nat
    PROVE  /\ Rank(kept, i) \in Nat
           /\ Rank(kept, 0) = 0
           /\ Rank(kept, n) = Cardinality(kept)
           /\ Rank(kept, i) <= Cardinality(kept)
           /\ \A k \in Nat : k <= i => Rank(kept, k) <= Rank(kept, i)
           /\ i # 0 => Rank(kept, i) = IF i \in kept THEN Rank(kept, i - 1) + 1
                                                     ELSE Rank(kept, i - 1)
<1> DEFINE Upto(k) == {l \in kept : l <= k}
<1>0. \A l \in kept : l \in Nat /\ l >= 1 /\ l <= n
    OBVIOUS
<1>1. IsFiniteSet(kept)
    BY KeptIsFinite
<1>2. \A k \in Nat : IsFiniteSet(Upto(k))
    BY <1>1, FS_Subset
<1>3. Rank(kept, i) \in Nat
    BY <1>2, FS_CardinalityType DEF Rank
<1>4. Rank(kept, 0) = 0
    <2>1. \A l \in kept : ~ (l <= 0)
        BY <1>0
    <2>2. Upto(0) = {}
        BY <2>1
    <2> QED
        BY <2>2, FS_EmptySet DEF Rank
<1>5. Rank(kept, n) = Cardinality(kept)
    <2>1. Upto(n) = kept
        BY <1>0
    <2> QED
        BY <2>1 DEF Rank
<1>6. Rank(kept, i) <= Cardinality(kept)
    <2>1. Upto(i) \in SUBSET kept
        OBVIOUS
    <2> HIDE DEF Upto
    <2>2. Cardinality(Upto(i)) <= Cardinality(kept)
        BY <1>1, <2>1, FS_Subset
    <2> QED
        BY <2>2 DEF Rank, Upto
<1>7. ASSUME NEW k \in Nat, k <= i
      PROVE  Rank(kept, k) <= Rank(kept, i)
    <2>0. \A l \in kept : l <= k => l <= i
        BY <1>0, <1>7
    <2>1. Upto(k) \in SUBSET Upto(i)
        BY <2>0
    <2>2. IsFiniteSet(Upto(i))
        BY <1>2
    <2> HIDE DEF Upto
    <2>3. Cardinality(Upto(k)) <= Cardinality(Upto(i))
        BY <2>1, <2>2, FS_Subset
    <2> QED
        BY <2>3 DEF Rank, Upto
<1>8. ASSUME i # 0
      PROVE  Rank(kept, i) = IF i \in kept THEN Rank(kept, i - 1) + 1 ELSE Rank(kept, i - 1)
    <2> DEFINE k == i - 1
    <2>1. k \in Nat /\ \A l \in kept : l <= i <=> (l <= k \/ l = i)
        BY <1>0, <1>8
    <2>2. ~ (i <= k)
        BY <1>8
    <2> HIDE DEF k
    <2>3. CASE i \in kept
        <3>1. Upto(i) = Upto(k) \cup {i} /\ i \notin Upto(k)
            BY <2>1, <2>2, <2>3
        <3>2. IsFiniteSet(Upto(k))
            BY <1>2, <2>1
        <3> HIDE DEF Upto
        <3>3. Cardinality(Upto(i)) = Cardinality(Upto(k)) + 1
            BY <3>1, <3>2, FS_AddElement
        <3> QED
            BY <2>3, <3>3 DEF Rank, Upto, k
    <2>4. CASE i \notin kept
        <3>1. Upto(i) = Upto(k)
            BY <2>1, <2>4
        <3> QED
            BY <2>4, <3>1 DEF Rank, k
    <2> QED
        BY <2>3, <2>4
<1> QED
    BY <1>3, <1>4, <1>5, <1>6, <1>7, <1>8

\* Every rank up to the number of indices kept is the rank of one of them ...
LEMMA RankIsReached ==
    ASSUME NEW n \in Nat, NEW kept \in SUBSET (1..n), NEW j \in 1..Cardinality(kept)
    PROVE  \E i \in kept : Rank(kept, i) = j
<1> DEFINE S == {i \in Nat : Rank(kept, i) >= j}
<1>0. Cardinality(kept) \in Nat
    BY KeptIsFinite
<1>1. Cardinality(kept) \in Nat /\ j \in Nat /\ j >= 1
    BY <1>0
<1>2. n \in S
    BY <1>1, RankGrows
<1>3. PICK i \in S : \A m \in S : i <= m
    BY <1>2, LeastNumber
<1>4. i \in Nat /\ Rank(kept, i) >= j /\ Rank(kept, 0) = 0
    BY <1>3, RankGrows
<1>5. i # 0
    BY <1>1, <1>4
<1> DEFINE k == i - 1
<1>6. k \in Nat /\ k \notin S
    BY <1>3, <1>4, <1>5
<1>7. Rank(kept, i) = IF i \in kept THEN Rank(kept, k) + 1 ELSE Rank(kept, k)
    BY <1>4, <1>5, RankGrows
<1> HIDE DEF k
<1>8. Rank(kept, k) \in Nat
    BY <1>6, RankGrows
<1> QED
    BY <1>1, <1>4, <1>6, <1>7, <1>8

\* ... and of one only.
LEMMA RankIsStrict ==
    ASSUME NEW n \in Nat, NEW kept \in SUBSET (1..n), NEW i \in kept, NEW k \in kept, k < i
    PROVE  Rank(kept, k) < Rank(kept, i)
<1> DEFINE l == i - 1
<1>1. i \in Nat /\ i # 0 /\ k \in Nat /\ l \in Nat /\ k <= l
    OBVIOUS
<1>2. Rank(kept, i) = Rank(kept, l) + 1
    BY <1>1, RankGrows
<1> HIDE DEF l
<1>3. Rank(kept, k) <= Rank(kept, l) /\ Rank(kept, k) \in Nat /\ Rank(kept, l) \in Nat
    BY <1>1, RankGrows
<1> QED
    BY <1>2, <1>3

-----------------------------------------------------------------------------
(* Recursive functions.                                                     *)

\* f starts with base at 0, and step leads from each value to the next.
Recursive(f, n, S, base, step) ==
    /\ f \in [0..n -> S]
    /\ f[0] = base
    /\ \A i \in 1..n : f[i] = step[<<f[i - 1], i>>]

\* A function may be defined by recursion on the natural numbers up to n.
LEMMA Recursion ==
    ASSUME NEW n \in Nat, NEW S, NEW base \in S, NEW step \in [S \X (1..n) -> S]
    PROVE  \E f : Recursive(f, n, S, base, step)
<1> DEFINE Upto(k, f) == f[0] = base /\ \A i \in 1..k : f[i] = step[<<f[i - 1], i>>]
           Bad == {k \in 0..n : ~ \E f \in [0..k -> S] : Upto(k, f)}
<1>1. SUFFICES Bad = {}
    <2>1. n \notin Bad
        BY <1>1
    <2>2. \E f \in [0..n -> S] : Upto(n, f)
        BY <2>1
    <2> QED
        BY <2>2 DEF Recursive
<1>2. SUFFICES ASSUME Bad # {} PROVE FALSE
    OBVIOUS
<1>3. PICK k \in Bad : \A m \in Bad : k <= m
    <2>1. Bad \in SUBSET Nat
        OBVIOUS
    <2> HIDE DEF Bad
    <2> QED
        BY <1>2, <2>1, LeastNumber
<1>4. k # 0
    <2>1. Upto(0, [i \in 0..0 |-> base])
        OBVIOUS
    <2>2. [i \in 0..0 |-> base] \in [0..0 -> S]
        OBVIOUS
    <2>3. 0 \notin Bad
        BY <2>1, <2>2
    <2> QED
        BY <2>3, <1>3
<1>5. k \in 1..n /\ k - 1 \in 0..n /\ k - 1 \notin Bad
    BY <1>3, <1>4
<1>6. PICK f \in [0..(k - 1) -> S] : Upto(k - 1, f)
    BY <1>5
<1> DEFINE g == [i \in 0..k |-> IF i = k THEN step[<<f[k - 1], k>>] ELSE f[i]]
<1>7. g \in [0..k -> S]
    <2>1. step[<<f[k - 1], k>>] \in S
        BY <1>5
    <2>2. \A i \in 0..k : i # k => f[i] \in S
        BY <1>5
    <2> QED
        BY <2>1, <2>2
<1>8. Upto(k, g)
    <2>1. g[0] = base
        BY <1>5, <1>6
    <2>2. ASSUME NEW i \in 1..k PROVE g[i] = step[<<g[i - 1], i>>]
        <3>1. CASE i = k
            BY <3>1, <1>5
        <3>2. CASE i # k
            <4>1. i \in 1..(k - 1) /\ i - 1 \in 0..k /\ i - 1 # k /\ i \in 0..k
                BY <3>2, <1>5
            <4>2. f[i] = step[<<f[i - 1], i>>]
                BY <4>1, <1>6
            <4> QED
                BY <4>1, <4>2, <3>2
        <3> QED
            BY <3>1, <3>2
    <2> QED
        BY <2>1, <2>2
<1>9. k \notin Bad
    BY <1>7, <1>8
<1> QED
    BY <1>3, <1>9

\* What holds at 0 and at each next number holds up to n.
LEMMA Induction ==
    ASSUME NEW n \in Nat, NEW Good \in SUBSET (0..n), 0 \in Good,
           \A i \in 1..n : i - 1 \in Good => i \in Good
    PROVE  Good = 0..n
<1> DEFINE Bad == (0..n) \ Good
<1>1. SUFFICES ASSUME Bad # {} PROVE FALSE
    OBVIOUS
<1>2. PICK k \in Bad : \A m \in Bad : k <= m
    <2>1. Bad \in SUBSET Nat
        OBVIOUS
    <2> HIDE DEF Bad
    <2> QED
        BY <1>1, <2>1, LeastNumber
<1>3. k \in 1..n /\ k - 1 \in Good
    BY <1>2
<1> QED
    BY <1>2, <1>3

-----------------------------------------------------------------------------
(* What is kept of a sequence.                                             *)

\* Some function lists the indices kept.
LEMMA SomeListing ==
    ASSUME NEW n \in Nat, NEW kept \in SUBSET (1..n)
    PROVE  \E f \in [1..Cardinality(kept) -> kept] :
               /\ \A j \in 1..Cardinality(kept) : Rank(kept, f[j]) = j
               /\ \A j, l \in 1..Cardinality(kept) : j < l => f[j] < f[l]
               /\ \A i \in kept : \E j \in 1..Cardinality(kept) : f[j] = i
<1> DEFINE c == Cardinality(kept)
           at(j) == CHOOSE i \in kept : Rank(kept, i) = j
           f == [j \in 1..c |-> at(j)]
<1>1. c \in 0..n
    BY KeptIsFinite
<1>2. \A j \in 1..c : at(j) \in kept /\ Rank(kept, at(j)) = j
    BY RankIsReached
<1>3. \A i \in kept : i \in Nat /\ i # 0
    OBVIOUS
<1> HIDE DEF c, at
<1>4. ASSUME NEW j \in 1..c, NEW l \in 1..c, j < l
      PROVE  at(j) < at(l)
    <2>1. at(j) \in kept /\ at(l) \in kept /\ Rank(kept, at(j)) = j /\ Rank(kept, at(l)) = l
        BY <1>2
    <2>2. at(j) \in Nat /\ at(l) \in Nat
        BY <1>3, <2>1
    <2>3. CASE at(l) < at(j)
        <3>1. Rank(kept, at(l)) < Rank(kept, at(j))
            BY <2>1, <2>3, RankIsStrict
        <3> QED
            BY <1>1, <1>4, <2>1, <3>1
    <2>4. CASE at(l) = at(j)
        BY <1>1, <1>4, <2>1, <2>4
    <2> QED
        BY <2>2, <2>3, <2>4
<1>5. ASSUME NEW i \in kept
      PROVE  \E j \in 1..c : at(j) = i
    <2> DEFINE j == Rank(kept, i)
               l == i - 1
    <2>1. i \in Nat /\ i # 0 /\ l \in Nat
        BY <1>3
    <2>2. j \in Nat /\ j <= c
        BY <2>1, RankGrows DEF c
    <2>3. j = Rank(kept, l) + 1
        BY <2>1, RankGrows
    <2> HIDE DEF l
    <2>4. Rank(kept, l) \in Nat
        BY <2>1, RankGrows
    <2>5. j \in 1..c
        BY <1>1, <2>2, <2>3, <2>4
    <2>6. at(j) \in kept /\ Rank(kept, at(j)) = j
        BY <1>2, <2>5
    <2> HIDE DEF j
    <2>7. at(j) \in Nat
        BY <1>3, <2>6
    <2>8. ASSUME at(j) < i PROVE FALSE
        <3>1. Rank(kept, at(j)) < Rank(kept, i)
            BY <2>6, <2>8, RankIsStrict
        <3> QED
            BY <2>2, <2>6, <3>1 DEF j
    <2>9. ASSUME i < at(j) PROVE FALSE
        <3>1. Rank(kept, i) < Rank(kept, at(j))
            BY <2>6, <2>9, RankIsStrict
        <3> QED
            BY <2>2, <2>6, <3>1 DEF j
    <2> QED
        BY <2>1, <2>5, <2>7, <2>8, <2>9
<1>6. f \in [1..c -> kept]
    BY <1>2
<1>7. \A j \in 1..c : Rank(kept, f[j]) = j
    BY <1>2
<1>8. \A j, l \in 1..c : j < l => f[j] < f[l]
    BY <1>4
<1>9. \A i \in kept : \E j \in 1..c : f[j] = i
    BY <1>5
<1> HIDE DEF f
<1> QED
    BY <1>6, <1>7, <1>8, <1>9 DEF c

\* from says where the elements of r come from in s: every one from an index
\* of its own, in the order of the indices.
ComesFrom(r, s, from, kept) ==
    /\ from \in [DOMAIN r -> kept]
    /\ \A j \in DOMAIN r : r[j] = s[from[j]]
    /\ \A j, l \in DOMAIN r : j < l => from[j] < from[l]
    /\ \A i \in kept : \E j \in DOMAIN r : from[j] = i

\* Kept has an element for every index kept, in the place of its rank.
LEMMA KeptByRank ==
    ASSUME NEW T, NEW s \in Seq(T), NEW kept \in SUBSET DOMAIN s
    PROVE  /\ Kept(s, kept) \in Seq(T)
           /\ Len(Kept(s, kept)) = Cardinality(kept)
           /\ \A k \in kept : Kept(s, kept)[Rank(kept, k)] = s[k]
<1> DEFINE n == Len(s)
           step == [p \in Seq(T) \X (1..n) |->
                        IF p[2] \in kept THEN Append(p[1], s[p[2]]) ELSE p[1]]
           Further(f, i) == IF i \in kept THEN Append(f[i - 1], s[i]) ELSE f[i - 1]
           IsKept(f) == f = [i \in 0..n |-> IF i = 0 THEN <<>> ELSE Further(f, i)]
           upto == CHOOSE f : IsKept(f)
<1>1. n \in Nat /\ kept \in SUBSET (1..n) /\ \A i \in 1..n : s[i] \in T
    OBVIOUS
<1>2. Kept(s, kept) = upto[n]
    BY DEF Kept
<1> HIDE DEF n
<1>0. 0 \in 0..n /\ \A i \in 0..n : i # 0 <=> i \in 1..n
    BY <1>1
<1>00. \A i \in 1..n : i \in 0..n
    BY <1>1
<1>3. IsKept(upto)
    <2>1. step \in [Seq(T) \X (1..n) -> Seq(T)]
        BY <1>1
    <2>2. <<>> \in Seq(T)
        OBVIOUS
    <2> HIDE DEF step
    <2>3. PICK f : Recursive(f, n, Seq(T), <<>>, step)
        BY <1>1, <2>1, <2>2, Recursion
    <2>4. f \in [0..n -> Seq(T)] /\ f[0] = <<>> /\ \A i \in 1..n : f[i] = step[<<f[i - 1], i>>]
        BY <2>3 DEF Recursive
    <2>5. ASSUME NEW i \in 1..n
          PROVE  f[i] = Further(f, i)
        <3>1. f[i - 1] \in Seq(T)
            BY <1>1, <2>4
        <3>2. <<f[i - 1], i>> \in Seq(T) \X (1..n)
            BY <3>1
        <3> QED
            BY <2>4, <3>2 DEF step
    <2> HIDE DEF Further
    <2>6. \A i \in 0..n : f[i] = IF i = 0 THEN <<>> ELSE Further(f, i)
        BY <1>0, <2>4, <2>5
    <2>7. IsKept(f)
        BY <2>4, <2>6
    <2> QED
        BY <2>7
<1> HIDE DEF upto
<1>4. upto[0] = <<>> /\ \A i \in 1..n : upto[i] = Further(upto, i)
    <2> HIDE DEF Further
    <2>1. \A i \in 0..n : upto[i] = IF i = 0 THEN <<>> ELSE Further(upto, i)
        BY <1>3, Zenon
    <2> QED
        BY <1>0, <1>00, <2>1
<1> HIDE DEF IsKept
<1> DEFINE Good == {i \in 0..n :
               /\ upto[i] \in Seq(T) /\ Len(upto[i]) = Rank(kept, i)
               /\ \A k \in kept : k <= i => upto[i][Rank(kept, k)] = s[k]}
<1>5. Good = 0..n
    <2>1. 0 \in Good
        <3>1. \A k \in kept : ~ (k <= 0)
            BY <1>1
        <3>2. Rank(kept, 0) = 0
            BY <1>1, RankGrows
        <3>3. upto[0] \in Seq(T) /\ Len(upto[0]) = 0
            BY <1>4
        <3> QED
            BY <1>0, <3>1, <3>2, <3>3
    <2>2. ASSUME NEW i \in 1..n, i - 1 \in Good
          PROVE  i \in Good
        <3> DEFINE h == i - 1
        <3>1. h \in Nat /\ h \in 0..n /\ i \in Nat /\ i # 0 /\ i \in 0..n
            BY <1>1
        <3>2. /\ upto[h] \in Seq(T) /\ Len(upto[h]) = Rank(kept, h)
              /\ \A k \in kept : k <= h => upto[h][Rank(kept, k)] = s[k]
            BY <2>2
        <3>3. Rank(kept, i) = IF i \in kept THEN Rank(kept, h) + 1 ELSE Rank(kept, h)
            BY <1>1, <3>1, RankGrows
        <3>4. upto[i] = IF i \in kept THEN Append(upto[h], s[i]) ELSE upto[h]
            BY <1>4, Zenon DEF Further
        <3>5. s[i] \in T
            BY <1>1
        <3>6. \A k \in kept : k <= i <=> (k <= h \/ k = i)
            BY <1>1
        <3> HIDE DEF h
        <3>7. CASE i \in kept
            <4>1. upto[i] = Append(upto[h], s[i]) /\ Rank(kept, i) = Rank(kept, h) + 1
                BY <3>3, <3>4, <3>7
            <4>2. upto[i] \in Seq(T) /\ Len(upto[i]) = Rank(kept, i) /\ upto[i][Rank(kept, i)] = s[i]
                BY <3>2, <3>5, <4>1
            <4>3. ASSUME NEW k \in kept, k <= h PROVE upto[i][Rank(kept, k)] = s[k]
                <5>1. k \in Nat /\ k # 0
                    BY <1>1
                <5>2. Rank(kept, k) \in Nat /\ Rank(kept, k) # 0 /\ Rank(kept, k) <= Rank(kept, h)
                    <6> DEFINE g == k - 1
                    <6>1. g \in Nat
                        BY <5>1
                    <6>2. Rank(kept, k) = Rank(kept, g) + 1
                        BY <1>1, <5>1, RankGrows
                    <6> HIDE DEF g
                    <6>3. Rank(kept, g) \in Nat
                        BY <1>1, <6>1, RankGrows
                    <6>4. Rank(kept, k) <= Rank(kept, h)
                        BY <1>1, <3>1, <4>3, <5>1, RankGrows
                    <6> QED
                        BY <6>2, <6>3, <6>4
                <5>3. upto[h][Rank(kept, k)] = s[k]
                    BY <3>2, <4>3
                <5> QED
                    BY <3>2, <3>5, <4>1, <5>2, <5>3
            <4> QED
                BY <3>1, <3>6, <4>2, <4>3
        <3>8. CASE i \notin kept
            <4>1. upto[i] = upto[h] /\ Rank(kept, i) = Rank(kept, h)
                BY <3>3, <3>4, <3>8
            <4>2. \A k \in kept : k <= i => k <= h
                BY <3>6, <3>8
            <4> QED
                BY <3>1, <3>2, <4>1, <4>2
        <3> QED
            BY <3>7, <3>8
    <2>3. Good \in SUBSET (0..n)
        OBVIOUS
    <2> HIDE DEF Good
    <2> QED
        BY <1>1, <2>1, <2>2, <2>3, Induction
<1>6. n \in Good /\ \A k \in kept : k <= n
    BY <1>1, <1>5
<1>7. Rank(kept, n) = Cardinality(kept)
    BY <1>1, RankGrows
<1> QED
    BY <1>2, <1>6, <1>7

\* Kept returns a sequence of the elements kept, in their order.
LEMMA KeptComesFrom ==
    ASSUME NEW T, NEW s \in Seq(T), NEW kept \in SUBSET DOMAIN s
    PROVE  /\ Kept(s, kept) \in Seq(T)
           /\ \E from : ComesFrom(Kept(s, kept), s, from, kept)
<1> DEFINE r == Kept(s, kept)
           m == Cardinality(kept)
<1>1. r \in Seq(T) /\ Len(r) = m /\ \A k \in kept : r[Rank(kept, k)] = s[k]
    BY KeptByRank
<1>2. PICK from \in [1..m -> kept] :
          /\ \A j \in 1..m : Rank(kept, from[j]) = j
          /\ \A j, l \in 1..m : j < l => from[j] < from[l]
          /\ \A i \in kept : \E j \in 1..m : from[j] = i
    <2>1. Len(s) \in Nat /\ kept \in SUBSET (1..Len(s))
        OBVIOUS
    <2> QED
        BY <2>1, SomeListing
<1> HIDE DEF r, m
<1>3. DOMAIN r = 1..m
    BY <1>1
<1>4. \A j \in 1..m : r[j] = s[from[j]]
    BY <1>1, <1>2
<1>5. ComesFrom(r, s, from, kept)
    BY <1>2, <1>3, <1>4 DEF ComesFrom
<1> QED
    BY <1>1, <1>5 DEF r

\* Kept is a subsequence of the sequence it is taken from: its elements are
\* those at the indices kept, and they come in the same order.
THEOREM KeptIsSubsequence ==
    ASSUME NEW T, NEW s \in Seq(T), NEW kept \in SUBSET DOMAIN s
    PROVE  /\ Kept(s, kept) \in Seq(T)
           /\ \E from \in [DOMAIN Kept(s, kept) -> kept] :
                  /\ \A j \in DOMAIN Kept(s, kept) : Kept(s, kept)[j] = s[from[j]]
                  /\ \A j, l \in DOMAIN Kept(s, kept) : j < l => from[j] < from[l]
                  /\ \A i \in kept : \E j \in DOMAIN Kept(s, kept) : from[j] = i
<1> DEFINE r == Kept(s, kept)
<1>1. r \in Seq(T) /\ \E from : ComesFrom(r, s, from, kept)
    BY KeptComesFrom
<1> HIDE DEF r
<1>2. r \in Seq(T) /\ \E from \in [DOMAIN r -> kept] :
                  /\ \A j \in DOMAIN r : r[j] = s[from[j]]
                  /\ \A j, l \in DOMAIN r : j < l => from[j] < from[l]
                  /\ \A i \in kept : \E j \in DOMAIN r : from[j] = i
    BY <1>1, Zenon DEF ComesFrom
<1> QED
    BY <1>2 DEF r

-----------------------------------------------------------------------------
(* Counting the elements of a sequence.                                     *)

\* How many elements of s are in P.
Number(s, P) == Cardinality({i \in DOMAIN s : s[i] \in P})

\* The number of elements in P is a natural number, 0 when there are none.
LEMMA NumberIsNatural ==
    ASSUME NEW T, NEW s \in Seq(T), NEW P
    PROVE  /\ Number(s, P) \in 0..Len(s)
           /\ Number(s, P) = 0 <=> \A i \in DOMAIN s : s[i] \notin P
           /\ IsFiniteSet({i \in DOMAIN s : s[i] \in P})
<1> DEFINE here == {i \in DOMAIN s : s[i] \in P}
<1>1. Len(s) \in Nat /\ here \in SUBSET (1..Len(s))
    OBVIOUS
<1>2. IsFiniteSet(here) /\ Cardinality(here) \in 0..Len(s)
    BY <1>1, KeptIsFinite
<1>3. Cardinality(here) = 0 <=> here = {}
    BY <1>2, FS_EmptySet
<1>4. here = {} <=> \A i \in DOMAIN s : s[i] \notin P
    OBVIOUS
<1> QED
    BY <1>2, <1>3, <1>4 DEF Number

\* A set has as many elements as one it is mapped to, each to its own.
LEMMA SameNumber ==
    ASSUME NEW S, NEW R, IsFiniteSet(S), NEW f \in [S -> R],
           \A x, y \in S : f[x] = f[y] => x = y,
           \A z \in R : \E x \in S : f[x] = z
    PROVE  IsFiniteSet(R) /\ Cardinality(R) = Cardinality(S)
<1>1. f \in Injection(S, R)
    BY DEF Injection, IsInjective
<1>2. f \in Surjection(S, R)
    BY DEF Surjection
<1>3. ExistsBijection(S, R)
    BY <1>1, <1>2 DEF ExistsBijection, Bijection
<1> QED
    BY <1>3, FS_Bijection

\* An element is appended.
LEMMA NumberAppended ==
    ASSUME NEW T, NEW s \in Seq(T), NEW f \in T, NEW P
    PROVE  Number(Append(s, f), P) = Number(s, P) + (IF f \in P THEN 1 ELSE 0)
<1> DEFINE r == Append(s, f)
           here == {i \in DOMAIN s : s[i] \in P}
           there == {i \in DOMAIN r : r[i] \in P}
           last == Len(s) + 1
<1>0. Cardinality(here) = Number(s, P)
    BY DEF Number
<1>1. IsFiniteSet(here) /\ Number(s, P) \in Nat
    BY NumberIsNatural
<1>2. DOMAIN r = DOMAIN s \cup {last} /\ last \notin DOMAIN s /\ r[last] = f
      /\ \A i \in DOMAIN s : r[i] = s[i]
    OBVIOUS
<1>3. Cardinality(there) = Number(r, P)
    BY DEF Number
<1> HIDE DEF r, last
<1>4. there = IF f \in P THEN here \cup {last} ELSE here
    BY <1>2
<1>5. last \notin here
    BY <1>2
<1> HIDE DEF here, there
<1>6. Cardinality(here \cup {last}) = Cardinality(here) + 1
    BY <1>1, <1>5, FS_AddElement
<1> QED
    BY <1>0, <1>1, <1>3, <1>4, <1>6 DEF r

\* What is left when the element at p is removed.
Without(s, p) == SubSeq(s, 1, p - 1) \o SubSeq(s, p + 1, Len(s))

\* The element at p is removed.
LEMMA NumberWithout ==
    ASSUME NEW T, NEW s \in Seq(T), NEW p \in DOMAIN s
    PROVE  /\ Without(s, p) \in Seq(T)
           /\ Len(Without(s, p)) = Len(s) - 1
           /\ \A j \in DOMAIN Without(s, p) :
                  Without(s, p)[j] = IF j < p THEN s[j] ELSE s[j + 1]
           /\ \A P : Number(Without(s, p), P) = Number(s, P) - (IF s[p] \in P THEN 1 ELSE 0)
<1> DEFINE r == Without(s, p)
           n == Len(s)
<1>1. n \in Nat /\ n >= 1 /\ p \in 1..n /\ DOMAIN s = 1..n
    OBVIOUS
<1>2. r \in Seq(T) /\ Len(r) = n - 1 /\ \A j \in 1..(n - 1) : r[j] = IF j < p THEN s[j] ELSE s[j + 1]
    <2> DEFINE head == SubSeq(s, 1, p - 1)
               tail == SubSeq(s, p + 1, n)
    <2>1. head \in Seq(T) /\ Len(head) = p - 1 /\ \A j \in 1..(p - 1) : head[j] = s[j]
        BY <1>1
    <2>2. tail \in Seq(T) /\ Len(tail) = n - p /\ \A j \in 1..(n - p) : tail[j] = s[p + j]
        BY <1>1
    <2>3. r = head \o tail
        BY DEF Without
    <2>4. /\ r \in Seq(T)
          /\ Len(r) = Len(head) + Len(tail)
          /\ \A k \in 1..Len(head) : r[k] = head[k]
          /\ \A k \in 1..Len(tail) : r[Len(head) + k] = tail[k]
        <3> HIDE DEF head, tail, r
        <3>1. head \in Seq(T) /\ tail \in Seq(T)
            BY <2>1, <2>2
        <3>2. head \o tail \in Seq(T)
            BY ONLY <3>1
        <3>3. /\ Len(head \o tail) = Len(head) + Len(tail)
              /\ \A k \in 1..Len(head) : (head \o tail)[k] = head[k]
              /\ \A k \in 1..Len(tail) : (head \o tail)[Len(head) + k] = tail[k]
            BY ONLY <3>1
        <3> QED
            BY <2>3, <3>2, <3>3, Zenon
    <2> HIDE DEF head, tail, n, r
    <2>5. r \in Seq(T) /\ Len(r) = n - 1
        BY <1>1, <2>1, <2>2, <2>4
    <2>6. ASSUME NEW j \in 1..(n - 1), j < p PROVE r[j] = s[j]
        BY <1>1, <2>1, <2>4, <2>6
    <2>7. ASSUME NEW j \in 1..(n - 1), ~ (j < p) PROVE r[j] = s[j + 1]
        <3>1. PICK k : k = j - (p - 1)
            OBVIOUS
        <3>2. k \in 1..(n - p) /\ (p - 1) + k = j /\ p + k = j + 1
            BY <1>1, <2>7, <3>1
        <3>3. r[(p - 1) + k] = tail[k] /\ tail[k] = s[p + k]
            BY <2>1, <2>2, <2>4, <3>2
        <3> QED
            BY <3>2, <3>3
    <2> QED
        BY <2>5, <2>6, <2>7
<1> HIDE DEF r
<1>3. DOMAIN r = 1..(n - 1)
    BY <1>1, <1>2
<1>4. ASSUME NEW P
      PROVE  Number(r, P) = Number(s, P) - (IF s[p] \in P THEN 1 ELSE 0)
    <2> DEFINE here == {i \in DOMAIN s : s[i] \in P}
               there == {j \in DOMAIN r : r[j] \in P}
               rest == here \ {p}
               from == [j \in there |-> IF j < p THEN j ELSE j + 1]
    <2>0. Cardinality(here) = Number(s, P) /\ Cardinality(there) = Number(r, P)
        BY DEF Number
    <2>1. IsFiniteSet(here) /\ Number(s, P) \in Nat
        BY NumberIsNatural
    <2>2. IsFiniteSet(there)
        BY <1>2, NumberIsNatural
    <2> HIDE DEF n
    <2>3. from \in [there -> rest]
        BY <1>1, <1>2, <1>3
    <2>4. \A j, l \in there : from[j] = from[l] => j = l
        BY <1>1, <1>3
    <2>5. ASSUME NEW i \in rest PROVE \E j \in there : from[j] = i
        <3>1. i \in 1..n /\ i # p /\ s[i] \in P
            BY <1>1
        <3>2. CASE i < p
            <4>1. i \in 1..(n - 1) /\ r[i] = s[i]
                BY <1>1, <1>2, <3>1, <3>2
            <4> QED
                BY <1>3, <3>1, <3>2, <4>1
        <3>3. CASE i > p
            <4> DEFINE j == i - 1
            <4>1. j \in 1..(n - 1) /\ ~ (j < p) /\ j + 1 = i
                BY <1>1, <3>1, <3>3
            <4>2. r[j] = s[i]
                BY <1>2, <4>1
            <4>3. j \in there /\ from[j] = j + 1
                BY <1>3, <3>1, <4>1, <4>2
            <4> QED
                BY <4>1, <4>3
        <3> QED
            BY <1>1, <3>1, <3>2, <3>3
    <2> HIDE DEF there, from
    <2>6. IsFiniteSet(rest) /\ Cardinality(rest) = Cardinality(there)
        BY <2>2, <2>3, <2>4, <2>5, SameNumber
    <2> HIDE DEF here
    <2>7. Cardinality(rest) = IF p \in here THEN Cardinality(here) - 1 ELSE Cardinality(here)
        BY <2>1, FS_RemoveElement
    <2>9. p \in here <=> s[p] \in P
        BY DEF here
    <2> QED
        BY <2>0, <2>1, <2>6, <2>7, <2>9
<1> QED
    BY <1>2, <1>3, <1>4 DEF r

\* from says where each element of r comes from in s.
TakenFrom(r, s, from, kept) ==
    /\ from \in [DOMAIN r -> kept]
    /\ \A j \in DOMAIN r : r[j] = s[from[j]]
    /\ \A j, l \in DOMAIN r : from[j] = from[l] => j = l
    /\ \A i \in kept : \E j \in DOMAIN r : from[j] = i

\* A part of the sequence is kept: each element of the result comes from an
\* index of its own.
LEMMA KeptTaken ==
    ASSUME NEW T, NEW s \in Seq(T), NEW kept \in SUBSET DOMAIN s
    PROVE  /\ Kept(s, kept) \in Seq(T)
           /\ Len(Kept(s, kept)) <= Len(s)
           /\ \E from : TakenFrom(Kept(s, kept), s, from, kept)
<1> DEFINE r == Kept(s, kept)
<1>1. r \in Seq(T) /\ Len(r) = Cardinality(kept)
    BY KeptByRank
<1>2. PICK from : ComesFrom(r, s, from, kept)
    BY KeptComesFrom
<1> HIDE DEF r
<1>3. \A j, l \in DOMAIN r : from[j] = from[l] => j = l
    <2>1. \A j \in DOMAIN r : j \in Nat /\ from[j] \in Nat
        BY <1>1, <1>2 DEF ComesFrom
    <2>2. \A j, l \in Nat : j = l \/ j < l \/ l < j
        OBVIOUS
    <2>3. \A j, l \in Nat : j < l => j # l
        OBVIOUS
    <2> QED
        BY <1>2, <2>1, <2>2, <2>3 DEF ComesFrom
<1>4. TakenFrom(r, s, from, kept)
    BY <1>2, <1>3 DEF TakenFrom, ComesFrom
<1>5. Cardinality(kept) <= Len(s)
    <2>1. Len(s) \in Nat /\ kept \in SUBSET (1..Len(s))
        OBVIOUS
    <2>2. Cardinality(kept) \in 0..Len(s)
        BY <2>1, KeptIsFinite
    <2> QED
        BY <2>1, <2>2
<1> QED
    BY <1>1, <1>4, <1>5 DEF r

\* It holds as many elements in P as were kept.
LEMMA NumberOfKept ==
    ASSUME NEW T, NEW s \in Seq(T), NEW kept \in SUBSET DOMAIN s, NEW P
    PROVE  Number(Kept(s, kept), P) = Cardinality({i \in kept : s[i] \in P})
<1> DEFINE r == Kept(s, kept)
<1>1. r \in Seq(T)
    BY KeptTaken
<1>2. PICK from : TakenFrom(r, s, from, kept)
    BY KeptTaken
<1> HIDE DEF r
<1> DEFINE here == {i \in kept : s[i] \in P}
           there == {j \in DOMAIN r : r[j] \in P}
           to == [j \in there |-> from[j]]
<1>3. Cardinality(there) = Number(r, P) /\ IsFiniteSet(there)
    BY <1>1, NumberIsNatural DEF Number
<1>4. to \in [there -> here]
    BY <1>2 DEF TakenFrom
<1>5. \A j, l \in there : to[j] = to[l] => j = l
    BY <1>2 DEF TakenFrom
<1>6. \A i \in here : \E j \in there : to[j] = i
    BY <1>2 DEF TakenFrom
<1> HIDE DEF there, here, to
<1>7. Cardinality(here) = Cardinality(there)
    BY <1>3, <1>4, <1>5, <1>6, SameNumber
<1> QED
    BY <1>3, <1>7 DEF here, r
=============================================================================
