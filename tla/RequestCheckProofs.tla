------------------------- MODULE RequestCheckProofs -------------------------
(***************************************************************************)
(* Proofs about the way of a request, made in the process, typed at the    *)
(* console or sent (RequestCheck, Console, Remote), for every limit, every *)
(* request and every database: that the checks going on after an error let *)
(* nothing through, what a page holds, what an answer tells, and that what *)
(* is sent is served and heard as it was made.                             *)
(***************************************************************************)
EXTENDS Remote, FiniteSetTheorems, SequenceTheorems, WellFoundedInduction, TLAPS

-----------------------------------------------------------------------------
(* Pages. *)

\* A set of numbers that is not empty has a least one.
LEMMA Least == ASSUME NEW S, S \subseteq Nat, S # {} PROVE \E x \in S : \A y \in S : x <= y
<1> DEFINE R == {ss \in Nat \X Nat : ss[1] < ss[2]}
<1>1. IsWellFoundedOn(R, Nat)
  BY NatLessThanWellFounded, Zenon DEF OpToRel
<1>2. PICK x \in S : \A y \in S : ~(<<y, x>> \in R)
  <2> HIDE DEF R
  <2> QED BY <1>1, WFMin
<1>3. \A y \in S : ~(y < x)
  BY <1>2
<1> QED BY <1>3

\* The rank of a key grows with it, and is less than the number of keys.
LEMMA RankIs ==
  ASSUME NEW S, IsFiniteSet(S), S \subseteq Nat, NEW k \in Nat
  PROVE  /\ Rank(S, k) \in Nat /\ Rank(S, k) <= Cardinality(S) /\ Cardinality(S) \in Nat
         /\ k \in S => Rank(S, k) < Cardinality(S)
         /\ \A j \in Nat : j <= k => Rank(S, j) <= Rank(S, k)
         /\ \A j \in S : j < k => Rank(S, j) < Rank(S, k)
<1> DEFINE Below(i) == {j \in S : j < i}
<1>1. \A i \in Nat : /\ IsFiniteSet(Below(i)) /\ Cardinality(Below(i)) \in Nat
                     /\ Cardinality(Below(i)) <= Cardinality(S) /\ Rank(S, i) = Cardinality(Below(i))
  BY FS_Subset, FS_CardinalityType DEF Rank
<1>2. Cardinality(S) \in Nat
  BY FS_CardinalityType
<1>3. ASSUME k \in S PROVE Cardinality(Below(k)) # Cardinality(S)
  <2>1. Below(k) # S /\ Below(k) \in SUBSET S
    BY <1>3
  <2> QED BY <2>1, FS_Subset
<1>4. ASSUME NEW j \in Nat, j <= k PROVE Cardinality(Below(j)) <= Cardinality(Below(k))
  <2>1. \A i \in Below(j) : i \in Below(k)
    <3>1. \A i \in S : i \in Nat
      OBVIOUS
    <3> QED BY <1>4, <3>1
  <2>2. Below(j) \in SUBSET Below(k)
    BY <2>1, Zenon
  <2> QED BY <1>1, <2>2, FS_Subset
<1>5. ASSUME NEW j \in S, j < k PROVE Cardinality(Below(j)) < Cardinality(Below(k))
  <2>1. \A i \in S : i \in Nat
    OBVIOUS
  <2>2. j \in Nat /\ j \notin Below(j) /\ \A i \in S : i < j => i < k
    BY <1>5, <2>1
  <2>3. \A i \in Below(j) \cup {j} : i \in Below(k)
    BY <1>5, <2>2
  <2>4. Below(j) \cup {j} \in SUBSET Below(k) /\ j \notin Below(j)
    BY <2>2, <2>3, Zenon
  <2>5. Cardinality(Below(j) \cup {j}) = Cardinality(Below(j)) + 1
    BY <1>1, <2>2, <2>4, FS_AddElement
  <2>6. Cardinality(Below(j) \cup {j}) <= Cardinality(Below(k))
    BY <1>1, <2>4, FS_Subset
  <2> QED BY <1>1, <2>2, <2>5, <2>6
<1> HIDE DEF Below
<1> QED BY <1>1, <1>2, <1>3, <1>4, <1>5

\* The first n keys are n, if there are so many, or all.
LEMMA TakeCount ==
  ASSUME NEW S, IsFiniteSet(S), S \subseteq Nat, NEW n \in Nat
  PROVE  /\ n <= Cardinality(S) => Cardinality(Take(S, n)) = n
         /\ Cardinality(S) <= n => Take(S, n) = S
<1>1. /\ Cardinality(S) \in Nat
      /\ \A k \in S : k \in Nat /\ Rank(S, k) \in Nat /\ Rank(S, k) < Cardinality(S)
  BY RankIs, FS_CardinalityType
<1>2. Cardinality(S) <= n => Take(S, n) = S
  <2>1. Cardinality(S) <= n => \A k \in S : Rank(S, k) < n
    BY <1>1
  <2> QED BY <2>1 DEF Take
<1> DEFINE Wrong == {i \in Nat : i <= Cardinality(S) /\ Cardinality(Take(S, i)) # i}
<1>3. Wrong = {}
  <2>1. SUFFICES ASSUME Wrong # {} PROVE FALSE
    OBVIOUS
  <2>2. PICK b \in Wrong : \A i \in Wrong : b <= i
    <3>1. Wrong \subseteq Nat
      OBVIOUS
    <3> HIDE DEF Wrong
    <3> QED BY <2>1, <3>1, Least
  <2>3. b \in Nat /\ b <= Cardinality(S) /\ Cardinality(Take(S, b)) # b
    OBVIOUS
  <2>4. CASE b = 0
    <3>1. Take(S, 0) = {}
      <4>1. \A k \in S : ~(Rank(S, k) < 0)
        BY <1>1
      <4> QED BY <4>1 DEF Take
    <3> QED BY <2>3, <2>4, <3>1, FS_EmptySet
  <2>5. CASE b # 0
    <3> DEFINE m == b - 1
               T == Take(S, m)
    <3>1. m \in Nat /\ b = m + 1 /\ m < Cardinality(S) /\ ~(b <= m)
      BY <1>1, <2>3, <2>5
    <3>2. Cardinality(T) = m
      BY <1>1, <2>2, <3>1
    <3>3. T \subseteq S /\ IsFiniteSet(T)
      <4>1. T \in SUBSET S
        BY DEF Take
      <4> QED BY <4>1, FS_Subset
    <3> HIDE DEF m
    <3>4. S \ T # {}
      BY <1>1, <3>1, <3>2, <3>3
    <3>5. PICK x \in S \ T : \A y \in S \ T : x <= y
      BY <3>4, Least
    <3>6. x \in S /\ x \in Nat /\ Rank(S, x) >= m
      BY <1>1, <3>1, <3>5 DEF Take
    <3>7. {j \in S : j < x} = T
      <4>1. ASSUME NEW j \in S, j < x PROVE j \in T
        BY <3>5, <3>6, <4>1
      <4>2. ASSUME NEW j \in T PROVE j \in S /\ j < x
        <5>1. j \in S /\ j \in Nat /\ Rank(S, j) < m
          BY DEF Take
        <5>2. x <= j => Rank(S, x) <= Rank(S, j)
          BY <3>6, <5>1, RankIs
        <5> QED BY <1>1, <3>1, <3>6, <5>1, <5>2
      <4> QED BY <4>1, <4>2, <3>3
    <3>8. Rank(S, x) = m
      BY <3>2, <3>7 DEF Rank
    <3>9. Take(S, b) = T \cup {x}
      <4>1. ASSUME NEW y \in S, Rank(S, y) < b, y # x PROVE y \in T
        <5>1. Rank(S, y) \in Nat /\ y \in Nat /\ (x < y => Rank(S, x) < Rank(S, y))
          BY <1>1, <3>6, RankIs
        <5>2. y < x
          BY <3>1, <3>6, <3>8, <4>1, <5>1
        <5> QED BY <3>7, <5>2
      <4>2. \A y \in T : y \in S /\ Rank(S, y) < b
        BY <1>1, <3>1, <3>3 DEF Take
      <4>3. x \in Take(S, b)
        BY <3>1, <3>6, <3>8 DEF Take
      <4> QED BY <4>1, <4>2, <4>3 DEF Take
    <3>10. Cardinality(T \cup {x}) = m + 1
      BY <3>2, <3>3, <3>5, FS_AddElement
    <3> QED BY <2>3, <3>1, <3>9, <3>10
  <2> QED BY <2>4, <2>5
<1>4. n <= Cardinality(S) => n \notin Wrong
  BY <1>3
<1> QED BY <1>2, <1>4

\* A key keeps its place among those that are left when some have been dropped.
LEMMA DropRank ==
  ASSUME NEW S, IsFiniteSet(S), S \subseteq Nat, NEW n \in Nat, NEW k \in Drop(S, n)
  PROVE  Rank(Drop(S, n), k) = Rank(S, k) - n
<1> DEFINE Below == {j \in S : j < k}
           T == Take(S, n)
<1>1. k \in S /\ k \in Nat /\ Rank(S, k) >= n /\ Rank(S, k) \in Nat /\ Rank(S, k) <= Cardinality(S)
      /\ Cardinality(S) \in Nat /\ \A j \in S : j \in Nat /\ Rank(S, j) \in Nat
  BY RankIs DEF Drop
<1>2. T \in SUBSET Below
  <2>1. SUFFICES ASSUME NEW j \in T PROVE j \in Below
    OBVIOUS
  <2>2. j \in S /\ j \in Nat /\ Rank(S, j) < n
    BY DEF Take
  <2>3. k <= j => Rank(S, k) <= Rank(S, j)
    BY <1>1, <2>2, RankIs
  <2> QED BY <1>1, <2>2, <2>3
<1>3. {j \in Drop(S, n) : j < k} = Below \ T
  <2>1. \A j \in S : Rank(S, j) >= n <=> ~(Rank(S, j) < n)
    BY <1>1
  <2> QED BY <2>1 DEF Drop, Take
<1>4. Cardinality(T) = n
  <2>1. n <= Cardinality(S)
    BY <1>1
  <2> QED BY <2>1, TakeCount
<1>5. IsFiniteSet(Below) /\ Cardinality(Below) = Rank(S, k)
  BY FS_Subset DEF Rank
<1>6. IsFiniteSet(T) /\ Below \cap T = T
  BY <1>2, <1>5, FS_Subset
<1> HIDE DEF Below, T
<1>7. Cardinality(Below \ T) = Cardinality(Below) - Cardinality(Below \cap T)
  BY <1>5, <1>6, FS_Difference
<1> QED BY <1>3, <1>4, <1>5, <1>6, <1>7 DEF Rank

IsScan(req) ==
  /\ req.from \in Nat /\ req.to \in Nat /\ req.beg \in BOOLEAN
  /\ req.offset \in Nat /\ req.limit \in Nat

Within(K, req) == {k \in K : k >= req.from /\ (req.to = Nothing \/ k <= req.to)}
Start(req) == IF req.beg THEN req.offset ELSE req.offset + 1

\* A page is a part of the keys that are asked for: those at the places that the
\* offset and the limit say.
LEMMA FieldsAre ==
  ASSUME NEW K, IsFiniteSet(K), K \subseteq Nat, NEW req, IsScan(req)
  PROVE  LET W == Within(K, req)
             n == Start(req)
         IN  /\ W \subseteq Nat /\ IsFiniteSet(W) /\ n \in Nat
             /\ Fields(K, req) = {k \in W : n <= Rank(W, k) /\ Rank(W, k) < n + req.limit}
             /\ WithinEnd(Seek(K, req), req.to) = Drop(W, n)
<1> DEFINE W == Within(K, req)
           n == Start(req)
           F == {k \in K : k >= req.from}
           V == WithinEnd(Drop(F, n), req.to)
<1>1. n \in Nat /\ req.limit \in Nat /\ req.to \in Nat
  BY DEF IsScan, Start
<1>2. /\ F \subseteq Nat /\ IsFiniteSet(F) /\ W \subseteq Nat /\ IsFiniteSet(W) /\ W \subseteq F
      /\ \A k \in F : k \in W <=> req.to = Nothing \/ k <= req.to
  <2>1. F \in SUBSET K /\ W \in SUBSET K
    BY DEF Within
  <2>2. IsFiniteSet(F) /\ IsFiniteSet(W)
    BY <2>1, FS_Subset
  <2> QED BY <2>1, <2>2 DEF Within
<1>3. Seek(K, req) = Drop(F, n)
  BY DEF Seek, Start
<1> HIDE DEF F, W, n
<1>4. ASSUME NEW k \in W PROVE Rank(W, k) = Rank(F, k)
  <2>1. \A j \in F : j \in Nat /\ k \in Nat
    BY <1>2
  <2>2. \A j \in F : j < k => j \in W
    BY <1>1, <1>2, <1>4, <2>1
  <2>3. {j \in F : j < k} = {j \in W : j < k}
    BY <1>2, <2>2
  <2> QED BY <2>3 DEF Rank
<1>5. V = Drop(W, n)
  <2>1. \A k \in V : k \in F /\ k \in W /\ Rank(F, k) >= n
    BY <1>2 DEF WithinEnd, Drop
  <2>2. \A k \in Drop(W, n) : k \in F /\ k \in W /\ Rank(W, k) >= n
    BY <1>2 DEF Drop
  <2>3. \A k \in V : k \in Drop(W, n)
    BY <1>4, <2>1 DEF Drop
  <2>4. \A k \in Drop(W, n) : k \in V
    BY <1>2, <1>4, <2>2 DEF WithinEnd, Drop
  <2> QED BY <2>3, <2>4
<1>6. Fields(K, req) = Take(Drop(W, n), req.limit)
  BY <1>3, <1>5 DEF Fields
<1>7. ASSUME NEW k \in W
      PROVE  k \in Take(Drop(W, n), req.limit) <=> n <= Rank(W, k) /\ Rank(W, k) < n + req.limit
  <2>1. k \in Nat /\ Rank(W, k) \in Nat
    BY <1>2, RankIs
  <2>2. CASE k \in Drop(W, n)
    <3>1. Rank(Drop(W, n), k) = Rank(W, k) - n /\ n <= Rank(W, k)
      BY <1>1, <1>2, <2>1, <2>2, DropRank DEF Drop
    <3> QED BY <1>1, <2>1, <2>2, <3>1 DEF Take
  <2>3. CASE k \notin Drop(W, n)
    <3>1. ~(n <= Rank(W, k))
      BY <1>1, <2>1, <2>3 DEF Drop
    <3> QED BY <2>3, <3>1 DEF Take
  <2> QED BY <2>2, <2>3
<1>8. Take(Drop(W, n), req.limit) \subseteq W
  BY DEF Take, Drop
<1>9. Fields(K, req) = {k \in W : n <= Rank(W, k) /\ Rank(W, k) < n + req.limit}
  BY <1>6, <1>7, <1>8
<1> QED BY <1>1, <1>2, <1>3, <1>5, <1>9 DEF W, n

\* There is one way to put numbers in order, and it puts each at its rank.
Ordered(S) == {s \in [1..Cardinality(S) -> S] : \A i, j \in DOMAIN s : i < j => s[i] < s[j]}

LEMMA OrderExists == ASSUME NEW S, IsFiniteSet(S), S \subseteq Nat PROVE Ordered(S) # {}
<1> DEFINE n == Cardinality(S)
<1>1. n \in Nat /\ \A k \in S : k \in Nat /\ Rank(S, k) \in Nat
  BY RankIs, FS_CardinalityType
<1>2. ASSUME NEW i \in 1..n PROVE \E k \in S : Rank(S, k) = i - 1
  <2>1. i \in Nat /\ i - 1 \in Nat /\ i <= n /\ i - 1 <= n
    BY <1>1
  <2>2. Cardinality(Take(S, i)) = i /\ Cardinality(Take(S, i - 1)) = i - 1
    BY <2>1, TakeCount
  <2>3. \E k \in Take(S, i) : k \notin Take(S, i - 1)
    <3>1. SUFFICES ASSUME \A k \in Take(S, i) : k \in Take(S, i - 1) PROVE FALSE
      OBVIOUS
    <3>2. \A k \in S : Rank(S, k) < i - 1 => Rank(S, k) < i
      BY <1>1, <2>1
    <3>3. \A k \in Take(S, i - 1) : k \in Take(S, i)
      BY <3>2 DEF Take
    <3>4. Take(S, i) = Take(S, i - 1)
      BY <3>1, <3>3
    <3> QED BY <2>1, <2>2, <3>4
  <2>4. PICK k \in S : Rank(S, k) < i /\ ~(Rank(S, k) < i - 1)
    BY <2>3 DEF Take
  <2> QED BY <1>1, <2>1, <2>4
<1> DEFINE f == [i \in 1..n |-> CHOOSE k \in S : Rank(S, k) = i - 1]
<1>3. \A i \in 1..n : f[i] \in S /\ Rank(S, f[i]) = i - 1
  BY <1>2
<1>4. f \in [1..n -> S] /\ DOMAIN f = 1..n
  BY <1>3
<1> HIDE DEF f
<1>5. ASSUME NEW i \in 1..n, NEW j \in 1..n, i < j PROVE f[i] < f[j]
  <2>1. f[i] \in Nat /\ f[j] \in Nat /\ f[i] \in S /\ f[j] \in S
    BY <1>1, <1>3
  <2>2. f[j] <= f[i] => Rank(S, f[j]) <= Rank(S, f[i])
    BY <2>1, RankIs
  <2> QED BY <1>1, <1>3, <1>5, <2>1, <2>2
<1>6. f \in Ordered(S)
  BY <1>4, <1>5 DEF Ordered
<1> QED BY <1>6

LEMMA OrderRanks ==
  ASSUME NEW S, IsFiniteSet(S), S \subseteq Nat, NEW s \in Ordered(S)
  PROVE  /\ DOMAIN s = 1..Cardinality(S) /\ Cardinality(S) \in Nat
         /\ \A i \in DOMAIN s : s[i] \in S /\ Rank(S, s[i]) = i - 1
         /\ \A k \in S : Rank(S, k) + 1 \in DOMAIN s /\ s[Rank(S, k) + 1] = k
<1> DEFINE n == Cardinality(S)
<1>1. n \in Nat /\ \A k \in S : k \in Nat /\ Rank(S, k) \in Nat /\ Rank(S, k) < n
  BY RankIs, FS_CardinalityType
<1>2. s \in [1..n -> S] /\ DOMAIN s = 1..n /\ \A i, j \in 1..n : i < j => s[i] < s[j]
  BY DEF Ordered
<1>3. \A i \in 1..n : s[i] \in S /\ s[i] \in Nat /\ Rank(S, s[i]) \in Nat /\ Rank(S, s[i]) < n
  BY <1>1, <1>2
<1>4. ASSUME NEW i \in 1..n, NEW j \in 1..n, i < j PROVE Rank(S, s[i]) < Rank(S, s[j])
  <2>1. s[i] < s[j] /\ s[i] \in S /\ s[j] \in Nat
    BY <1>2, <1>3, <1>4
  <2> QED BY <2>1, RankIs
<1> HIDE DEF n
<1>5. \A i \in 1..n : Rank(S, s[i]) >= i - 1
  <2> DEFINE Wrong == {i \in 1..n : ~(Rank(S, s[i]) >= i - 1)}
  <2>1. SUFFICES ASSUME Wrong # {} PROVE FALSE
    OBVIOUS
  <2>2. PICK i \in Wrong : \A j \in Wrong : i <= j
    <3>1. Wrong \subseteq Nat
      BY <1>1
    <3> HIDE DEF Wrong
    <3> QED BY <2>1, <3>1, Least
  <2>3. i \in 1..n /\ i \in Nat /\ ~(Rank(S, s[i]) >= i - 1) /\ Rank(S, s[i]) \in Nat
    BY <1>1, <1>3
  <2>4. i # 1
    BY <2>3
  <2>5. i - 1 \in 1..n /\ i - 1 < i
    BY <1>1, <2>3, <2>4
  <2>6. ~(i <= i - 1)
    BY <2>3
  <2>7. Rank(S, s[i - 1]) >= i - 2
    BY <2>2, <2>3, <2>5, <2>6
  <2>8. Rank(S, s[i - 1]) < Rank(S, s[i]) /\ Rank(S, s[i - 1]) \in Nat
    BY <1>3, <1>4, <2>3, <2>5
  <2> QED BY <2>3, <2>7, <2>8
<1>6. \A i \in 1..n : Rank(S, s[i]) <= i - 1
  <2> DEFINE Wrong == {m \in 0..(n - 1) : ~(Rank(S, s[n - m]) <= n - m - 1)}
  <2>1. Wrong = {}
    <3>1. SUFFICES ASSUME Wrong # {} PROVE FALSE
      OBVIOUS
    <3>2. PICK m \in Wrong : \A j \in Wrong : m <= j
      <4>1. Wrong \subseteq Nat
        BY <1>1
      <4> HIDE DEF Wrong
      <4> QED BY <3>1, <4>1, Least
    <3>3. m \in 0..(n - 1) /\ m \in Nat /\ ~(Rank(S, s[n - m]) <= n - m - 1) /\ n - m \in 1..n
      BY <1>1
    <3>4. Rank(S, s[n - m]) \in Nat /\ Rank(S, s[n - m]) < n
      BY <1>3, <3>3
    <3>5. m # 0
      BY <1>1, <3>3, <3>4
    <3>6. m - 1 \in 0..(n - 1) /\ ~(m <= m - 1) /\ n - (m - 1) = n - m + 1
      BY <1>1, <3>3, <3>5
    <3>7. m - 1 \notin Wrong
      BY <3>2, <3>6
    <3>8. Rank(S, s[n - (m - 1)]) <= n - (m - 1) - 1
      BY <3>6, <3>7
    <3>9. n - (m - 1) \in 1..n /\ n - m < n - (m - 1)
      BY <1>1, <3>3, <3>6
    <3>10. Rank(S, s[n - m]) < Rank(S, s[n - (m - 1)]) /\ Rank(S, s[n - (m - 1)]) \in Nat
      BY <1>3, <1>4, <3>3, <3>9
    <3> QED BY <1>1, <3>3, <3>4, <3>8, <3>10
  <2>2. SUFFICES ASSUME NEW i \in 1..n PROVE Rank(S, s[i]) <= i - 1
    OBVIOUS
  <2>3. n - i \in 0..(n - 1) /\ n - (n - i) = i
    BY <1>1
  <2>4. Rank(S, s[n - (n - i)]) <= n - (n - i) - 1
    BY <2>1, <2>3
  <2> QED BY <2>3, <2>4
<1>7. \A i \in 1..n : Rank(S, s[i]) = i - 1
  BY <1>1, <1>3, <1>5, <1>6
<1>8. ASSUME NEW k \in S PROVE Rank(S, k) + 1 \in 1..n /\ s[Rank(S, k) + 1] = k
  <2> DEFINE i == Rank(S, k) + 1
  <2>1. i \in 1..n /\ i - 1 = Rank(S, k) /\ k \in Nat
    BY <1>1
  <2> HIDE DEF i
  <2>2. Rank(S, s[i]) = Rank(S, k) /\ s[i] \in S /\ s[i] \in Nat /\ Rank(S, k) \in Nat
    BY <1>1, <1>3, <1>7, <2>1
  <2>3. s[i] < k => Rank(S, s[i]) < Rank(S, k)
    BY <2>1, <2>2, RankIs
  <2>4. k < s[i] => Rank(S, k) < Rank(S, s[i])
    BY <2>2, RankIs
  <2>5. s[i] = k
    BY <2>1, <2>2, <2>3, <2>4
  <2> QED BY <2>1, <2>5 DEF i
<1> QED BY <1>1, <1>2, <1>3, <1>7, <1>8 DEF n

\* What a page that says that it is the last leaves of the keys asked for.
LEMMA FinLeaves ==
  ASSUME NEW K, IsFiniteSet(K), K \subseteq Nat, NEW req, IsScan(req), Fin(K, {}, req),
         NEW f \in Fields(K, req), \A j \in Fields(K, req) : j <= f
  PROVE  LET left == {k \in K : k > f /\ (req.to = Nothing \/ k <= req.to)}
         IN  /\ Cardinality(left) <= 1
             /\ left # {} => Cardinality(Fields(K, req)) = req.limit
<1> DEFINE P == Fields(K, req)
           W == Within(K, req)
           n == Start(req)
           V == Drop(W, n)
           F == {k \in K : k >= req.from}
           left == {k \in K : k > f /\ (req.to = Nothing \/ k <= req.to)}
<1>1. /\ W \subseteq Nat /\ IsFiniteSet(W) /\ n \in Nat /\ WithinEnd(Seek(K, req), req.to) = V
      /\ P = {k \in W : n <= Rank(W, k) /\ Rank(W, k) < n + req.limit}
  BY FieldsAre
<1>2. V \subseteq Nat /\ IsFiniteSet(V) /\ P = Take(V, req.limit) /\ V \subseteq Seek(K, req)
  <2>1. V \in SUBSET W
    BY DEF Drop
  <2>2. P = Take(V, req.limit)
    BY <1>1 DEF Fields
  <2>3. V \subseteq Seek(K, req)
    BY <1>1 DEF WithinEnd
  <2> QED BY <1>1, <2>1, <2>2, <2>3, FS_Subset
<1>3. req.limit \in Nat /\ req.from \in Nat /\ req.to \in Nat
  BY DEF IsScan
<1>4. /\ Seek(K, req) \subseteq Nat /\ IsFiniteSet(Seek(K, req)) /\ Seek(K, req) = Drop(F, n)
      /\ F \subseteq Nat /\ IsFiniteSet(F)
  <2>1. Seek(K, req) = Drop(F, n)
    BY DEF Seek, Start
  <2>2. F \in SUBSET K /\ Drop(F, n) \in SUBSET K
    BY DEF Drop
  <2> QED BY <2>1, <2>2, FS_Subset
<1>5. f \in W /\ f \in V /\ f \in F /\ f \in Nat /\ Rank(F, f) >= n
  <2>1. f \in V
    BY <1>2 DEF Take
  <2>2. f \in W /\ f \in Seek(K, req)
    BY <1>2, <2>1 DEF Drop
  <2> QED BY <1>1, <1>4, <2>1, <2>2 DEF Drop
<1> HIDE DEF P, W, n, V, F
<1>6. ASSUME NEW k \in left PROVE k \in V /\ k \in Nat /\ k \notin P /\ \A j \in P : j < k
  <2>1. k \in K /\ k \in Nat /\ k > f /\ (req.to = Nothing \/ k <= req.to)
    OBVIOUS
  <2>2. k \in F
    BY <1>3, <1>5, <2>1 DEF F
  <2>7. f \in Nat /\ f <= k
    BY <1>5, <2>1
  <2>8. Rank(F, f) \in Nat
    BY <1>4, <2>7, RankIs
  <2>3. Rank(F, f) \in Nat /\ Rank(F, k) \in Nat /\ Rank(F, f) <= Rank(F, k)
    BY <1>4, <2>1, <2>7, <2>8, RankIs
  <2>4. k \in Seek(K, req)
    BY <1>1, <1>4, <1>5, <2>2, <2>3 DEF Drop
  <2>5. k \in V
    BY <1>1, <2>1, <2>4 DEF WithinEnd
  <2>6. \A j \in P : j \in Nat
    BY <1>1
  <2> QED BY <1>5, <2>1, <2>5, <2>6 DEF P
<1>7. IsFiniteSet(P) /\ P \subseteq V /\ Cardinality(P) \in Nat
  <2>1. P \in SUBSET V
    BY <1>2 DEF Take
  <2> QED BY <1>2, <2>1, FS_Subset, FS_CardinalityType
<1>8. ASSUME NEW k \in left PROVE Cardinality(P) = req.limit
  <2>1. /\ Rank(V, k) \in Nat /\ Rank(V, k) >= req.limit
        /\ Rank(V, k) <= Cardinality(V) /\ Cardinality(V) \in Nat
    <3>1. Rank(V, k) \in Nat /\ Rank(V, k) <= Cardinality(V) /\ Cardinality(V) \in Nat
      BY <1>2, <1>6, RankIs
    <3>2. ~(Rank(V, k) < req.limit)
      BY <1>2, <1>6 DEF Take
    <3> QED BY <1>3, <3>1, <3>2
  <2>2. req.limit <= Cardinality(V)
    BY <1>3, <2>1
  <2> QED BY <1>2, <1>3, <2>2, TakeCount
<1>9. Cardinality(left) <= 1
  <2>1. CASE left = {}
    BY <2>1, FS_EmptySet
  <2>2. CASE left # {}
    <3>1. Cardinality(P) = req.limit
      BY <1>8, <2>2
    <3>2. Cardinality(Rest(K, req)) <= 1
      BY <1>3, <3>1 DEF Fin, P
    <3>3. left \in SUBSET Rest(K, req)
      <4>1. SUFFICES ASSUME NEW k \in left PROVE k \in Rest(K, req)
        OBVIOUS
      <4>2. k \in Seek(K, req) /\ k \in Nat
        BY <1>2, <1>6
      <4>3. P \in SUBSET {j \in Seek(K, req) : j < k}
        BY <1>2, <1>6, <1>7
      <4>4. {j \in Seek(K, req) : j < k} \in SUBSET Seek(K, req)
        OBVIOUS
      <4>5. Cardinality(P) <= Rank(Seek(K, req), k)
        BY <1>4, <4>3, <4>4, FS_Subset DEF Rank
      <4>6. Rank(Seek(K, req), k) \in Nat
        BY <1>4, <4>2, RankIs
      <4> QED BY <1>7, <4>2, <4>5, <4>6 DEF Rest, Drop, P
    <3>4. IsFiniteSet(Rest(K, req))
      <4>1. Rest(K, req) \in SUBSET Seek(K, req)
        BY DEF Rest, Drop
      <4> QED BY <1>4, <4>1, FS_Subset
    <3>5. Cardinality(left) <= Cardinality(Rest(K, req)) /\ Cardinality(left) \in Nat
          /\ Cardinality(Rest(K, req)) \in Nat
      BY <3>3, <3>4, FS_Subset, FS_CardinalityType
    <3> QED BY <3>2, <3>5
  <2> QED BY <2>1, <2>2
<1> QED BY <1>8, <1>9 DEF P

\* A finite set of numbers that is not empty has a greatest one.
LEMMA MaxIs ==
  ASSUME NEW S, IsFiniteSet(S), S \subseteq Nat, S # {}
  PROVE  Max(S) \in S /\ \A k \in S : k <= Max(S)
<1>1. PICK s \in Ordered(S) : TRUE
  BY OrderExists
<1> DEFINE n == Cardinality(S)
<1>2. /\ DOMAIN s = 1..n /\ n \in Nat /\ n # 0
      /\ \A i \in 1..n : s[i] \in S
      /\ \A k \in S : Rank(S, k) + 1 \in 1..n /\ s[Rank(S, k) + 1] = k
      /\ \A i, j \in 1..n : i < j => s[i] < s[j]
  <2>1. n # 0
    BY FS_EmptySet
  <2>2. \A i, j \in DOMAIN s : i < j => s[i] < s[j]
    BY DEF Ordered
  <2> QED BY <2>1, <2>2, OrderRanks
<1> HIDE DEF n
<1>3. s[n] \in S /\ n \in 1..n
  BY <1>2
<1>4. ASSUME NEW k \in S PROVE s[n] >= k
  <2>1. k \in Nat /\ s[n] \in Nat
    BY <1>3
  <2>2. CASE Rank(S, k) + 1 = n
    BY <1>2, <2>1, <2>2
  <2>3. CASE Rank(S, k) + 1 # n
    <3>1. Rank(S, k) + 1 < n
      BY <1>2, <2>3
    <3> QED BY <1>2, <1>3, <2>1, <3>1
  <2> QED BY <2>2, <2>3
<1>5. Max(S) \in S /\ \A k \in S : Max(S) >= k
  BY <1>3, <1>4, Zenon DEF Max
<1>6. \A k \in S : k \in Nat
  OBVIOUS
<1> QED BY <1>5, <1>6
-----------------------------------------------------------------------------
(* The wire. *)

\* What is lost in the JSON: noval, of four methods.
LEMMA WireIs ==
  ASSUME NEW m \in Methods
  PROVE  /\ Calls[m] = Invokes[m] /\ Calls[m].answer = Api[m].answer
         /\ Calls[m].request =
              Api[m].request \ (IF m \in {"get", "has", "inc", "packed"} THEN {"noval"} ELSE {})
<1>1. Methods = {"set", "setnx", "del", "inc", "add", "packed", "get", "has", "range",
                 "repair_json", "get_updates_since", "get_all_prefixes", "create_snapshot",
                 "release_snapshot", "compact_prefix", "detach_prefixes", "attach_prefixes",
                 "delay_background", "continue_background"}
  BY DEF Methods, Api
<1>2. Calls[m] = Invokes[m]
  BY DEF Calls, Invokes
<1>3. /\ Api["set"] = SetApi /\ Api["setnx"] = SetnxApi /\ Api["del"] = DelApi
      /\ Api["inc"] = IncApi /\ Api["add"] = AddApi /\ Api["packed"] = PackedApi
      /\ Api["get"] = GetApi /\ Api["has"] = HasApi /\ Api["range"] = RangeApi
      /\ Api["repair_json"] = RepairApi /\ Api["get_updates_since"] = GetUpdatesSinceApi
      /\ Api["get_all_prefixes"] = GetAllPrefixesApi
      /\ Api["create_snapshot"] = CreateSnapshotApi
      /\ Api["release_snapshot"] = ReleaseSnapshotApi
      /\ Api["compact_prefix"] = CompactPrefixApi /\ Api["detach_prefixes"] = DetachPrefixesApi
      /\ Api["attach_prefixes"] = AttachPrefixesApi
      /\ Api["delay_background"] = DelayBackgroundApi
      /\ Api["continue_background"] = ContinueBackgroundApi
  BY DEF Api
<1>4. /\ Calls["set"] = SetJson /\ Calls["setnx"] = SetnxJson /\ Calls["del"] = DelJson
      /\ Calls["inc"] = IncJson /\ Calls["add"] = AddJson /\ Calls["packed"] = PackedJson
      /\ Calls["get"] = GetJson /\ Calls["has"] = HasJson /\ Calls["range"] = RangeJson
      /\ Calls["repair_json"] = RepairJson /\ Calls["get_updates_since"] = GetUpdatesSinceJson
      /\ Calls["get_all_prefixes"] = GetAllPrefixesJson
      /\ Calls["create_snapshot"] = CreateSnapshotJson
      /\ Calls["release_snapshot"] = ReleaseSnapshotJson
      /\ Calls["compact_prefix"] = CompactPrefixJson
      /\ Calls["detach_prefixes"] = DetachPrefixesJson
      /\ Calls["attach_prefixes"] = AttachPrefixesJson
      /\ Calls["delay_background"] = DelayBackgroundJson
      /\ Calls["continue_background"] = ContinueBackgroundJson
  BY DEF Calls
<1>5. /\ SetApi = SetJson /\ SetnxApi = SetnxJson /\ DelApi = DelJson /\ AddApi = AddJson
      /\ RangeApi = RangeJson /\ RepairApi = RepairJson
      /\ GetUpdatesSinceApi = GetUpdatesSinceJson /\ GetAllPrefixesApi = GetAllPrefixesJson
      /\ CreateSnapshotApi = CreateSnapshotJson /\ ReleaseSnapshotApi = ReleaseSnapshotJson
      /\ CompactPrefixApi = CompactPrefixJson /\ DetachPrefixesApi = DetachPrefixesJson
      /\ AttachPrefixesApi = AttachPrefixesJson /\ DelayBackgroundApi = DelayBackgroundJson
      /\ ContinueBackgroundApi = ContinueBackgroundJson
  BY DEF SetApi, SetJson, SetnxApi, SetnxJson, DelApi, DelJson, AddApi, AddJson, RangeApi,
         RangeJson, RepairApi, RepairJson, GetUpdatesSinceApi, GetUpdatesSinceJson,
         GetAllPrefixesApi, GetAllPrefixesJson, CreateSnapshotApi, CreateSnapshotJson,
         ReleaseSnapshotApi, ReleaseSnapshotJson, CompactPrefixApi, CompactPrefixJson,
         DetachPrefixesApi, DetachPrefixesJson, AttachPrefixesApi, AttachPrefixesJson,
         DelayBackgroundApi, DelayBackgroundJson, ContinueBackgroundApi, ContinueBackgroundJson
<1>6. /\ GetJson.request = GetApi.request \ {"noval"} /\ GetJson.answer = GetApi.answer
      /\ HasJson.request = HasApi.request \ {"noval"} /\ HasJson.answer = HasApi.answer
      /\ IncJson.request = IncApi.request \ {"noval"} /\ IncJson.answer = IncApi.answer
      /\ PackedJson.request = PackedApi.request \ {"noval"} /\ PackedJson.answer = PackedApi.answer
  BY DEF GetApi, GetJson, HasApi, HasJson, IncApi, IncJson, PackedApi, PackedJson
<1>7. CASE m \in {"get", "has", "inc", "packed"}
  BY <1>2, <1>3, <1>4, <1>6, <1>7
<1>8. CASE m \notin {"get", "has", "inc", "packed"}
  <2>1. Calls[m] = Api[m]
    BY <1>1, <1>3, <1>4, <1>5, <1>8
  <2> QED BY <1>2, <1>8, <2>1
<1> QED BY <1>7, <1>8

USE BoundsAssumption, WordAssumption, LimitsAssumption
USE DEF Over
-----------------------------------------------------------------------------
(* What is so of every request, from when it is read. *)

Refusals ==
  {"EmptyFields", "EmptyPrefix", "PrefixReadonly", "PrefixLengthExceeded", "TooManyKeys",
   "KeyLengthExceeded", "ValueLengthExceeded", "RangeLimitExceeded"}
Failures == Refusals \cup {"CreatePrefixFail", "PrefixNotFound", "CompactFail"}
Sayable == Failures \cup {"OK"} \cup (IF suspended THEN {"null"} ELSE {})

Checks == {"gate", "empty", "prefix", "writable", "length", "count", "sizes", "route"}
Later == (Checks \ {"gate"}) \cup {"range"}
IsWrite == asked.kind \in {"set", "del"}

\* Of the request itself, whoever made it.
WriteIs ==
  /\ conf.key_size \in Nat /\ conf.value_size \in Nat
  /\ \A i \in DOMAIN asked.fields : asked.fields[i].key \in Nat /\ asked.fields[i].value \in Nat
RangeIs ==
  /\ asked.from \in Nat /\ asked.to \in Nat /\ asked.beg \in BOOLEAN
  /\ asked.offset \in Nat /\ asked.limit \in Nat /\ asked.stat \in BOOLEAN
Asked ==
  /\ asked.cb \in BOOLEAN /\ asked.kind \in {"set", "del", "range", "one", "all"}
  /\ IsWrite => WriteIs
  /\ asked.kind = "range" => RangeIs

\* The way of each kind of request.
Way ==
  /\ IsWrite => pc \in Checks \cup {"over"}
  /\ asked.kind = "range" => pc \in {"gate", "range", "route", "over"}
  /\ asked.kind = "one" => pc \in {"gate", "route", "over"}
  /\ asked.kind = "all" => pc \in {"gate", "all", "over"}

\* What was answered so far: no OK before the end, and nothing to a request that still
\* has its prefix, or is yet to be handed to every one.
Told ==
  /\ answers \in Seq(Sayable)
  /\ ~asked.cb => answers = <<>>
  /\ pc # "over" =>
       /\ ~done
       /\ prefix # NoPrefix \/ pc \in {"gate", "all"} => answers = <<>>
       /\ answers # <<>> => Head(answers) # "OK"
  /\ pc = "over" /\ asked.cb =>
       /\ answers # <<>>
       /\ asked.kind # "all" => (done <=> Head(answers) = "OK")
       /\ asked.kind = "all" /\ done /\ asked.op # "attach_prefixes" => Head(answers) = "OK"

\* A write that may still be carried out has passed the checks before the next one;
\* one that has been answered has no prefix.
Intact ==
  /\ prefix \in {asked.prefix, NoPrefix}
  /\ pc # "over" /\ (~asked.cb \/ prefix # NoPrefix) => answers = <<>>

\* What the checks before the next one have found right, of a write not refused.
PassedChecks ==
  pc # "over" /\ prefix # NoPrefix =>
    /\ pc \notin {"gate", "empty"} => asked.fields # <<>>
    /\ asked.kind = "del" => pc \in {"gate", "empty", "writable", "route"}
    /\ pc \in {"length", "count", "sizes", "route"} => writable
    /\ asked.kind = "set" =>
         /\ pc \in {"count", "sizes", "route"} => ~Exceeded(asked.prefix, conf.prefix_size)
         /\ pc \in {"sizes", "route"} => ~Exceeded(Len(asked.fields), conf.keys_per_req)
         /\ pc = "route" => Fits

Checked == IsWrite => Intact /\ PassedChecks /\ RefusedIsNotDone

\* The page is that of the request, on the keys that there are.
PageIs == Paged => res = PageOf(asked)

ReqInv == Asked /\ Way /\ Told /\ Checked /\ PageIs
-----------------------------------------------------------------------------
(* The steps of a request in the process. *)

\* No step changes what was asked.
LEMMA NextKeepsState ==
  ASSUME Next \/ RouteAll \/ UNCHANGED vars PROVE UNCHANGED state
BY DEF Next, RouteAll, vars, state, Gate, CheckEmpty, CheckPrefix, CheckWritable, CheckLength,
       CheckCount, CheckSizes, CheckRange, Route, Test, GoTo, Refuse

LEMMA AskedStays == ASSUME Asked, UNCHANGED state PROVE Asked' /\ Sayable' = Sayable
BY DEF Asked, IsWrite, WriteIs, RangeIs, state, Sayable

\* One more answer, and which is the first.
LEMMA SayMore ==
  ASSUME answers \in Seq(Sayable), NEW status \in Sayable
  PROVE  LET more == Append(answers, status)
         IN  /\ more \in Seq(Sayable) /\ more # <<>>
             /\ Head(more) = IF answers = <<>> THEN status ELSE Head(answers)
BY AppendProperties, HeadTailAppend

\* A check leads on, and lets the request keep its prefix only where it is right.
LEMMA TestKeeps ==
  ASSUME Asked, Told, PageIs, NEW check \in Later, NEW wrong \in BOOLEAN,
         NEW status \in Refusals, NEW ifWrong \in Later \cup {"over"}, NEW ifRight \in Later,
         Test(check, wrong, status, ifWrong, ifRight)
  PROVE  /\ Told' /\ PageIs' /\ ~done' /\ pc = check
         /\ pc' \in {ifWrong, ifRight, "over"}
         /\ pc' # "over" /\ prefix' # NoPrefix =>
              ~wrong /\ pc' = ifRight /\ prefix' = prefix
         /\ prefix' \in {prefix, NoPrefix}
         /\ pc' # "over" /\ (~asked.cb \/ prefix' # NoPrefix) => answers' = answers
<1>1. pc = check /\ pc # "over" /\ ~done /\ status \in Sayable /\ status # "OK" /\ asked.cb \in BOOLEAN
  BY DEF Test, Told, Sayable, Failures, Refusals, Asked, Later, Checks
<1>2. CASE wrong /\ asked.cb
  <2>1. /\ answers' = Append(answers, status) /\ prefix' = NoPrefix /\ pc' = ifWrong
        /\ UNCHANGED state /\ done' = done /\ res' = res
    BY <1>2 DEF Test, Refuse, Left
  <2>2. /\ answers' \in Seq(Sayable) /\ answers' # <<>> /\ Head(answers') # "OK"
    <3>1. answers \in Seq(Sayable) /\ (answers # <<>> => Head(answers) # "OK")
      BY <1>1 DEF Told, Test, Later, Checks
    <3> QED BY <1>1, <2>1, <3>1, SayMore
  <2>3. Sayable' = Sayable /\ asked' = asked
    BY <2>1, AskedStays DEF state
  <2>4. Told'
    BY <1>1, <1>2, <2>1, <2>2, <2>3 DEF Told, Later, Checks
  <2> QED BY <1>1, <1>2, <2>1, <2>3, <2>4 DEF PageIs, Paged
<1>3. CASE wrong /\ ~asked.cb
  <2>1. /\ answers' = answers /\ prefix' = prefix /\ pc' = "over"
        /\ UNCHANGED state /\ done' = done /\ res' = res
    BY <1>3 DEF Test, Refuse
  <2>3. Sayable' = Sayable /\ asked' = asked
    BY <2>1, AskedStays DEF state
  <2>4. Told'
    BY <1>1, <1>3, <2>1, <2>3 DEF Told, Later, Checks
  <2> QED BY <1>1, <1>3, <2>1, <2>3, <2>4 DEF PageIs, Paged
<1>4. CASE ~wrong
  <2>1. /\ answers' = answers /\ prefix' = prefix /\ pc' = ifRight
        /\ UNCHANGED state /\ done' = done /\ res' = res
    BY <1>4 DEF Test, GoTo
  <2>3. Sayable' = Sayable /\ asked' = asked
    BY <2>1, AskedStays DEF state
  <2>4. Told'
    BY <1>1, <1>4, <2>1, <2>3 DEF Told, Later, Checks
  <2> QED BY <1>1, <1>4, <2>1, <2>3, <2>4 DEF PageIs, Paged
<1> QED BY <1>1, <1>2, <1>3, <1>4

\* Every field fits where the sizes are not found wrong.
LEMMA RightSizesFit ==
  ASSUME WriteIs, ~Exceeded(Len(asked.fields), conf.keys_per_req),
         ~(conf.key_size # 0 /\ conf.value_size # 0 /\ WrongSizes # {})
  PROVE  Fits
<1> SUFFICES ASSUME conf.key_size # 0, conf.value_size # 0, NEW i \in DOMAIN asked.fields
             PROVE  asked.fields[i].key <= conf.key_size /\ asked.fields[i].value <= conf.value_size
  BY DEF Fits
<1>1. asked.fields[i].key \in Nat /\ asked.fields[i].value \in Nat
  BY DEF WriteIs
<1>2. ~TooLong(asked.fields[i])
  BY DEF WrongSizes
<1> QED BY <1>1, <1>2 DEF TooLong, WriteIs

\* What a check found right is among what the checks before the next one have.
LEMMA WriteKeeps ==
  ASSUME Asked, Way, IsWrite, Told, Checked, Told',
         Next \/ RouteAll \/ UNCHANGED vars,
         PageIs
  PROVE  Checked'
<1>0. /\ asked.cb \in BOOLEAN /\ WriteIs /\ Intact /\ PassedChecks /\ pc \in Checks \cup {"over"}
      /\ asked' = asked /\ conf' = conf /\ writable' = writable /\ opens' = opens
      /\ IsWrite'
  BY NextKeepsState DEF Asked, Way, Checked, state, IsWrite
<1>f. Fits' <=> Fits
  BY <1>0 DEF Fits
<1>s. SUFFICES Intact' /\ PassedChecks' /\ RefusedIsNotDone'
  BY DEF Checked
<1>t. ASSUME NEW check \in Later, NEW wrong \in BOOLEAN, NEW status \in Refusals,
             NEW ifWrong \in Later \cup {"over"}, NEW ifRight \in Later,
             Test(check, wrong, status, ifWrong, ifRight)
      PROVE  /\ Intact' /\ RefusedIsNotDone' /\ pc = check
             /\ pc' # "over" /\ prefix' # NoPrefix =>
                  ~wrong /\ pc' = ifRight /\ prefix' = prefix
  <2>1. /\ ~done' /\ pc = check /\ pc' \in {ifWrong, ifRight, "over"}
        /\ pc' # "over" /\ prefix' # NoPrefix =>
             ~wrong /\ pc' = ifRight /\ prefix' = prefix
        /\ prefix' \in {prefix, NoPrefix}
        /\ pc' # "over" /\ (~asked.cb \/ prefix' # NoPrefix) => answers' = answers
    BY <1>t, TestKeeps
  <2>2. pc # "over"
    BY <2>1 DEF Later, Checks
  <2> QED BY <1>0, <2>1, <2>2 DEF Intact, RefusedIsNotDone
<1> USE DEF Checks, Later, Refusals
<1>1. CASE UNCHANGED vars
  BY <1>0, <1>1, <1>f DEF vars, Intact, PassedChecks, RefusedIsNotDone, Checked
<1>2. CASE Gate
  <2>1. /\ pc = "gate" /\ prefix' = prefix /\ ~done /\ done' = done
        /\ pc' \in {"over", "empty"} /\ (pc' = "empty" => answers' = answers)
    BY <1>0, <1>2 DEF Gate, GoTo, Told, IsWrite
  <2> QED BY <1>0, <2>1 DEF Intact, PassedChecks, RefusedIsNotDone
<1>3. CASE CheckEmpty
  <2> DEFINE next == IF asked.kind = "del" THEN "writable" ELSE "prefix"
  <2>1. next \in Later
    OBVIOUS
  <2>2. /\ Intact' /\ RefusedIsNotDone'
        /\ pc' # "over" /\ prefix' # NoPrefix =>
             asked.fields # <<>> /\ pc' = next /\ prefix' = prefix
    BY <1>3, <1>t, <2>1 DEF CheckEmpty
  <2> QED BY <1>0, <2>2 DEF PassedChecks
<1>4. CASE CheckPrefix
  <2>1. /\ Intact' /\ RefusedIsNotDone' /\ pc = "prefix"
        /\ pc' # "over" /\ prefix' # NoPrefix => pc' = "writable" /\ prefix' = prefix
    BY <1>4, <1>t DEF CheckPrefix
  <2> QED BY <1>0, <2>1 DEF PassedChecks
<1>5. CASE CheckWritable
  <2>1. AfterWritable \in Later
    BY DEF AfterWritable
  <2>2. /\ Intact' /\ RefusedIsNotDone' /\ pc = "writable"
        /\ pc' # "over" /\ prefix' # NoPrefix =>
             writable /\ pc' = AfterWritable /\ prefix' = prefix
    <3>1. (~writable) \in BOOLEAN
      OBVIOUS
    <3> QED BY <1>5, <1>t, <2>1, <3>1 DEF CheckWritable
  <2> QED BY <1>0, <2>2 DEF PassedChecks, AfterWritable
<1>6. CASE CheckLength
  <2>1. /\ Intact' /\ RefusedIsNotDone' /\ pc = "length"
        /\ pc' # "over" /\ prefix' # NoPrefix =>
             ~Exceeded(prefix, conf.prefix_size) /\ pc' = "count" /\ prefix' = prefix
    BY <1>6, <1>t DEF CheckLength, Exceeded
  <2> QED BY <1>0, <2>1 DEF PassedChecks, Intact
<1>7. CASE CheckCount
  <2>1. /\ Intact' /\ RefusedIsNotDone' /\ pc = "count"
        /\ pc' # "over" /\ prefix' # NoPrefix =>
             /\ ~Exceeded(Len(asked.fields), conf.keys_per_req)
             /\ pc' = "sizes" /\ prefix' = prefix
    BY <1>7, <1>t DEF CheckCount, Exceeded
  <2> QED BY <1>0, <2>1 DEF PassedChecks
<1>8. CASE CheckSizes
  <2> DEFINE wrong == conf.key_size # 0 /\ conf.value_size # 0 /\ WrongSizes # {}
  <2>1. /\ Intact' /\ RefusedIsNotDone' /\ pc = "sizes"
        /\ pc' # "over" /\ prefix' # NoPrefix => ~wrong /\ pc' = "route" /\ prefix' = prefix
    BY <1>8, <1>t DEF CheckSizes
  <2>2. SUFFICES ASSUME pc' # "over", prefix' # NoPrefix
                 PROVE  PassedChecks'
    BY <2>1 DEF PassedChecks
  <2>3. asked.kind = "set" /\ ~Exceeded(Len(asked.fields), conf.keys_per_req)
    BY <1>0, <2>1, <2>2 DEF PassedChecks, IsWrite
  <2>4. Fits
    BY <1>0, <2>1, <2>2, <2>3, RightSizesFit
  <2> QED BY <1>0, <2>1, <2>2, <2>4, <1>f DEF PassedChecks
<1>9. CASE CheckRange
  BY <1>0, <1>9 DEF CheckRange, Test
<1>10. CASE Route
  <2>1. pc = "route" /\ pc' = "over" /\ prefix' = prefix /\ ~done
    BY <1>10 DEF Route, Told
  <2>2. Intact' /\ PassedChecks'
    BY <1>0, <2>1 DEF Intact, PassedChecks
  <2>3. CASE opens /\ prefix # NoPrefix
    <3>1. answers' = IF asked.cb THEN <<"OK">> ELSE <<>>
      BY <1>0, <1>10, <2>1, <2>3 DEF Route, Intact
    <3>2. /\ writable /\ asked.fields # <<>> /\ prefix = asked.prefix
          /\ asked.kind = "set" => Fits /\ ~Exceeded(asked.prefix, conf.prefix_size)
      BY <1>0, <2>1, <2>3 DEF Intact, PassedChecks
    <3> QED BY <1>0, <1>f, <2>2, <2>3, <3>1, <3>2 DEF RefusedIsNotDone
  <2>4. CASE ~(opens /\ prefix # NoPrefix)
    BY <1>10, <2>1, <2>2, <2>4 DEF Route, RefusedIsNotDone
  <2> QED BY <2>3, <2>4
<1>11. CASE RouteAll
  BY <1>0, <1>11 DEF RouteAll
<1> QED BY <1>1, <1>2, <1>3, <1>4, <1>5, <1>6, <1>7, <1>8, <1>9, <1>10, <1>11 DEF Next

\* Every step keeps the way, what was told and the page; the first answer stays the first.
LEMMA StepKeeps ==
  ASSUME ReqInv, Next \/ RouteAll \/ UNCHANGED vars
  PROVE  /\ ReqInv'
         /\ answers # <<>> => answers' # <<>> /\ Head(answers') = Head(answers)
<1>0. /\ Asked /\ Way /\ Told /\ Checked /\ PageIs /\ asked.cb \in BOOLEAN
      /\ asked.kind \in {"set", "del", "range", "one", "all"}
  BY DEF ReqInv, Asked
<1>a. UNCHANGED state /\ Asked' /\ Sayable' = Sayable /\ asked' = asked /\ IsWrite' = IsWrite
  BY <1>0, NextKeepsState, AskedStays DEF state, IsWrite
<1> DEFINE First == answers # <<>> => answers' # <<>> /\ Head(answers') = Head(answers)
<1>s. SUFFICES Way' /\ Told' /\ PageIs' /\ First
  <2>1. ASSUME Told' PROVE Checked'
    <3>1. CASE IsWrite
      BY <1>0, <2>1, <3>1, WriteKeeps
    <3>2. CASE ~IsWrite
      BY <1>a, <3>2 DEF Checked
    <3> QED BY <3>1, <3>2
  <2> QED BY <1>a, <2>1 DEF ReqInv
<1>p. PageOf(asked)' = PageOf(asked)
  BY <1>a DEF state, PageOf, LimitOf
<1>t. ASSUME NEW check \in Later, NEW wrong \in BOOLEAN, NEW status \in Refusals,
             NEW ifWrong \in Later \cup {"over"}, NEW ifRight \in Later,
             Test(check, wrong, status, ifWrong, ifRight)
      PROVE  Told' /\ PageIs' /\ First /\ pc = check /\ pc' \in {ifWrong, ifRight, "over"}
  <2>1. Told' /\ PageIs' /\ pc = check /\ pc' \in {ifWrong, ifRight, "over"}
    BY <1>0, <1>t, TestKeeps
  <2>2. First
    <3>1. answers' = answers \/ answers' = Append(answers, status)
      BY <1>t DEF Test, Refuse, GoTo
    <3>2. answers \in Seq(Sayable) /\ status \in Sayable
      BY <1>0 DEF Told, Sayable, Failures
    <3> QED BY <3>1, <3>2, SayMore
  <2> QED BY <2>1, <2>2
<1>1. CASE UNCHANGED vars
  BY <1>0, <1>1, <1>a, <1>p DEF vars, Way, Told, PageIs, Paged
<1>2. CASE Gate
  <2>1. pc = "gate" /\ answers = <<>> /\ ~done /\ ~done'
    BY <1>0, <1>2 DEF Gate, Told, GoTo
  <2>2. PageIs' /\ First
    BY <2>1 DEF PageIs, Paged
  <2>3. CASE suspended \/ NotifyBan
    <3>1. answers' = (IF asked.cb THEN <<"null">> ELSE <<>>) /\ pc' = "over"
      BY <1>2, <2>3 DEF Gate
    <3>2. CASE asked.cb
      <4>1. suspended /\ "null" \in Sayable /\ answers' = <<"null">>
        BY <2>3, <3>1, <3>2 DEF NotifyBan, Sayable
      <4>2. answers' \in Seq(Sayable) /\ answers' # <<>> /\ Head(answers') = "null"
        BY <4>1
      <4>3. Told'
        BY <1>a, <2>1, <3>1, <3>2, <4>2 DEF Told
      <4> QED BY <1>a, <2>2, <3>1, <4>3 DEF Way
    <3>3. CASE ~asked.cb
      <4>1. Told'
        BY <1>0, <1>a, <2>1, <3>1, <3>3 DEF Told
      <4> QED BY <1>a, <2>2, <3>1, <4>1 DEF Way
    <3> QED BY <3>2, <3>3
  <2>4. CASE ~(suspended \/ NotifyBan)
    <3>1. /\ answers' = answers /\ prefix' = prefix
          /\ pc' = IF asked.kind \in {"set", "del"} THEN "empty"
                   ELSE IF asked.kind = "range" THEN "range"
                   ELSE IF asked.kind = "all" THEN "all" ELSE "route"
      BY <1>2, <2>4 DEF Gate, GoTo
    <3>2. Way'
      BY <1>0, <1>a, <3>1 DEF Way, IsWrite, Checks
    <3>3. Told'
      BY <1>0, <1>a, <2>1, <3>1 DEF Told
    <3> QED BY <2>2, <3>2, <3>3
  <2> QED BY <2>3, <2>4
<1>3. CASE CheckEmpty
  <2> DEFINE next == IF asked.kind = "del" THEN "writable" ELSE "prefix"
  <2>1. next \in Later /\ next \in Checks
    BY DEF Later, Checks
  <2>2. Told' /\ PageIs' /\ First /\ pc = "empty" /\ pc' \in {next, "over"}
    <3>1. Test("empty", asked.fields = <<>>, "EmptyFields", "over", next)
      BY <1>3 DEF CheckEmpty
    <3>2. /\ "empty" \in Later /\ (asked.fields = <<>>) \in BOOLEAN
          /\ "EmptyFields" \in Refusals /\ "over" \in Later \cup {"over"}
      BY DEF Later, Checks, Refusals
    <3> HIDE DEF next
    <3>3. Told' /\ PageIs' /\ First /\ pc = "empty" /\ pc' \in {"over", next, "over"}
      BY <1>t, <2>1, <3>1, <3>2
    <3> QED BY <3>3
  <2>3. IsWrite
    BY <1>0, <2>2 DEF Way, IsWrite
  <2> QED BY <1>a, <2>1, <2>2, <2>3 DEF Way, IsWrite
<1>4. CASE CheckPrefix
  <2>1. Told' /\ PageIs' /\ First /\ pc = "prefix" /\ pc' \in {"count", "writable", "over"}
    BY <1>4, <1>t DEF CheckPrefix, Later, Checks, Refusals
  <2> QED BY <1>0, <1>a, <2>1 DEF Way, IsWrite, Checks
<1>5. CASE CheckWritable
  <2>1. AfterWritable \in Later /\ AfterWritable \in Checks /\ (~writable) \in BOOLEAN
    BY DEF AfterWritable, Later, Checks
  <2>2. Told' /\ PageIs' /\ First /\ pc = "writable" /\ pc' \in {AfterWritable, "over"}
    BY <1>5, <1>t, <2>1 DEF CheckWritable, Later, Checks, Refusals
  <2> QED BY <1>0, <1>a, <2>1, <2>2 DEF Way, IsWrite
<1>6. CASE CheckLength
  <2>1. Told' /\ PageIs' /\ First /\ pc = "length" /\ pc' \in {"count", "over"}
    BY <1>6, <1>t DEF CheckLength, Exceeded, Later, Checks, Refusals
  <2> QED BY <1>0, <1>a, <2>1 DEF Way, IsWrite, Checks
<1>7. CASE CheckCount
  <2>1. Told' /\ PageIs' /\ First /\ pc = "count" /\ pc' \in {"route", "sizes", "over"}
    BY <1>7, <1>t DEF CheckCount, Exceeded, Later, Checks, Refusals
  <2> QED BY <1>0, <1>a, <2>1 DEF Way, IsWrite, Checks
<1>8. CASE CheckSizes
  <2>1. Told' /\ PageIs' /\ First /\ pc = "sizes" /\ pc' \in {"route", "over"}
    BY <1>8, <1>t DEF CheckSizes, Later, Checks, Refusals
  <2> QED BY <1>0, <1>a, <2>1 DEF Way, IsWrite, Checks
<1>9. CASE CheckRange
  <2>1. Told' /\ PageIs' /\ First /\ pc = "range" /\ pc' \in {"route", "over"}
    BY <1>9, <1>t DEF CheckRange, Exceeded, Later, Checks, Refusals
  <2> QED BY <1>0, <1>a, <2>1 DEF Way, IsWrite, Checks
<1>10. CASE Route
  <2>1. pc = "route" /\ pc' = "over" /\ prefix' = prefix /\ ~done /\ asked.kind # "all"
    BY <1>0, <1>10 DEF Route, Told, Way
  <2>2. answers \in Seq(Sayable) /\ (answers # <<>> => Head(answers) # "OK")
    BY <1>0, <2>1 DEF Told
  <2>3. CASE opens /\ prefix # NoPrefix
    <3>1. /\ done' = TRUE /\ answers' = (IF asked.cb THEN Append(answers, "OK") ELSE answers)
          /\ asked.kind = "range" => res' = PageOf(asked)
      BY <1>10, <2>3 DEF Route
    <3>2. answers = <<>> /\ "OK" \in Sayable
      BY <1>0, <2>1, <2>3 DEF Told, Sayable
    <3>3. Append(answers, "OK") \in Seq(Sayable) /\ Append(answers, "OK") # <<>>
          /\ Head(Append(answers, "OK")) = "OK"
      BY <2>2, <3>2, SayMore
    <3>4. Told'
      BY <1>0, <1>a, <2>1, <2>2, <3>1, <3>2, <3>3 DEF Told
    <3> QED BY <1>a, <1>p, <2>1, <3>1, <3>2, <3>4 DEF Way, PageIs, Paged
  <2>4. CASE ~(opens /\ prefix # NoPrefix)
    <3> DEFINE status == IF asked.kind = "set" THEN "CreatePrefixFail" ELSE "PrefixNotFound"
    <3>1. done' = done /\ answers' = (IF ~asked.cb THEN answers ELSE Append(answers, status))
      BY <1>10, <2>4 DEF Route
    <3>2. status \in Sayable /\ status # "OK"
      BY DEF Sayable, Failures
    <3> HIDE DEF status
    <3>3. /\ Append(answers, status) \in Seq(Sayable) /\ Append(answers, status) # <<>>
          /\ Head(Append(answers, status)) = (IF answers = <<>> THEN status ELSE Head(answers))
      BY <2>2, <3>2, SayMore
    <3>4. Head(Append(answers, status)) # "OK"
      BY <2>2, <3>2, <3>3
    <3>5. Told'
      BY <1>0, <1>a, <2>1, <2>2, <3>1, <3>3, <3>4 DEF Told
    <3>6. First
      BY <3>1, <3>3
    <3> QED BY <1>a, <2>1, <3>1, <3>5, <3>6 DEF Way, PageIs, Paged
  <2> QED BY <2>3, <2>4
<1>11. CASE RouteAll
  <2>1. /\ pc = "all" /\ pc' = "over" /\ asked.kind = "all" /\ answers = <<>>
        /\ prefix' = prefix
    BY <1>0, <1>11 DEF RouteAll, Way, Told, IsWrite, Checks
  <2>2. PICK status \in StatusOfAll : /\ answers' = IF asked.cb THEN <<status>> ELSE <<>>
                                      /\ done' = (opens /\ status # "CompactFail")
    BY <1>11 DEF RouteAll
  <2>3. /\ status \in Sayable
        /\ asked.op # "attach_prefixes" /\ status # "CompactFail" => status = "OK"
    BY DEF StatusOfAll, Sayable, Failures
  <2>4. <<status>> \in Seq(Sayable) /\ <<status>> # <<>> /\ Head(<<status>>) = status
    BY <2>3
  <2>5. Told'
    BY <1>0, <1>a, <2>1, <2>2, <2>3, <2>4 DEF Told
  <2>6. PageIs'
    BY <1>a, <2>1 DEF PageIs, Paged
  <2> QED BY <1>a, <2>1, <2>5, <2>6 DEF Way
<1> QED BY <1>1, <1>2, <1>3, <1>4, <1>5, <1>6, <1>7, <1>8, <1>9, <1>10, <1>11 DEF Next
-----------------------------------------------------------------------------
(* What is so of every request, wherever it was made. *)

WriteMethods == {"set", "setnx", "inc", "add", "packed", "del"}

\* Of one that the service has not read yet.
AtWire ==
  pc = "wire" =>
    /\ remote # NotMade /\ typed = NotTyped /\ answers = <<>> /\ ~done
    /\ remote.method \in WriteMethods => conf.key_size \in Nat /\ conf.value_size \in Nat

Near ==
  typed # NotTyped =>
    pc # "wire" /\ remote = NotMade /\ asked.cb /\ (asked.kind = "all" => asked.op = typed.cmd)

Far ==
  remote # NotMade =>
    /\ remote.method \in Methods /\ remote.made \in SUBSET Api[remote.method].request
    /\ remote.cb \in BOOLEAN
    /\ pc # "wire" => served = Carried(remote.method, remote.made)

\* What was heard, if it is not null, is the first answer.
Heard ==
  remote # NotMade =>
    \A i \in DOMAIN heard :
      heard[i].status # "null" =>
        /\ pc # "wire" /\ answers # <<>>
        /\ heard[i] = [status |-> Head(answers), members |-> Api[remote.method].answer]

RemoteInv ==
  /\ keys \in SUBSET Keys /\ AtWire /\ Near /\ Far /\ Heard
  /\ pc # "wire" => ReqInv

\* A request that arrives is what the model has it be.
LEMMA FreshIs ==
  ASSUME Asked, pc = "gate", answers = <<>>, done = FALSE, IsWrite => prefix = asked.prefix
  PROVE  ReqInv
<1>1. Way
  BY DEF Way, IsWrite, Checks
<1>2. Told
  BY DEF Told
<1>3. Checked
  BY DEF Checked, Intact, PassedChecks, RefusedIsNotDone, IsWrite
<1>4. PageIs
  BY DEF PageIs, Paged
<1> QED BY <1>1, <1>2, <1>3, <1>4 DEF ReqInv

LEMMA LimitsAre == ASSUME NEW l \in Limits PROVE Config(l).key_size \in Nat /\ Config(l).value_size \in Nat
BY DEF Config

LEMMA NumbersAre == /\ Numbers \subseteq Nat /\ Keys \subseteq Nat /\ Word - 1 \in Nat /\ Nothing \in Nat
                    /\ IsFiniteSet(Keys)
<1>1. Word \in Nat /\ Word > 0 /\ MaxKey \in Nat /\ MaxLimit \in Nat
  OBVIOUS
<1>2. IsFiniteSet(Keys)
  BY <1>1, FS_Interval DEF Keys
<1> QED BY <1>1, <1>2 DEF Numbers, Keys, Nothing

LEMMA InitIs ==
  ASSUME Init PROVE ReqInv /\ keys \in SUBSET Keys /\ pc = "gate"
<1>1. pc = "gate" /\ answers = <<>> /\ done = FALSE
  BY DEF Init
<1>2. CASE InitFielded
  <2>1. asked \in Fielded /\ prefix = asked.prefix /\ keys = {}
    BY <1>2 DEF InitFielded
  <2>2. PICK l \in Limits : conf = Config(l)
    BY <1>2 DEF InitFielded
  <2>3. asked.kind \in {"set", "del"} /\ asked.cb \in BOOLEAN
    BY <2>1 DEF Fielded
  <2>4. PICK n \in 0..MaxFields : asked.fields \in [1..n -> [key : Lengths, value : Lengths]]
    BY <2>1 DEF Fielded
  <2>5. \A i \in DOMAIN asked.fields : asked.fields[i].key \in Nat /\ asked.fields[i].value \in Nat
    <3>1. \A i \in DOMAIN asked.fields : asked.fields[i] \in [key : Lengths, value : Lengths]
      BY <2>4
    <3>2. Lengths \subseteq Nat
      BY DEF Lengths
    <3> QED BY <3>1, <3>2
  <2>6. Asked
    BY <2>2, <2>3, <2>5, LimitsAre DEF Asked, WriteIs, IsWrite
  <2> QED BY <1>1, <2>1, <2>6, FreshIs
<1>3. CASE InitRange
  <2>1. asked \in Ranges /\ keys \in SUBSET Keys
    BY <1>3 DEF InitRange
  <2>2. asked.kind = "range" /\ asked.cb \in BOOLEAN /\ RangeIs
    BY <2>1, NumbersAre DEF Ranges, RangeIs
  <2>3. Asked
    BY <2>2 DEF Asked, IsWrite
  <2> QED BY <1>1, <2>1, <2>2, <2>3, FreshIs DEF IsWrite
<1> QED BY <1>2, <1>3 DEF Init

\* The request that a command makes of its words.
LEMMA RequestOfIs ==
  ASSUME InitTyped
  PROVE  ReqInv /\ keys \in SUBSET Keys /\ pc = "gate" /\ asked.cb
         /\ (asked.kind = "all" => asked.op = typed.cmd)
<1>1. /\ pc = "gate" /\ answers = <<>> /\ done = FALSE /\ prefix = asked.prefix
      /\ typed \in Commands /\ asked = RequestOf(typed) /\ keys \in SUBSET Keys
  BY DEF InitTyped
<1>c. ASSUME asked.kind # "range" PROVE conf.key_size \in Nat /\ conf.value_size \in Nat
  BY <1>c, LimitsAre DEF InitTyped
<1>s. ASSUME Asked, asked.cb, asked.kind = "all" => asked.op = typed.cmd
      PROVE  ReqInv /\ keys \in SUBSET Keys /\ pc = "gate" /\ asked.cb
             /\ (asked.kind = "all" => asked.op = typed.cmd)
  BY <1>1, <1>s, FreshIs
<1>2. CASE typed \in Stores
  <2>1. /\ typed.cmd \in {"set", "corrupt", "inc"} /\ typed.key \in Nat /\ typed.value \in Nat
    BY <1>2 DEF Stores, Lengths
  <2>2. asked = [kind |-> "set", cb |-> TRUE, prefix |-> typed.prefix,
                 fields |-> <<[key |-> KeyLength(typed), value |-> StoredLength(typed)]>>]
    BY <1>1, <2>1 DEF RequestOf
  <2>3. KeyLength(typed) \in Nat /\ StoredLength(typed) \in Nat
    BY <2>1 DEF KeyLength, StoredLength, Null, Quotes
  <2>4. \A i \in DOMAIN asked.fields : asked.fields[i].key \in Nat /\ asked.fields[i].value \in Nat
    BY <2>2, <2>3
  <2>5. Asked
    BY <1>c, <2>2, <2>4 DEF Asked, WriteIs, IsWrite
  <2> QED BY <1>s, <2>2, <2>5
<1>3. CASE typed \in Lists /\ typed.cmd = "del"
  <2>1. asked = [kind |-> "del", cb |-> TRUE, prefix |-> typed.prefix,
                 fields |-> [i \in DOMAIN typed.keys |-> [key |-> typed.keys[i], value |-> 0]]]
    BY <1>1, <1>3 DEF RequestOf
  <2>2. PICK n \in 0..MaxFields : typed.keys \in [1..n -> Lengths]
    BY <1>3 DEF Lists
  <2>3. \A i \in DOMAIN asked.fields : asked.fields[i].key \in Nat /\ asked.fields[i].value \in Nat
    BY <2>1, <2>2 DEF Lengths
  <2>4. Asked
    BY <1>c, <2>1, <2>3 DEF Asked, WriteIs, IsWrite
  <2> QED BY <1>s, <2>1, <2>4
<1>4. CASE typed \in Lists /\ typed.cmd = "get"
  <2>1. asked = [kind |-> "one", cb |-> TRUE, prefix |-> typed.prefix, op |-> typed.cmd]
    BY <1>1, <1>4 DEF RequestOf
  <2>2. Asked
    BY <2>1 DEF Asked, IsWrite
  <2> QED BY <1>s, <2>1, <2>2
<1>5. CASE typed \in Scans
  <2>1. /\ typed.cmd \in {"range", "gpi"} /\ typed.from \in Nat /\ typed.to \in Nat
        /\ typed.offset \in Nat /\ typed.limit \in Nat
    <3>1. \A n \in {Nothing} \cup Keys : n \in Nat
      BY NumbersAre
    <3>2. CASE typed \in [cmd : {"range"}, prefix : {NoPrefix, 1}, from : {Nothing} \cup Keys,
                          to : {Nothing} \cup Keys, offset : 0..MaxLimit, limit : 0..MaxLimit]
      BY <3>1, <3>2
    <3>3. CASE typed \in [cmd : {"gpi"}, prefix : {NoPrefix, 1}, from : {Nothing},
                          to : {Nothing}, offset : {0}, limit : 0..MaxLimit]
      BY <3>1, <3>3
    <3> QED BY <1>5, <3>2, <3>3 DEF Scans
  <2>2. asked =
          [kind |-> "range", cb |-> TRUE, prefix |-> typed.prefix, from |-> typed.from, to |-> typed.to,
           beg |-> TRUE, offset |-> typed.offset, stat |-> typed.cmd = "gpi",
           limit |-> IF typed.cmd = "range" /\ typed.limit = 0 THEN DefaultLimit ELSE typed.limit]
    BY <1>1, <2>1 DEF RequestOf
  <2>3. RangeIs
    BY <2>1, <2>2 DEF RangeIs, DefaultLimit
  <2>4. Asked
    BY <2>2, <2>3 DEF Asked, IsWrite
  <2> QED BY <1>s, <2>2, <2>4
<1>6. CASE typed \in Others
  <2>1. typed.cmd \in {"compact_prefix", "repair_json", "detach_prefixes", "attach_prefixes",
                       "get_all_prefixes", "delay_background", "continue_background"}
    BY <1>6 DEF Others
  <2>2. asked = [kind |-> "one", cb |-> TRUE, prefix |-> typed.prefix, op |-> typed.cmd]
        \/ asked = [kind |-> "all", cb |-> TRUE, prefix |-> NoPrefix, op |-> typed.cmd]
    BY <1>1, <2>1 DEF RequestOf
  <2>3. asked.kind \in {"one", "all"} /\ asked.op = typed.cmd /\ asked.cb = TRUE
    BY <2>2
  <2>4. Asked
    BY <2>3 DEF Asked, IsWrite
  <2> QED BY <1>s, <2>3, <2>4
<1>7. typed \in Lists => typed.cmd \in {"del", "get"}
  BY DEF Lists
<1> QED BY <1>1, <1>2, <1>3, <1>4, <1>5, <1>6, <1>7 DEF Commands

LEMMA InitRemoteIs == InitRemote => RemoteInv
<1> SUFFICES ASSUME InitRemote PROVE RemoteInv
  OBVIOUS
<1>1. CASE InitConsole /\ remote = NotMade
  <2>1. ReqInv /\ keys \in SUBSET Keys /\ pc = "gate"
        /\ (typed # NotTyped => asked.cb /\ (asked.kind = "all" => asked.op = typed.cmd))
    BY <1>1, InitIs, RequestOfIs DEF InitConsole
  <2> QED BY <1>1, <2>1 DEF RemoteInv, AtWire, Near, Far, Heard
<1>2. CASE ~(InitConsole /\ remote = NotMade)
  <2>1. PICK method \in Methods :
          \E m \in {m \in SUBSET Api[method].request :
                      Cardinality(m) <= MaxMade \/ m = Api[method].request}, cb \in BOOLEAN :
            /\ remote = [method |-> method, made |-> m, cb |-> cb]
            /\ conf \in IF method = "range" THEN {[range |-> n] : n \in RangeLimits}
                                            ELSE {Config(l) : l \in Limits}
    BY <1>2 DEF InitRemote
  <2>2. PICK m \in SUBSET Api[method].request, cb \in BOOLEAN :
            /\ remote = [method |-> method, made |-> m, cb |-> cb]
            /\ conf \in IF method = "range" THEN {[range |-> n] : n \in RangeLimits}
                                            ELSE {Config(l) : l \in Limits}
    BY <2>1
  <2>3. /\ typed = NotTyped /\ pc = "wire" /\ keys = Keys /\ answers = <<>> /\ done = FALSE
        /\ heard = <<>>
    BY <1>2 DEF InitRemote
  <2>4. remote.method = method /\ remote.made = m /\ remote.cb = cb
    BY <2>2
  <2>5. method \in WriteMethods => conf.key_size \in Nat /\ conf.value_size \in Nat
    BY <2>2, LimitsAre DEF WriteMethods
  <2>6. remote # NotMade
    <3>1. SUFFICES ASSUME remote = NotMade PROVE FALSE
      OBVIOUS
    <3>2. remote.method = "none"
      BY <3>1 DEF NotMade
    <3>3. "none" \notin Methods
      BY DEF Methods, Api
    <3> QED BY <2>4, <3>2, <3>3
  <2>7. AtWire
    BY <2>3, <2>4, <2>5, <2>6 DEF AtWire
  <2>8. Near /\ Far /\ Heard
    BY <2>3, <2>4 DEF Near, Far, Heard
  <2> QED BY <2>3, <2>7, <2>8 DEF RemoteInv
<1> QED BY <1>1, <1>2

\* The request that the service makes, and one that it is.
LEMMA MadeIs ==
  ASSUME NEW method, NEW m, NEW cb \in BOOLEAN,
         method \in WriteMethods => conf.key_size \in Nat /\ conf.value_size \in Nat,
         asked' = Made(method, m, cb), conf' = conf
  PROVE  Asked' /\ asked'.cb = cb
<1>1. CASE method \in WriteMethods
  <2>1. asked' = [kind |-> IF method = "del" THEN "del" ELSE "set", cb |-> cb,
                  prefix |-> PrefixOf(m), fields |-> FieldsOf(m)]
    BY <1>1 DEF Made, WriteMethods
  <2>2. FieldsOf(m) = <<[key |-> 2, value |-> 1]>> \/ FieldsOf(m) = <<>>
    BY DEF FieldsOf
  <2>3. \A i \in DOMAIN FieldsOf(m) : FieldsOf(m)[i].key \in Nat /\ FieldsOf(m)[i].value \in Nat
    BY <2>2
  <2> QED BY <1>1, <2>1, <2>3 DEF Asked, IsWrite, WriteIs
<1>2. CASE method = "range"
  <2>1. asked' =
          [kind |-> "range", cb |-> cb, prefix |-> PrefixOf(m),
           from |-> IF "from" \in m THEN 2 ELSE Nothing, to |-> IF "to" \in m THEN 3 ELSE Nothing,
           beg |-> "beg" \notin m, offset |-> IF "offset" \in m THEN 1 ELSE 0,
           stat |-> "stat" \in m, limit |-> IF "limit" \in m THEN 1 ELSE RequestLimit]
    BY <1>2 DEF Made
  <2>2. RangeIs'
    BY <2>1 DEF RangeIs, RequestLimit, Nothing
  <2> QED BY <2>1, <2>2 DEF Asked, IsWrite
<1>3. CASE method \notin WriteMethods /\ method # "range"
  <2>1. asked' =
          [kind |-> IF "prefix" \in m \/ (method \notin {"compact_prefix", "repair_json"}
                                          /\ "prefix" \in Api[method].request)
                    THEN "one" ELSE "all",
           cb |-> cb, prefix |-> PrefixOf(m), op |-> method]
    BY <1>3 DEF Made, WriteMethods
  <2>2. asked'.kind \in {"one", "all"} /\ asked'.cb = cb
    BY <2>1
  <2> QED BY <2>2 DEF Asked, IsWrite
<1> QED BY <1>1, <1>2, <1>3

\* A request keeps what is so of it when the service reads it.
LEMMA InvokeKeeps ==
  ASSUME RemoteInv, Invoke PROVE RemoteInv'
<1>1. /\ pc = "wire" /\ pc' = "gate" /\ served' = Carried(remote.method, remote.made)
      /\ asked' = Made(remote.method, served', remote.cb) /\ prefix' = asked'.prefix
      /\ UNCHANGED <<conf, suspended, writable, opens, keys, same, answers, done, res,
                     typed, remote, heard>>
  BY DEF Invoke
<1>2. /\ remote # NotMade /\ typed = NotTyped /\ answers = <<>> /\ ~done /\ remote.cb \in BOOLEAN
      /\ remote.method \in WriteMethods => conf.key_size \in Nat /\ conf.value_size \in Nat
  BY <1>1 DEF RemoteInv, AtWire, Far
<1>3. Asked'
  BY <1>1, <1>2, MadeIs
<1>4. Way'
  BY <1>1 DEF Way, IsWrite, Checks
<1>5. Told'
  BY <1>1, <1>2 DEF Told
<1>6. Checked' /\ PageIs'
  BY <1>1, <1>2 DEF Checked, Intact, PassedChecks, RefusedIsNotDone, PageIs, Paged
<1>7. ReqInv'
  BY <1>3, <1>4, <1>5, <1>6 DEF ReqInv
<1>8. AtWire' /\ Near' /\ Far' /\ Heard'
  BY <1>1, <1>2 DEF RemoteInv, AtWire, Near, Far, Heard
<1> QED BY <1>1, <1>7, <1>8 DEF RemoteInv

\* What is heard of an answer is the whole of it.
LEMMA ReturnedIs ==
  ASSUME NEW m \in Methods PROVE Returned(m, Api[m].answer) = Api[m].answer
BY WireIs DEF Returned

LEMMA NextIs == RemoteInv /\ [NextRemote]_allVars => RemoteInv'
<1> SUFFICES ASSUME RemoteInv, [NextRemote]_allVars PROVE RemoteInv'
  OBVIOUS
<1>1. CASE (Next \/ RouteAll) /\ UNCHANGED <<typed, remote, served, heard>>
  <2>1. pc # "wire"
    BY <1>1 DEF Next, RouteAll, Gate, CheckEmpty, CheckPrefix, CheckWritable, CheckLength, CheckCount,
                CheckSizes, CheckRange, Route, Test
  <2>2. ReqInv' /\ UNCHANGED state /\ (answers # <<>> => answers' # <<>> /\ Head(answers') = Head(answers))
    BY <1>1, <2>1, StepKeeps, NextKeepsState DEF RemoteInv
  <2>3. pc' # "wire"
    BY <2>2 DEF ReqInv, Asked, Way, IsWrite, Checks
  <2>4. AtWire' /\ Near' /\ Far' /\ Heard'
    BY <1>1, <2>1, <2>2, <2>3 DEF RemoteInv, AtWire, Near, Far, Heard, state
  <2> QED BY <2>2, <2>3, <2>4 DEF RemoteInv, state
<1>2. ASSUME UNCHANGED <<vars, typed, remote, served>>
      PROVE  /\ keys' \in SUBSET Keys /\ AtWire' /\ Near' /\ Far' /\ (pc' # "wire" => ReqInv')
             /\ (Heard' => RemoteInv')
  <2>1. UNCHANGED vars /\ UNCHANGED state
    BY <1>2, NextKeepsState
  <2>2. pc' = pc /\ answers' = answers /\ done' = done /\ keys' = keys /\ conf' = conf /\ asked' = asked
    BY <2>1 DEF vars
  <2>3. pc # "wire" => ReqInv'
    BY <2>1, StepKeeps DEF RemoteInv
  <2>4. AtWire' /\ Near' /\ Far'
    BY <1>2, <2>2 DEF RemoteInv, AtWire, Near, Far
  <2> QED BY <2>2, <2>3, <2>4 DEF RemoteInv
<1>3. CASE UNCHANGED allVars
  <2>1. Heard'
    BY <1>3 DEF RemoteInv, Heard, allVars, vars
  <2> QED BY <1>2, <1>3, <2>1 DEF allVars
<1>4. CASE Invoke
  BY <1>4, InvokeKeeps
<1>5. CASE Hear
  <2>1. /\ UNCHANGED <<vars, typed, remote, served>>
        /\ remote # NotMade /\ answers # <<>>
        /\ heard' = <<[status |-> Status(Head(answers)),
                       members |-> Returned(remote.method, Api[remote.method].answer)]>>
    BY <1>5 DEF Hear
  <2>2. pc # "wire" /\ remote.method \in Methods /\ pc' = pc /\ answers' = answers /\ remote' = remote
    BY <2>1 DEF RemoteInv, AtWire, Far, vars
  <2>3. Status(Head(answers)) # "null" => Status(Head(answers)) = Head(answers)
    BY DEF Status
  <2>4. heard' = <<[status |-> Status(Head(answers)), members |-> Api[remote.method].answer]>>
    BY <2>1, <2>2, ReturnedIs
  <2>5. Heard'
    BY <2>1, <2>2, <2>3, <2>4 DEF Heard
  <2> QED BY <1>2, <2>1, <2>5
<1>6. CASE Lose
  <2>1. UNCHANGED <<vars, typed, remote, served>> /\ heard' = <<[status |-> "null", members |-> {}]>>
    BY <1>6 DEF Lose
  <2>2. Heard'
    BY <2>1 DEF Heard
  <2> QED BY <1>2, <2>1, <2>2
<1> QED BY <1>1, <1>3, <1>4, <1>5, <1>6 DEF NextRemote, NextConsole

LEMMA RemoteInvHolds == SpecRemote => []RemoteInv
BY InitRemoteIs, NextIs, PTL DEF SpecRemote
-----------------------------------------------------------------------------
(* What follows. *)

\* multidb.cpp:1014-1055: whatever the limits and however long the request, one that
\* send_error has answered is not handed to a database, though the checks go on, be it
\* made in the process, typed or sent.
THEOREM RefusedIsNeverDone == SpecRemote => []RefusedIsNotDone
<1>1. RemoteInv => RefusedIsNotDone
  BY DEF RemoteInv, ReqInv, Checked, IsWrite, RefusedIsNotDone
<1> QED BY RemoteInvHolds, <1>1, PTL

LEMMA PageOfIs ==
  ASSUME RemoteInv, Paged
  PROVE  LET scan == [from |-> asked.from, to |-> asked.to, beg |-> asked.beg,
                      offset |-> asked.offset, limit |-> LimitOf(asked)]
         IN  /\ IsScan(scan) /\ IsFiniteSet(keys) /\ keys \subseteq Nat
             /\ res.fields = Fields(keys, scan) /\ (res.fin <=> Fin(keys, same, scan))
             /\ Within(keys, scan) = InRange
<1>1. pc # "wire" /\ keys \in SUBSET Keys
  BY DEF RemoteInv, AtWire, Paged
<1>2. RangeIs /\ res = PageOf(asked)
  BY <1>1 DEF RemoteInv, ReqInv, Asked, PageIs, Paged
<1>3. LimitOf(asked) \in Nat
  BY <1>2, NumbersAre DEF LimitOf, RangeIs
<1>4. IsFiniteSet(keys) /\ keys \subseteq Nat
  BY <1>1, NumbersAre, FS_Subset
<1> QED BY <1>2, <1>3, <1>4 DEF RangeIs, IsScan, PageOf, Within, InRange, Fin

\* wrocksdb.cpp:591-736: of every database and every request, the page is the keys asked
\* for at the places asked for.
THEOREM PagesAreAsAsked == SpecRemote => []PageIsAsAsked
<1>1. RemoteInv => PageIsAsAsked
  <2> SUFFICES ASSUME RemoteInv, Paged
               PROVE  LET start == IF asked.beg THEN asked.offset ELSE asked.offset + 1
                      IN  res.fields = Places(start + 1, start + LimitOf(asked))
    BY DEF PageIsAsAsked
  <2> DEFINE scan == [from |-> asked.from, to |-> asked.to, beg |-> asked.beg,
                      offset |-> asked.offset, limit |-> LimitOf(asked)]
             n == Start(scan)
  <2>1. /\ IsScan(scan) /\ IsFiniteSet(keys) /\ keys \subseteq Nat
        /\ res.fields = Fields(keys, scan) /\ Within(keys, scan) = InRange
    BY PageOfIs
  <2>2. n = (IF asked.beg THEN asked.offset ELSE asked.offset + 1) /\ scan.limit = LimitOf(asked)
    BY DEF Start
  <2>3. scan.limit \in Nat
    BY <2>1 DEF IsScan
  <2> HIDE DEF scan
  <2>4. /\ InRange \subseteq Nat /\ IsFiniteSet(InRange) /\ n \in Nat
        /\ res.fields = {k \in InRange : n <= Rank(InRange, k) /\ Rank(InRange, k) < n + scan.limit}
    BY <2>1, FieldsAre
  <2>5. Wanted \in Ordered(InRange)
    BY <2>4, OrderExists DEF Wanted, Ordered
  <2> HIDE DEF n
  <2>6. /\ \A i \in DOMAIN Wanted : i \in Nat /\ Wanted[i] \in InRange /\ Rank(InRange, Wanted[i]) = i - 1
        /\ \A k \in InRange : /\ Rank(InRange, k) + 1 \in DOMAIN Wanted /\ Rank(InRange, k) \in Nat
                              /\ Wanted[Rank(InRange, k) + 1] = k
    <3>1. /\ DOMAIN Wanted = 1..Cardinality(InRange) /\ Cardinality(InRange) \in Nat
          /\ \A i \in DOMAIN Wanted : Wanted[i] \in InRange /\ Rank(InRange, Wanted[i]) = i - 1
          /\ \A k \in InRange : Rank(InRange, k) + 1 \in DOMAIN Wanted /\ Wanted[Rank(InRange, k) + 1] = k
      BY <2>4, <2>5, OrderRanks
    <3>2. \A k \in InRange : Rank(InRange, k) \in Nat
      BY <2>4, RankIs
    <3>3. \A i \in DOMAIN Wanted : i \in Nat
      BY <3>1
    <3> QED BY <3>1, <3>2, <3>3
  <2>7. ASSUME NEW k \in res.fields PROVE k \in Places(n + 1, n + scan.limit)
    <3>1. /\ Rank(InRange, k) + 1 \in DOMAIN Wanted /\ Rank(InRange, k) \in Nat
          /\ Wanted[Rank(InRange, k) + 1] = k
          /\ n <= Rank(InRange, k) /\ Rank(InRange, k) < n + scan.limit
      BY <2>4, <2>6, <2>7
    <3>2. Rank(InRange, k) + 1 \in (n + 1)..(n + scan.limit)
      BY <2>3, <2>4, <3>1
    <3> QED BY <3>1, <3>2 DEF Places
  <2>8. ASSUME NEW k \in Places(n + 1, n + scan.limit) PROVE k \in res.fields
    <3>1. PICK i \in DOMAIN Wanted \cap ((n + 1)..(n + scan.limit)) : k = Wanted[i]
      BY <2>8 DEF Places
    <3>2. k \in InRange /\ Rank(InRange, k) = i - 1
      BY <2>6, <3>1
    <3>3. n <= i - 1 /\ i - 1 < n + scan.limit
      BY <2>3, <2>4, <3>1
    <3> QED BY <2>4, <3>2, <3>3
  <2> QED BY <2>2, <2>7, <2>8
<1> QED BY RemoteInvHolds, <1>1, PTL

\* wrocksdb.cpp:591-736, where fin is set: of every database, a page that says that it is the
\* last leaves one key at most, and then it is full.
THEOREM LastPagesLeaveOne == SpecRemote => []FinHidesAtMostOne
<1>1. RemoteInv => FinHidesAtMostOne
  <2> SUFFICES ASSUME RemoteInv, Paged, res.fin, res.fields # {}, same = {}
               PROVE  LET left == {k \in keys : /\ k > Max(res.fields)
                                                /\ asked.to = Nothing \/ k <= asked.to}
                      IN  /\ Cardinality(left) <= 1
                          /\ left # {} => Cardinality(res.fields) = LimitOf(asked)
    BY DEF FinHidesAtMostOne
  <2> DEFINE scan == [from |-> asked.from, to |-> asked.to, beg |-> asked.beg,
                      offset |-> asked.offset, limit |-> LimitOf(asked)]
             f == Max(res.fields)
  <2>1. /\ IsScan(scan) /\ IsFiniteSet(keys) /\ keys \subseteq Nat
        /\ res.fields = Fields(keys, scan) /\ Fin(keys, {}, scan)
    BY PageOfIs
  <2>2. scan.to = asked.to /\ scan.limit = LimitOf(asked)
    OBVIOUS
  <2> HIDE DEF scan
  <2>3. res.fields \subseteq Nat /\ IsFiniteSet(res.fields)
    <3>1. Within(keys, scan) \subseteq Nat /\ IsFiniteSet(Within(keys, scan))
      BY <2>1, FieldsAre
    <3>2. Fields(keys, scan) = {k \in Within(keys, scan) :
                                  /\ Start(scan) <= Rank(Within(keys, scan), k)
                                  /\ Rank(Within(keys, scan), k) < Start(scan) + scan.limit}
      BY <2>1, FieldsAre
    <3>3. res.fields \in SUBSET Within(keys, scan)
      BY <2>1, <3>2, Zenon
    <3> QED BY <3>1, <3>3, FS_Subset
  <2>4. f \in Fields(keys, scan) /\ \A k \in Fields(keys, scan) : k <= f
    BY <2>1, <2>3, MaxIs
  <2> HIDE DEF f
  <2>5. LET left == {k \in keys : k > f /\ (scan.to = Nothing \/ k <= scan.to)}
        IN  /\ Cardinality(left) <= 1
            /\ left # {} => Cardinality(Fields(keys, scan)) = scan.limit
    BY <2>1, <2>4, FinLeaves
  <2> QED BY <2>1, <2>2, <2>5 DEF f
<1> QED BY RemoteInvHolds, <1>1, PTL

\* prefixdb_cmd.cpp, multidb.cpp: the first answer tells whether a request was done, made in
\* the process or typed, and what the console says of it tells the same.
THEOREM AnswersAreTrue == SpecRemote => []AnswersTell
<1>1. RemoteInv => AnswersTell
  <2> SUFFICES ASSUME RemoteInv PROVE AnswersTell
    OBVIOUS
  <2>1. CASE pc = "wire"
    <3>1. typed = NotTyped /\ pc # "over"
      BY <2>1 DEF RemoteInv, AtWire
    <3> QED BY <3>1 DEF AnswersTell, FirstAnswerTells, SaysFate, EndsOnlySuspended
  <2>2. CASE pc # "wire"
    <3>1. Asked /\ Told /\ Near /\ answers \in Seq(Sayable)
      BY <2>2 DEF RemoteInv, ReqInv, Told
    <3>2. asked.kind # "all" => FirstAnswerTells
      BY <3>1 DEF Told, FirstAnswerTells
    <3>3. ASSUME NEW i \in DOMAIN answers
          PROVE  /\ answers[i] \in Sayable /\ answers[i] \notin {"crash", "FAIL"}
                 /\ answers[i] = "null" => suspended
      <4>1. answers[i] \in Sayable
        BY <3>1
      <4> QED BY <4>1 DEF Sayable, Failures, Refusals
    <3>4. EndsOnlySuspended
      <4> SUFFICES ASSUME typed # NotTyped, NEW i \in DOMAIN answers, Text(typed, answers[i]) = "crash"
                   PROVE  suspended /\ typed.cmd \notin Blind
        BY DEF EndsOnlySuspended, Said, Range
      <4> QED BY <3>3 DEF Text
    <3>5. SaysFate
      <4> SUFFICES ASSUME pc = "over", typed # NotTyped
                   PROVE  /\ Said # <<>>
                          /\ done /\ typed.cmd # "attach_prefixes" => Head(Said) = "OK"
                          /\ asked.kind # "all" /\ typed.cmd \notin Blind => (Head(Said) = "OK" => done)
        BY DEF SaysFate
      <4>1. /\ answers # <<>> /\ (asked.kind = "all" => asked.op = typed.cmd)
            /\ asked.kind # "all" => (done <=> Head(answers) = "OK")
            /\ asked.kind = "all" /\ done /\ asked.op # "attach_prefixes" => Head(answers) = "OK"
        BY <3>1 DEF Told, Near
      <4>2. 1 \in DOMAIN answers /\ Head(answers) = answers[1]
        BY <3>1, <4>1
      <4>3. Said # <<>> /\ Head(Said) = Text(typed, Head(answers))
        BY <4>2 DEF Said
      <4>4. /\ Head(answers) = "OK" => Text(typed, Head(answers)) = "OK"
            /\ typed.cmd \notin Blind /\ Text(typed, Head(answers)) = "OK" => Head(answers) = "OK"
        BY DEF Text
      <4> QED BY <4>1, <4>3, <4>4
    <3> QED BY <3>2, <3>4, <3>5 DEF AnswersTell
  <2> QED BY <2>1, <2>2
<1> QED BY RemoteInvHolds, <1>1, PTL

\* api/*_json.hpp, gateway and service: a request that was sent is served as it was made, and
\* what is heard of it is the whole of its first answer or null.
THEOREM RemoteIsLocal == SpecRemote => []RemoteAsLocal
<1>1. RemoteInv => RemoteAsLocal
  <2> SUFFICES ASSUME RemoteInv, remote # NotMade, pc # "wire" PROVE RemoteAsLocal
    BY DEF RemoteAsLocal
  <2>1. /\ remote.method \in Methods /\ remote.made \in SUBSET Api[remote.method].request
        /\ served = Carried(remote.method, remote.made) /\ Told /\ Asked
    BY DEF RemoteInv, Far, ReqInv
  <2>2. served = remote.made \ NotCarried(remote.method)
    BY <2>1, WireIs DEF Carried, NotCarried
  <2>3. ASSUME NEW i \in DOMAIN heard, heard[i].status # "null"
        PROVE  /\ heard[i] = [status |-> Head(answers), members |-> Api[remote.method].answer]
               /\ heard[i].status = "OK" /\ asked.kind # "all" => done
    <3>1. answers # <<>> /\ heard[i] = [status |-> Head(answers), members |-> Api[remote.method].answer]
      BY <2>3 DEF RemoteInv, Heard
    <3>2. heard[i].status = Head(answers)
      BY <3>1
    <3>3. Head(answers) = "OK" /\ asked.kind # "all" => done
      BY <2>1, <3>1 DEF Told, Asked
    <3> QED BY <3>1, <3>2, <3>3
  <2> QED BY <2>2, <2>3 DEF RemoteAsLocal
<1> QED BY RemoteInvHolds, <1>1, PTL
=============================================================================
