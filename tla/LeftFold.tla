------------------------------ MODULE LeftFold ------------------------------
(***************************************************************************)
(* FoldLeft of one operator, by the equations one computes with.  FoldLeft *)
(* is a function defined by recursion over sets of positions; that there   *)
(* is such a function, and one only, is proved by induction here.  Modules *)
(* instantiate Op with the operators they fold.                            *)
(***************************************************************************)
LOCAL INSTANCE Integers
LOCAL INSTANCE Sequences
LOCAL INSTANCE SequenceTheorems
LOCAL INSTANCE WellFoundedInduction
LOCAL INSTANCE TLAPS

CONSTANT Op(_, _)

\* FoldLeft(Op, b, s), its definitions expanded.
Greatest(u) == CHOOSE x \in u : \A y \in u : x >= y
Fold(b, s) ==
  LET iter[u \in SUBSET DOMAIN s] ==
        IF u = {} THEN b ELSE LET m == Greatest(u) IN Op(iter[u \ {m}], s[m])
  IN  iter[DOMAIN s]

\* f is the fold of the first n elements of s, by sets of positions.
Solves(f, b, s, n) ==
  f = [u \in SUBSET (1..n) |-> IF u = {} THEN b ELSE Op(f[u \ {Greatest(u)}], s[Greatest(u)])]
-----------------------------------------------------------------------------
(* Induction. *)

\* A set of numbers that is not empty has a least one.
LEMMA Least == ASSUME NEW S, S \subseteq Nat, S # {} PROVE \E x \in S : \A y \in S : x <= y
<1> DEFINE R == {ss \in Nat \X Nat : ss[1] < ss[2]}
<1>1. IsWellFoundedOn(R, Nat)
  BY NatLessThanWellFounded, Zenon DEF OpToRel
<1>2. PICK x \in S : \A y \in S : ~(<<y, x>> \in R)
  <2> HIDE DEF R
  <2> QED BY <1>1, WFMin
<1>3. \A y \in S : ~(y < x)
  BY <1>2
<1> QED BY <1>3

\* A set with 0, and with n + 1 if it has n, has every number.
LEMMA Induction ==
  ASSUME NEW P, 0 \in P, \A n \in Nat : n \in P => n + 1 \in P
  PROVE  Nat \subseteq P
<1> SUFFICES ASSUME Nat \ P # {} PROVE FALSE
  OBVIOUS
<1>1. PICK n \in Nat \ P : \A m \in Nat \ P : n <= m
  <2>1. Nat \ P \subseteq Nat
    OBVIOUS
  <2> QED BY <2>1, Least
<1>2. n # 0 /\ n - 1 \in Nat /\ (n - 1) + 1 = n /\ ~(n <= n - 1)
  OBVIOUS
<1> QED BY <1>1, <1>2

\* A set with the empty list, and with every list one longer than one it has, has all.
LEMMA ListInduction ==
  ASSUME NEW E, NEW P, <<>> \in P, \A s \in Seq(E) : s \in P => \A e \in E : Append(s, e) \in P
  PROVE  Seq(E) \subseteq P
<1> DEFINE N == {n \in Nat : \A s \in Seq(E) : Len(s) = n => s \in P}
<1>1. 0 \in N
  BY EmptySeq
<1>2. ASSUME NEW n \in Nat, n \in N PROVE n + 1 \in N
  <2> SUFFICES ASSUME NEW s \in Seq(E), Len(s) = n + 1 PROVE s \in P
    OBVIOUS
  <2>1. s # <<>>
    BY EmptySeq
  <2>2. PICK t \in Seq(E), e \in E : s = Append(t, e)
    BY <2>1, SequenceEmptyOrAppend
  <2>3. Len(t) = n
    BY <2>2, AppendProperties, LenProperties
  <2> QED BY <1>2, <2>2, <2>3
<1>3. Nat \subseteq N
  <2> HIDE DEF N
  <2> QED BY <1>1, <1>2, Induction
<1> QED BY <1>3, LenProperties
-----------------------------------------------------------------------------
(* The recursion. *)

LEMMA MaxIs ==
  ASSUME NEW n \in Nat, NEW u \in SUBSET (1..n), u # {}
  PROVE  Greatest(u) \in u /\ \A x \in u : x <= Greatest(u)
<1> DEFINE T == {n - x : x \in u}
<1>1. \A x \in u : x \in Nat /\ n - x \in Nat /\ n - (n - x) = x
  OBVIOUS
<1>2. T \subseteq Nat /\ T # {}
  BY <1>1
<1>3. PICK m \in T : \A k \in T : m <= k
  <2> HIDE DEF T
  <2> QED BY <1>2, Least
<1>4. PICK x \in u : m = n - x
  OBVIOUS
<1>5. \A y \in u : x >= y
  BY <1>1, <1>3, <1>4
<1>6. Greatest(u) \in u /\ \A x1 \in u : Greatest(u) >= x1
  BY <1>5 DEF Greatest
<1> QED BY <1>1, <1>6

LEMMA MaxOfLast ==
  ASSUME NEW n \in Nat, NEW u \in SUBSET (1..(n + 1)), n + 1 \in u
  PROVE  Greatest(u) = n + 1 /\ u \ {Greatest(u)} \in SUBSET (1..n)
<1>1. n + 1 \in Nat /\ u # {} /\ u \in SUBSET (1..(n + 1))
  OBVIOUS
<1>2. Greatest(u) \in u /\ \A x \in u : x <= Greatest(u)
  BY <1>1, MaxIs
<1>3. Greatest(u) \in 1..(n + 1) /\ n + 1 <= Greatest(u)
  BY <1>2
<1>4. Greatest(u) = n + 1
  <2> DEFINE m == Greatest(u)
  <2>1. m \in 1..(n + 1) /\ n + 1 <= m
    BY <1>3
  <2> HIDE DEF m
  <2>2. m = n + 1
    BY <2>1
  <2> QED BY <2>2 DEF m
<1> QED BY <1>4

\* Lists with the same first elements have the same folds of those.
LEMMA SolutionsAgree ==
  ASSUME NEW b, NEW s, NEW t, NEW n \in Nat, NEW m \in Nat, n <= m, NEW f, NEW g,
         Solves(f, b, s, n), Solves(g, b, t, m), \A i \in 1..n : s[i] = t[i]
  PROVE  \A u \in SUBSET (1..n) : f[u] = g[u]
<1> DEFINE N == {k \in Nat : k <= n => \A u \in SUBSET (1..k) : f[u] = g[u]}
<1>0. \A u \in SUBSET (1..n) :
        /\ f[u] = IF u = {} THEN b ELSE Op(f[u \ {Greatest(u)}], s[Greatest(u)])
        /\ g[u] = IF u = {} THEN b ELSE Op(g[u \ {Greatest(u)}], t[Greatest(u)])
  <2>1. \A u \in SUBSET (1..n) : f[u] = IF u = {} THEN b ELSE Op(f[u \ {Greatest(u)}], s[Greatest(u)])
    BY DEF Solves
  <2>2. \A u \in SUBSET (1..m) : g[u] = IF u = {} THEN b ELSE Op(g[u \ {Greatest(u)}], t[Greatest(u)])
    BY DEF Solves
  <2>3. \A u \in SUBSET (1..n) : u \in SUBSET (1..m)
    OBVIOUS
  <2> QED BY <2>1, <2>2, <2>3
<1>1. 0 \in N
  <2>1. \A u \in SUBSET (1..0) : u = {}
    OBVIOUS
  <2>2. {} \in SUBSET (1..n)
    OBVIOUS
  <2>3. f[{}] = b /\ g[{}] = b
    BY <1>0, <2>2
  <2> QED BY <2>1, <2>3
<1>2. ASSUME NEW k \in Nat, k \in N PROVE k + 1 \in N
  <2> SUFFICES ASSUME k + 1 <= n, NEW u \in SUBSET (1..(k + 1)) PROVE f[u] = g[u]
    OBVIOUS
  <2>1. \A v \in SUBSET (1..k) : f[v] = g[v]
    BY <1>2
  <2>2. CASE k + 1 \in u
    <3>1. Greatest(u) = k + 1 /\ u \ {Greatest(u)} \in SUBSET (1..k) /\ u # {}
      BY <2>2, MaxOfLast
    <3>2. u \in SUBSET (1..n) /\ s[k + 1] = t[k + 1]
      OBVIOUS
    <3> QED BY <1>0, <2>1, <3>1, <3>2
  <2>3. CASE k + 1 \notin u
    <3>1. u \in SUBSET (1..k)
      BY <2>3
    <3> QED BY <2>1, <3>1
  <2> QED BY <2>2, <2>3
<1>3. Nat \subseteq N
  <2> HIDE DEF N
  <2> QED BY <1>1, <1>2, Induction
<1> QED BY <1>3

LEMMA SolutionExists == ASSUME NEW b, NEW s, NEW n \in Nat PROVE \E f : Solves(f, b, s, n)
<1> DEFINE N == {k \in Nat : \E f : Solves(f, b, s, k)}
<1>1. 0 \in N
  <2>1. Solves([u \in SUBSET (1..0) |-> b], b, s, 0)
    BY DEF Solves
  <2> QED BY <2>1
<1>2. ASSUME NEW k \in Nat, k \in N PROVE k + 1 \in N
  <2>1. PICK f : Solves(f, b, s, k)
    BY <1>2
  <2> DEFINE g == [u \in SUBSET (1..(k + 1)) |->
                     IF k + 1 \in u THEN Op(f[u \ {k + 1}], s[k + 1]) ELSE f[u]]
  <2>2. \A u \in SUBSET (1..k) : g[u] = f[u]
    <3>1. \A u \in SUBSET (1..k) : u \in SUBSET (1..(k + 1)) /\ k + 1 \notin u
      OBVIOUS
    <3> QED BY <3>1
  <2>3. ASSUME NEW u \in SUBSET (1..(k + 1))
        PROVE  g[u] = IF u = {} THEN b ELSE Op(g[u \ {Greatest(u)}], s[Greatest(u)])
    <3>1. CASE k + 1 \in u
      <4>1. Greatest(u) = k + 1 /\ u \ {Greatest(u)} \in SUBSET (1..k) /\ u # {}
        BY <3>1, MaxOfLast
      <4>2. g[u] = Op(f[u \ {k + 1}], s[k + 1])
        BY <3>1
      <4> HIDE DEF g
      <4> QED BY <2>2, <4>1, <4>2
    <3>2. CASE k + 1 \notin u
      <4>1. u \in SUBSET (1..k)
        BY <3>2
      <4>2. f[u] = IF u = {} THEN b ELSE Op(f[u \ {Greatest(u)}], s[Greatest(u)])
        BY <2>1, <4>1 DEF Solves
      <4>3. u \ {Greatest(u)} \in SUBSET (1..k)
        BY <4>1
      <4> HIDE DEF g
      <4> QED BY <2>2, <4>1, <4>2, <4>3
    <3> QED BY <3>1, <3>2
  <2>4. Solves(g, b, s, k + 1)
    <3>1. g = [u \in SUBSET (1..(k + 1)) |-> g[u]]
      OBVIOUS
    <3> HIDE DEF g
    <3> QED BY <2>3, <3>1 DEF Solves
  <2> QED BY <2>4
<1>3. Nat \subseteq N
  <2> HIDE DEF N
  <2> QED BY <1>1, <1>2, Induction
<1> QED BY <1>3

\* What FoldLeft chooses.
LEMMA FoldIs ==
  ASSUME NEW b, NEW s, NEW n \in Nat, DOMAIN s = 1..n
  PROVE  \E f : Solves(f, b, s, n) /\ Fold(b, s) = f[1..n]
<1>1. Fold(b, s) = (CHOOSE f : Solves(f, b, s, n))[1..n]
  BY DEF Fold, Solves
<1>2. Solves(CHOOSE f : Solves(f, b, s, n), b, s, n)
  BY SolutionExists
<1> QED BY <1>1, <1>2
-----------------------------------------------------------------------------
(* What a fold computes. *)

LEMMA FoldEmpty == ASSUME NEW b PROVE Fold(b, <<>>) = b
<1>1. DOMAIN <<>> = 1..0
  OBVIOUS
<1>2. PICK f : Solves(f, b, <<>>, 0) /\ Fold(b, <<>>) = f[1..0]
  BY <1>1, FoldIs
<1> QED BY <1>2 DEF Solves

LEMMA FoldAppend ==
  ASSUME NEW E, NEW b, NEW s \in Seq(E), NEW e \in E
  PROVE  Fold(b, Append(s, e)) = Op(Fold(b, s), e)
<1> DEFINE t == Append(s, e)
           n == Len(s)
<1>1. /\ n \in Nat /\ DOMAIN s = 1..n /\ DOMAIN t = 1..(n + 1)
      /\ t[n + 1] = e /\ \A i \in 1..n : s[i] = t[i]
  BY AppendProperties, LenProperties
<1> HIDE DEF t, n
<1>2. PICK f : Solves(f, b, s, n) /\ Fold(b, s) = f[1..n]
  BY <1>1, FoldIs
<1>3. PICK g : Solves(g, b, t, n + 1) /\ Fold(b, t) = g[1..(n + 1)]
  <2>1. n + 1 \in Nat
    BY <1>1
  <2> QED BY <1>1, <2>1, FoldIs
<1>4. Greatest(1..(n + 1)) = n + 1 /\ (1..(n + 1)) \ {n + 1} = 1..n
  BY <1>1, MaxOfLast
<1>5. g[1..(n + 1)] = Op(g[1..n], e)
  <2>1. 1..(n + 1) \in SUBSET (1..(n + 1)) /\ 1..(n + 1) # {}
    BY <1>1
  <2>2. g[1..(n + 1)] = Op(g[(1..(n + 1)) \ {Greatest(1..(n + 1))}], t[Greatest(1..(n + 1))])
    BY <1>3, <2>1 DEF Solves
  <2> QED BY <1>1, <1>4, <2>2
<1>6. f[1..n] = g[1..n]
  <2>1. n + 1 \in Nat /\ n <= n + 1 /\ 1..n \in SUBSET (1..n)
    BY <1>1
  <2> QED BY <1>1, <1>2, <1>3, <2>1, SolutionsAgree
<1> QED BY <1>2, <1>3, <1>5, <1>6 DEF t

LEMMA FoldOne == ASSUME NEW b, NEW e PROVE Fold(b, <<e>>) = Op(b, e)
<1>1. \A s \in Seq({e}) : Fold(b, Append(s, e)) = Op(Fold(b, s), e)
  BY FoldAppend
<1>2. <<>> \in Seq({e}) /\ <<e>> = Append(<<>>, e)
  BY EmptySeq
<1> QED BY <1>1, <1>2, FoldEmpty, Zenon

\* A fold keeps what every step keeps.
LEMMA FoldKeeps ==
  ASSUME NEW E, NEW V, NEW b \in V, NEW s \in Seq(E), \A v \in V : \A e \in E : Op(v, e) \in V
  PROVE  Fold(b, s) \in V
<1> DEFINE P == {t \in Seq(E) : Fold(b, t) \in V}
<1>1. <<>> \in P
  BY EmptySeq, FoldEmpty
<1>2. ASSUME NEW t \in Seq(E), t \in P, NEW e \in E PROVE Append(t, e) \in P
  BY <1>2, FoldAppend, AppendProperties
<1>3. Seq(E) \subseteq P
  <2> HIDE DEF P
  <2> QED BY <1>1, <1>2, ListInduction
<1> QED BY <1>3

\* One list after another.
LEMMA FoldConcat ==
  ASSUME NEW E, NEW b, NEW s \in Seq(E), NEW t \in Seq(E)
  PROVE  Fold(b, s \o t) = Fold(Fold(b, s), t)
<1> DEFINE P == {u \in Seq(E) : Fold(b, s \o u) = Fold(Fold(b, s), u)}
<1>1. <<>> \in P
  BY EmptySeq, FoldEmpty, ConcatEmptySeq
<1>2. ASSUME NEW u \in Seq(E), u \in P, NEW e \in E PROVE Append(u, e) \in P
  <2>1. s \o Append(u, e) = Append(s \o u, e) /\ s \o u \in Seq(E) /\ Append(u, e) \in Seq(E)
    <3>1. s \o u \in Seq(E) /\ Append(u, e) \in Seq(E) /\ <<e>> \in Seq(E)
      BY ConcatProperties, AppendProperties
    <3>2. (s \o u) \o <<e>> = s \o (u \o <<e>>)
      BY <3>1, ConcatAssociative
    <3>3. Append(s \o u, e) = (s \o u) \o <<e>> /\ Append(u, e) = u \o <<e>>
      BY <3>1, AppendIsConcat
    <3> QED BY <3>1, <3>2, <3>3
  <2>2. Fold(b, s \o Append(u, e)) = Op(Fold(b, s \o u), e)
    <3>1. Fold(b, Append(s \o u, e)) = Op(Fold(b, s \o u), e)
      <4>1. \A w \in Seq(E) : Fold(b, Append(w, e)) = Op(Fold(b, w), e)
        BY FoldAppend
      <4> QED BY <2>1, <4>1, Zenon
    <3> QED BY <2>1, <3>1
  <2>3. Fold(Fold(b, s), Append(u, e)) = Op(Fold(Fold(b, s), u), e)
    BY FoldAppend
  <2> QED BY <1>2, <2>1, <2>2, <2>3
<1>3. Seq(E) \subseteq P
  <2> HIDE DEF P
  <2> QED BY <1>1, <1>2, ListInduction
<1> QED BY <1>3
=============================================================================
