------------------------- MODULE InitialLoadProofs -------------------------
(***************************************************************************)
(* Proofs about the initial load of a slave, for every database, page size *)
(* and number of operations, loads and faults: once the load was handed    *)
(* over and replication has caught up, the slave has what the master has   *)
(* but for the causes that Converges lists, and an increment is merged     *)
(* twice only if it was made after the load began; and the pages pass over *)
(* few keys of those the master has.                                       *)
(***************************************************************************)
EXTENDS InitialLoad, FiniteSetTheorems, SequenceTheorems, WellFoundedInduction, TLAPS

USE BoundsAssumption, ConfigAssumption, FaultsAssumption

Entries == [kind : AllKinds, key : Keys]
Causes == {"older", "passed", "refused", "undone", "unanchored"}
Pcs == {"none", "snapshot", "range", "last", "release", "done", "stopped"}
LoadType ==
  [pc : Pcs, start : 0..(MaxOps + 1),
   from : {Nothing} \cup Keys, beg : BOOLEAN, began : 0..MaxOps, setnx : BOOLEAN]
IsPage(h) ==
  /\ h = [values |-> h.values, read |-> h.read, fin |-> h.fin]
  /\ h.read \in Nat /\ h.fin \in BOOLEAN
  /\ DOMAIN h.values \subseteq Keys /\ \A k \in DOMAIN h.values : h.values[k] \in Value

Typed ==
  /\ log \in Seq(Entries) /\ Len(log) <= MaxOps
  /\ mdata \in [Keys -> Value] /\ sdata \in [Keys -> Value]
  /\ load \in LoadType /\ \A h \in held : IsPage(h)
  /\ sseq \in Nat /\ file \in Nat /\ repl \in Nat /\ loads \in 0..MaxLoads
  /\ cause \in [Keys -> SUBSET Causes]

(***************************************************************************)
(* What the operations on a key, in a log l, have made of it: r is the     *)
(* last one up to n that left nothing of what was there before.            *)
(***************************************************************************)
Ops(l, k) == {n \in DOMAIN l : l[n].key = k}
Resets(l, k) == {n \in Ops(l, k) : l[n].kind # "inc"}
Puts(l, k) == {n \in Ops(l, k) : l[n].kind = "put"}

LastReset(l, k, n, r) ==
  /\ r \in {0} \cup Resets(l, k) /\ r <= n
  /\ \A j \in Resets(l, k) : j <= n => j <= r

BaseOf(l, k, r) == IF r \in Puts(l, k) THEN r ELSE 0
IncsOf(l, k, r, n) == {i \in Ops(l, k) : r < i /\ i <= n}

\* v is the value of k after the first n operations, but for repeated increments.
AsOf(l, v, k, n) ==
  \E r \in 0..n : LastReset(l, k, n, r) /\ v.base = BaseOf(l, k, r) /\ ToSet(v.incs) = IncsOf(l, k, r, n)

\* v was the value of k after more than the first p - 1 operations, and those of the
\* increments among these that nothing reset are merged into it, maybe once more.
Ahead(l, v, k, p) ==
  \E n \in p..Len(l) : \E r \in 0..n :
    /\ LastReset(l, k, n, r) /\ v.base = BaseOf(l, k, r)
    /\ IncsOf(l, k, r, n) \subseteq ToSet(v.incs)
    /\ \A x \in ToSet(v.incs) \ IncsOf(l, k, r, n) :
         x \in Ops(l, k) /\ x < p /\ \A j \in Resets(l, k) : ~(x <= j /\ j < p)

\* v is right for replication to go on with operation p.
Right(l, v, k, p) == AsOf(l, v, k, p - 1) \/ Ahead(l, v, k, p)

\* What the slave has of a key that was loaded or need not be.
Settled(k) ==
  IF repl = 0
  THEN \E n \in 0..Len(log) : load.began <= n /\ load.start <= n + 1 /\ AsOf(log, sdata[k], k, n)
  ELSE Right(log, sdata[k], k, repl)

Loading ==
  /\ repl # 0 => load.pc = "done" /\ load.start <= repl
  /\ load.pc \in {"none", "snapshot"} => load.from = Nothing /\ load.start = 0
  /\ load.beg => load.from = Nothing
  /\ load.began <= Len(log) /\ load.start <= Len(log) + 1
  /\ load.start # 0 => load.began < load.start

Unread(k) == load.pc \in {"snapshot", "range"} /\ k > load.from
Unwritten(k) == \E h \in held : k \in DOMAIN h.values

PagesHeld ==
  /\ held # {} => load.pc \in {"range", "last", "release", "done"}
  /\ \A h \in held :
       /\ h.read <= Len(log) /\ load.began <= h.read /\ load.start <= h.read + 1
       /\ \A k \in DOMAIN h.values : ~Unread(k) /\ AsOf(log, h.values[k], k, h.read)
       /\ h.fin => load.pc = "last"
       /\ \A g \in held : g # h => DOMAIN g.values \cap DOMAIN h.values = {} /\ ~(g.fin /\ h.fin)

MasterHas == \A k \in Keys : AsOf(log, mdata[k], k, Len(log))

HasOf(k) ==
  /\ Unread(k) => sdata[k] = Missing
  /\ Unwritten(k) => sdata[k] = Missing \/ k \in Touched(load.start, repl - 1)
  /\ ~Unread(k) /\ ~Unwritten(k) => Settled(k)

SlaveHas == load.pc \notin {"none", "stopped"} => \A k \in Keys : cause[k] = {} => HasOf(k)

LoadInv == Typed /\ Loading /\ PagesHeld /\ MasterHas /\ SlaveHas

\* Of a list of numbers those up to n occur once.
OnceTo(n, s) == \A i, j \in DOMAIN s : i # j /\ s[i] = s[j] => s[i] > n

Doubles ==
  /\ \A k \in Keys : OnceTo(MaxOps, mdata[k].incs)
  /\ \A h \in held : \A k \in DOMAIN h.values : OnceTo(MaxOps, h.values[k].incs)
  /\ load.start # 0 => \A k \in Keys : cause[k] = {} => OnceTo(load.began, sdata[k].incs)
-----------------------------------------------------------------------------
(* Logs and values. *)

LEMMA OpsOfLog ==
  ASSUME NEW l \in Seq(Entries), NEW k
  PROVE  /\ Ops(l, k) = {n \in 1..Len(l) : l[n].key = k} /\ Len(l) \in Nat
         /\ Resets(l, k) \subseteq Ops(l, k) /\ Puts(l, k) \subseteq Resets(l, k)
         /\ Ops(l, k) \subseteq Nat \ {0}
BY LenProperties DEF Ops, Resets, Puts

LEMMA LogGrows ==
  ASSUME NEW l \in Seq(Entries), NEW e \in Entries, NEW k
  PROVE  /\ Append(l, e) \in Seq(Entries) /\ Len(Append(l, e)) = Len(l) + 1
         /\ Ops(Append(l, e), k) = Ops(l, k) \cup (IF e.key = k THEN {Len(l) + 1} ELSE {})
         /\ Resets(Append(l, e), k) =
              Resets(l, k) \cup (IF e.key = k /\ e.kind # "inc" THEN {Len(l) + 1} ELSE {})
         /\ Puts(Append(l, e), k) =
              Puts(l, k) \cup (IF e.key = k /\ e.kind = "put" THEN {Len(l) + 1} ELSE {})
<1> DEFINE m == Append(l, e)
<1>1. /\ m \in Seq(Entries) /\ Len(m) = Len(l) + 1 /\ Len(l) \in Nat /\ m[Len(l) + 1] = e
      /\ \A i \in 1..Len(l) : m[i] = l[i]
  BY AppendProperties, LenProperties
<1>2. DOMAIN m = 1..(Len(l) + 1) /\ DOMAIN l = 1..Len(l)
  BY <1>1, LenProperties
<1> HIDE DEF m
<1>3. Ops(m, k) = Ops(l, k) \cup (IF e.key = k THEN {Len(l) + 1} ELSE {})
  BY <1>1, <1>2 DEF Ops
<1>4. \A i \in Ops(l, k) : m[i] = l[i]
  BY <1>1, <1>2 DEF Ops
<1>5. Resets(m, k) = Resets(l, k) \cup (IF e.key = k /\ e.kind # "inc" THEN {Len(l) + 1} ELSE {})
  BY <1>1, <1>3, <1>4 DEF Resets
<1>6. Puts(m, k) = Puts(l, k) \cup (IF e.key = k /\ e.kind = "put" THEN {Len(l) + 1} ELSE {})
  BY <1>1, <1>3, <1>4 DEF Puts
<1> QED BY <1>1, <1>3, <1>5, <1>6 DEF m

\* A later operation says nothing of the value after n, unless n is beyond it and it
\* has the same key.
LEMMA AsOfGrows ==
  ASSUME NEW l \in Seq(Entries), NEW e \in Entries, NEW k, NEW v, NEW n \in Nat,
         n <= Len(l) \/ e.key # k, AsOf(l, v, k, n)
  PROVE  AsOf(Append(l, e), v, k, n)
<1> DEFINE m == Append(l, e)
<1>1. PICK r \in 0..n : LastReset(l, k, n, r) /\ v.base = BaseOf(l, k, r) /\ ToSet(v.incs) = IncsOf(l, k, r, n)
  BY DEF AsOf
<1>2. /\ Ops(m, k) = Ops(l, k) \cup (IF e.key = k THEN {Len(l) + 1} ELSE {})
      /\ Resets(m, k) = Resets(l, k) \cup (IF e.key = k /\ e.kind # "inc" THEN {Len(l) + 1} ELSE {})
      /\ Puts(m, k) = Puts(l, k) \cup (IF e.key = k /\ e.kind = "put" THEN {Len(l) + 1} ELSE {})
      /\ Ops(l, k) \subseteq Nat \ {0} /\ Resets(l, k) \subseteq Ops(l, k) /\ Len(l) \in Nat
  BY LogGrows, OpsOfLog
<1> HIDE DEF m
<1>3. LastReset(m, k, n, r)
  BY <1>1, <1>2 DEF LastReset
<1>4. BaseOf(m, k, r) = BaseOf(l, k, r) /\ IncsOf(m, k, r, n) = IncsOf(l, k, r, n)
  BY <1>1, <1>2 DEF BaseOf, IncsOf
<1> QED BY <1>1, <1>3, <1>4 DEF AsOf, m

LEMMA AheadGrows ==
  ASSUME NEW l \in Seq(Entries), NEW e \in Entries, NEW k, NEW v, NEW p \in Nat, Ahead(l, v, k, p)
  PROVE  Ahead(Append(l, e), v, k, p)
<1> DEFINE m == Append(l, e)
<1>0. PICK n \in p..Len(l) : \E r \in 0..n :
        /\ LastReset(l, k, n, r) /\ v.base = BaseOf(l, k, r)
        /\ IncsOf(l, k, r, n) \subseteq ToSet(v.incs)
        /\ \A x \in ToSet(v.incs) \ IncsOf(l, k, r, n) :
             x \in Ops(l, k) /\ x < p /\ \A j \in Resets(l, k) : ~(x <= j /\ j < p)
  BY DEF Ahead
<1>1. PICK r \in 0..n :
        /\ LastReset(l, k, n, r) /\ v.base = BaseOf(l, k, r)
        /\ IncsOf(l, k, r, n) \subseteq ToSet(v.incs)
        /\ \A x \in ToSet(v.incs) \ IncsOf(l, k, r, n) :
             x \in Ops(l, k) /\ x < p /\ \A j \in Resets(l, k) : ~(x <= j /\ j < p)
  BY <1>0
<1>2. /\ Ops(m, k) = Ops(l, k) \cup (IF e.key = k THEN {Len(l) + 1} ELSE {})
      /\ Resets(m, k) = Resets(l, k) \cup (IF e.key = k /\ e.kind # "inc" THEN {Len(l) + 1} ELSE {})
      /\ Puts(m, k) = Puts(l, k) \cup (IF e.key = k /\ e.kind = "put" THEN {Len(l) + 1} ELSE {})
      /\ Ops(l, k) \subseteq Nat \ {0} /\ Resets(l, k) \subseteq Ops(l, k) /\ Len(l) \in Nat
      /\ Len(m) = Len(l) + 1
  BY LogGrows, OpsOfLog
<1> HIDE DEF m
<1>3. n \in p..Len(m) /\ n <= Len(l)
  BY <1>1, <1>2
<1>4. LastReset(m, k, n, r)
  BY <1>1, <1>2, <1>3 DEF LastReset
<1>5. BaseOf(m, k, r) = BaseOf(l, k, r) /\ IncsOf(m, k, r, n) = IncsOf(l, k, r, n)
  BY <1>1, <1>2, <1>3 DEF BaseOf, IncsOf
<1>6. \A x \in ToSet(v.incs) \ IncsOf(m, k, r, n) :
         x \in Ops(m, k) /\ x < p /\ \A j \in Resets(m, k) : ~(x <= j /\ j < p)
  BY <1>1, <1>2, <1>3, <1>5
<1> QED BY <1>1, <1>3, <1>4, <1>5, <1>6 DEF Ahead, m

\* Nothing done to a key leaves it as it was.
LEMMA AsOfQuiet ==
  ASSUME NEW l \in Seq(Entries), NEW k, NEW v, NEW n \in Nat, NEW m \in Nat, n <= m,
         \A i \in Ops(l, k) : ~(n < i /\ i <= m), AsOf(l, v, k, n)
  PROVE  AsOf(l, v, k, m)
<1>1. PICK r \in 0..n : LastReset(l, k, n, r) /\ v.base = BaseOf(l, k, r) /\ ToSet(v.incs) = IncsOf(l, k, r, n)
  BY DEF AsOf
<1>2. Ops(l, k) \subseteq Nat \ {0} /\ Resets(l, k) \subseteq Ops(l, k)
  BY OpsOfLog
<1>3. LastReset(l, k, m, r) /\ IncsOf(l, k, r, m) = IncsOf(l, k, r, n) /\ r \in 0..m
  BY <1>1, <1>2 DEF LastReset, IncsOf
<1> QED BY <1>1, <1>3 DEF AsOf

\* There is one such value, but for how often an increment was merged.
LEMMA AsOfOne ==
  ASSUME NEW l \in Seq(Entries), NEW k, NEW v, NEW w, NEW n \in Nat, AsOf(l, v, k, n), AsOf(l, w, k, n)
  PROVE  SameOps(v, w)
<1>1. PICK r \in 0..n : LastReset(l, k, n, r) /\ v.base = BaseOf(l, k, r) /\ ToSet(v.incs) = IncsOf(l, k, r, n)
  BY DEF AsOf
<1>2. PICK q \in 0..n : LastReset(l, k, n, q) /\ w.base = BaseOf(l, k, q) /\ ToSet(w.incs) = IncsOf(l, k, q, n)
  BY DEF AsOf
<1>3. Resets(l, k) \subseteq Nat \ {0}
  BY OpsOfLog
<1>4. q = r
  BY <1>1, <1>2, <1>3 DEF LastReset
<1> QED BY <1>1, <1>2, <1>4 DEF SameOps

\* The value after an operation, of that before it.
LEMMA AsOfReset ==
  ASSUME NEW l \in Seq(Entries), NEW k, NEW v, NEW n \in Resets(l, k)
  PROVE  AsOf(l, Applied(l[n].kind, n, v), k, n)
<1> DEFINE w == Applied(l[n].kind, n, v)
<1>1. /\ n \in Nat \ {0} /\ n \in Ops(l, k) /\ l[n].kind # "inc" /\ Resets(l, k) \subseteq Nat
      /\ l[n].kind \in AllKinds
  <2>1. n \in 1..Len(l) /\ n \in Ops(l, k) /\ l[n].kind # "inc" /\ Resets(l, k) \subseteq Nat
    BY OpsOfLog DEF Resets
  <2>2. l[n] \in Entries
    BY <2>1, ElementOfSeq
  <2> QED BY <2>1, <2>2 DEF Entries
<1>2. n \in Puts(l, k) <=> l[n].kind = "put"
  BY <1>1 DEF Puts
<1>3. w = [base |-> BaseOf(l, k, n), incs |-> <<>>]
  BY <1>1, <1>2 DEF Applied, Missing, BaseOf, AllKinds
<1> HIDE DEF w
<1>4. w.base = BaseOf(l, k, n) /\ w.incs = <<>>
  BY <1>3
<1>5. ToSet(w.incs) = {}
  BY <1>4, EmptySeq DEF ToSet
<1>6. LastReset(l, k, n, n) /\ IncsOf(l, k, n, n) = {} /\ n \in 0..n
  BY <1>1, OpsOfLog DEF LastReset, IncsOf
<1> QED BY <1>4, <1>5, <1>6 DEF AsOf, w

LEMMA AppliedInc ==
  ASSUME NEW v \in Value, NEW n \in 1..MaxOps
  PROVE  LET w == Applied("inc", n, v)
         IN  /\ w \in Value /\ w.base = v.base /\ w.incs = Append(v.incs, n)
             /\ ToSet(w.incs) = ToSet(v.incs) \cup {n}
<1> DEFINE w == Applied("inc", n, v)
<1>1. v.incs \in Seq(1..MaxOps) /\ v.base \in 0..MaxOps
  BY DEF Value
<1>2. w = [v EXCEPT !.incs = Append(@, n)]
  BY DEF Applied
<1>3. Append(v.incs, n) \in Seq(1..MaxOps)
  BY <1>1, AppendProperties
<1>4. w = [base |-> v.base, incs |-> Append(v.incs, n)]
  BY <1>2 DEF Value
<1> HIDE DEF w
<1>5. w \in Value /\ w.base = v.base /\ w.incs = Append(v.incs, n)
  BY <1>1, <1>3, <1>4 DEF Value
<1>6. ToSet(Append(v.incs, n)) = ToSet(v.incs) \cup {n}
  <2>1. /\ Len(v.incs) \in Nat /\ DOMAIN v.incs = 1..Len(v.incs)
        /\ DOMAIN Append(v.incs, n) = 1..(Len(v.incs) + 1)
        /\ Append(v.incs, n)[Len(v.incs) + 1] = n
        /\ \A i \in 1..Len(v.incs) : Append(v.incs, n)[i] = v.incs[i]
    BY <1>1, <1>3, AppendProperties, LenProperties
  <2> QED BY <2>1 DEF ToSet
<1> QED BY <1>5, <1>6 DEF w

LEMMA AsOfInc ==
  ASSUME NEW l \in Seq(Entries), Len(l) <= MaxOps, NEW k, NEW v \in Value,
         NEW n \in Ops(l, k) \ Resets(l, k), AsOf(l, v, k, n - 1)
  PROVE  AsOf(l, Applied("inc", n, v), k, n)
<1> DEFINE w == Applied("inc", n, v)
<1>1. /\ n \in 1..MaxOps /\ Ops(l, k) \subseteq Nat \ {0} /\ Resets(l, k) \subseteq Ops(l, k)
  BY OpsOfLog
<1>2. PICK r \in 0..(n - 1) :
        /\ LastReset(l, k, n - 1, r) /\ v.base = BaseOf(l, k, r)
        /\ ToSet(v.incs) = IncsOf(l, k, r, n - 1)
  BY DEF AsOf
<1>3. w.base = v.base /\ ToSet(w.incs) = ToSet(v.incs) \cup {n}
  BY <1>1, AppliedInc
<1> HIDE DEF w
<1>4. LastReset(l, k, n, r) /\ r \in 0..n
  BY <1>1, <1>2 DEF LastReset
<1>5. IncsOf(l, k, r, n) = IncsOf(l, k, r, n - 1) \cup {n}
  BY <1>1, <1>2 DEF IncsOf
<1> QED BY <1>2, <1>3, <1>4, <1>5 DEF AsOf, w

\* Replication goes on, over values that are ahead of it and are caught up with.
LEMMA AheadNext ==
  ASSUME NEW l \in Seq(Entries), NEW k, NEW v, NEW w, NEW p \in 1..Len(l), p \notin Resets(l, k),
         w.base = v.base, ToSet(w.incs) = ToSet(v.incs) \cup (Ops(l, k) \cap {p}), Ahead(l, v, k, p)
  PROVE  Right(l, w, k, p + 1)
<1>1. PICK n \in p..Len(l) : \E r \in 0..n :
        /\ LastReset(l, k, n, r) /\ v.base = BaseOf(l, k, r)
        /\ IncsOf(l, k, r, n) \subseteq ToSet(v.incs)
        /\ \A x \in ToSet(v.incs) \ IncsOf(l, k, r, n) :
             x \in Ops(l, k) /\ x < p /\ \A j \in Resets(l, k) : ~(x <= j /\ j < p)
  BY DEF Ahead
<1>2. PICK r \in 0..n :
        /\ LastReset(l, k, n, r) /\ v.base = BaseOf(l, k, r)
        /\ IncsOf(l, k, r, n) \subseteq ToSet(v.incs)
        /\ \A x \in ToSet(v.incs) \ IncsOf(l, k, r, n) :
             x \in Ops(l, k) /\ x < p /\ \A j \in Resets(l, k) : ~(x <= j /\ j < p)
  BY <1>1
<1>3. /\ Ops(l, k) \subseteq Nat \ {0} /\ Resets(l, k) \subseteq Ops(l, k) /\ Len(l) \in Nat
      /\ p \in Nat /\ n \in Nat /\ r \in Nat
  BY OpsOfLog, <1>1, <1>2
<1>4. IncsOf(l, k, r, n) \subseteq ToSet(w.incs)
  BY <1>2
<1>5. ASSUME NEW x \in ToSet(w.incs) \ IncsOf(l, k, r, n)
      PROVE  x \in Ops(l, k) /\ x < p + 1 /\ \A j \in Resets(l, k) : ~(x <= j /\ j < p + 1)
  BY <1>2, <1>3
<1>6. CASE p < n
  <2>1. n \in (p + 1)..Len(l)
    BY <1>1, <1>3, <1>6
  <2> QED BY <1>2, <1>4, <1>5, <2>1 DEF Ahead, Right
<1>7. CASE p = n
  <2>1. ToSet(w.incs) = IncsOf(l, k, r, n)
    <3>1. SUFFICES ASSUME NEW x \in ToSet(w.incs) \ IncsOf(l, k, r, n) PROVE FALSE
      BY <1>4
    <3>2. x \in Ops(l, k) /\ x <= n /\ x \in Nat \ {0}
      BY <1>3, <1>5, <1>7
    <3>3. r = 0 \/ ~(x <= r /\ r < p + 1)
      BY <1>2, <1>5 DEF LastReset
    <3>4. r < x
      BY <1>2, <1>3, <1>7, <3>2, <3>3
    <3> QED BY <3>2, <3>4 DEF IncsOf
  <2>2. (p + 1) - 1 = n
    BY <1>3, <1>7
  <2> QED BY <1>2, <2>1, <2>2 DEF AsOf, Right
<1> QED BY <1>1, <1>3, <1>6, <1>7

LEMMA RightNext ==
  ASSUME NEW l \in Seq(Entries), Len(l) <= MaxOps, NEW k, NEW v \in Value, NEW p \in 1..Len(l),
         Right(l, v, k, p) \/ p \in Resets(l, k)
  PROVE  Right(l, IF p \in Ops(l, k) THEN Applied(l[p].kind, p, v) ELSE v, k, p + 1)
<1>1. Len(l) \in Nat /\ p \in Nat \ {0} /\ p \in 1..MaxOps /\ (p + 1) - 1 = p
  BY LenProperties
<1>2. CASE p \in Resets(l, k)
  BY <1>1, <1>2, AsOfReset DEF Right, Resets
<1>3. CASE p \in Ops(l, k) \ Resets(l, k)
  <2>1. l[p].kind = "inc"
    BY <1>3 DEF Resets
  <2> DEFINE w == Applied("inc", p, v)
  <2>2. w.base = v.base /\ ToSet(w.incs) = ToSet(v.incs) \cup {p} /\ Ops(l, k) \cap {p} = {p}
    BY <1>1, <1>3, AppliedInc
  <2>3. AsOf(l, v, k, p - 1) => AsOf(l, w, k, p)
    BY <1>3, AsOfInc
  <2> HIDE DEF w
  <2>4. Ahead(l, v, k, p) => Right(l, w, k, p + 1)
    BY <1>3, <2>2, AheadNext
  <2> QED BY <1>1, <1>3, <2>1, <2>3, <2>4 DEF Right, w
<1>4. CASE p \notin Ops(l, k)
  <2>1. AsOf(l, v, k, p - 1) => AsOf(l, v, k, p)
    <3>1. p - 1 \in Nat /\ p - 1 <= p /\ \A i \in Ops(l, k) : ~(p - 1 < i /\ i <= p)
      BY <1>1, <1>4, OpsOfLog
    <3> QED BY <1>1, <3>1, AsOfQuiet
  <2>2. Ahead(l, v, k, p) => Right(l, v, k, p + 1)
    <3>1. p \notin Resets(l, k) /\ ToSet(v.incs) = ToSet(v.incs) \cup (Ops(l, k) \cap {p})
      BY <1>4, OpsOfLog
    <3> QED BY <3>1, AheadNext
  <2> QED BY <1>1, <1>4, <2>1, <2>2, OpsOfLog DEF Right
<1> QED BY <1>2, <1>3, <1>4 DEF Resets

\* A value read after n operations is right to go on with p, if nothing was done to the
\* key between them.
LEMMA ReadIsRight ==
  ASSUME NEW l \in Seq(Entries), NEW k, NEW v, NEW n \in 0..Len(l), NEW p \in Nat \ {0}, AsOf(l, v, k, n),
         \A i \in Ops(l, k) : ~(n < i /\ i < p)
  PROVE  Right(l, v, k, p)
<1>1. Len(l) \in Nat /\ n \in Nat /\ Ops(l, k) \subseteq Nat
  BY OpsOfLog
<1>2. CASE n <= p - 1
  <2>1. p - 1 \in Nat /\ \A i \in Ops(l, k) : ~(n < i /\ i <= p - 1)
    BY <1>1
  <2> QED BY <1>1, <1>2, <2>1, AsOfQuiet DEF Right
<1>3. CASE p <= n
  <2>1. PICK r \in 0..n :
          LastReset(l, k, n, r) /\ v.base = BaseOf(l, k, r) /\ ToSet(v.incs) = IncsOf(l, k, r, n)
    BY DEF AsOf
  <2>2. n \in p..Len(l)
    BY <1>1, <1>3
  <2> QED BY <2>1, <2>2 DEF Ahead, Right
<1> QED BY <1>1, <1>2, <1>3
-----------------------------------------------------------------------------
(* What the steps are made of. *)

LEMMA MissingFacts == Missing \in Value /\ Missing.base = 0 /\ Missing.incs = <<>> /\ ToSet(Missing.incs) = {}
<1>1. Missing.base = 0 /\ Missing.incs = <<>>
  BY DEF Missing
<1>2. <<>> \in Seq(1..MaxOps) /\ ToSet(<<>>) = {}
  BY EmptySeq DEF ToSet
<1>3. Missing \in Value
  BY <1>2 DEF Missing, Value
<1> QED BY <1>1, <1>2, <1>3

LEMMA AppliedIsValue ==
  ASSUME NEW v \in Value, NEW n \in 1..MaxOps, NEW kind \in AllKinds
  PROVE  Applied(kind, n, v) \in Value
<1>1. CASE kind = "put"
  <2>1. <<>> \in Seq(1..MaxOps)
    BY EmptySeq
  <2> QED BY <1>1, <2>1 DEF Applied, Value
<1>2. CASE kind = "del"
  BY <1>2, MissingFacts DEF Applied
<1>3. CASE kind = "inc"
  BY <1>3, AppliedInc
<1> QED BY <1>1, <1>2, <1>3 DEF AllKinds

LEMMA LoadMoves ==
  ASSUME Typed, NEW pc \in Pcs
  PROVE  LET to == [load EXCEPT !.pc = pc]
         IN  /\ to \in LoadType /\ to.pc = pc
             /\ to.start = load.start /\ to.from = load.from /\ to.beg = load.beg
             /\ to.began = load.began /\ to.setnx = load.setnx
BY DEF Typed, LoadType

LEMMA LoadStarts ==
  ASSUME Typed, NEW n \in 0..(MaxOps + 1)
  PROVE  LET to == [load EXCEPT !.pc = "range", !.start = n]
         IN  /\ to.pc = "range" /\ to.start = n /\ to.from = load.from /\ to.beg = load.beg
             /\ to.began = load.began /\ to.setnx = load.setnx
BY DEF Typed, LoadType, Pcs

LEMMA LoadGoesOn ==
  ASSUME Typed, NEW f, load' = [load EXCEPT !.from = f, !.beg = FALSE]
  PROVE  /\ load'.pc = load.pc /\ load'.start = load.start /\ load'.from = f /\ ~load'.beg
         /\ load'.began = load.began /\ load'.setnx = load.setnx
BY DEF Typed, LoadType, Pcs

LEMMA IdleIs ==
  /\ Idle.pc = "none" /\ Idle.start = 0 /\ Idle.from = Nothing /\ Idle.began = 0
  /\ \A n \in 0..MaxOps, setnx \in BOOLEAN :
       LET to == [Idle EXCEPT !.pc = "snapshot", !.began = n, !.setnx = setnx]
       IN  to.pc = "snapshot" /\ to.start = 0 /\ to.from = Nothing /\ to.began = n
<1>1. Idle \in LoadType /\ Idle.pc = "none" /\ Idle.start = 0 /\ Idle.from = Nothing /\ Idle.began = 0
  BY DEF Idle, LoadType, Pcs
<1>2. ASSUME NEW i \in LoadType, NEW n \in 0..MaxOps, NEW setnx \in BOOLEAN
      PROVE  LET to == [i EXCEPT !.pc = "snapshot", !.began = n, !.setnx = setnx]
             IN  to.pc = "snapshot" /\ to.start = i.start /\ to.from = i.from /\ to.began = n
  BY DEF LoadType
<1> HIDE DEF Idle
<1> QED BY <1>1, <1>2

LEMMA LoadIs ==
  Typed => /\ load.pc \in Pcs /\ load.start \in Nat /\ load.from \in {Nothing} \cup Keys /\ load.beg \in BOOLEAN
           /\ load.began \in Nat /\ load.setnx \in BOOLEAN
BY DEF Typed, LoadType

LEMMA TouchedOf ==
  ASSUME NEW l \in Seq(Entries), NEW k, NEW first \in Int, NEW last \in Int
  PROVE  k \in {l[n].key : n \in DOMAIN l \cap (first..last)}
           <=> \E n \in Ops(l, k) : first <= n /\ n <= last
<1>1. ASSUME k \in {l[n].key : n \in DOMAIN l \cap (first..last)} PROVE \E n \in Ops(l, k) : n \in first..last
  BY <1>1 DEF Ops
<1>2. ASSUME NEW n \in Ops(l, k), n \in first..last
      PROVE  k \in {l[i].key : i \in DOMAIN l \cap (first..last)}
  BY <1>2 DEF Ops
<1>3. Ops(l, k) \subseteq Nat
  BY OpsOfLog
<1> QED BY <1>1, <1>2, <1>3

LEMMA ExcusedIs ==
  ASSUME Typed, NEW S, NEW why \in Causes
  PROVE  /\ Excused(S, why) \in [Keys -> SUBSET Causes]
         /\ \A k \in Keys : Excused(S, why)[k] = {} <=> k \notin S /\ cause[k] = {}
BY DEF Typed, Excused

\* A set of numbers with a bound has a least one and a greatest one.
LEMMA Least == ASSUME NEW S, S \subseteq Nat, S # {} PROVE \E x \in S : \A y \in S : x <= y
<1> DEFINE R == {ss \in Nat \X Nat : ss[1] < ss[2]}
<1>1. IsWellFoundedOn(R, Nat)
  BY NatLessThanWellFounded, Zenon DEF OpToRel
<1>2. PICK x \in S : \A y \in S : ~(<<y, x>> \in R)
  <2> HIDE DEF R
  <2> QED BY <1>1, WFMin
<1>3. \A y \in S : ~(y < x)
  BY <1>2
<1> QED BY <1>3

LEMMA MaxIs == ASSUME NEW S, S \subseteq Keys, S # {} PROVE Max(S) \in S /\ \A y \in S : y <= Max(S)
<1>1. MaxKey \in Nat /\ \A y \in S : y \in Nat /\ y <= MaxKey /\ MaxKey - y \in Nat
  BY DEF Keys
<1> DEFINE T == {MaxKey - y : y \in S}
<1>2. T \subseteq Nat /\ T # {} /\ \A y \in S : MaxKey - y \in T
  BY <1>1
<1>3. PICK n \in T : \A m \in T : n <= m
  <2> HIDE DEF T
  <2> QED BY <1>2, Least
<1>4. PICK x \in S : n = MaxKey - x
  BY <1>3
<1>5. \A y \in S : MaxKey - x <= MaxKey - y
  BY <1>2, <1>3, <1>4
<1> HIDE DEF T
<1>6. \A y \in S : x >= y
  BY <1>1, <1>5
<1>7. Max(S) \in S /\ \A y \in S : Max(S) >= y
  BY <1>6 DEF Max
<1> QED BY <1>1, <1>7

\* The keys of a page are the master's, and come after those read before.
LEMMA FieldsFacts ==
  ASSUME Typed, Loading, NEW answer, answer = Answer(Present(mdata), Request)
  PROVE  /\ answer.fields \subseteq Present(mdata) /\ answer.fields \subseteq Keys
         /\ \A k \in answer.fields : k > load.from
         /\ answer.fin \in BOOLEAN
<1> DEFINE S == {k \in Present(mdata) : k >= Request.from}
           n == IF Request.beg THEN Request.offset ELSE Request.offset + 1
<1>1. Request.from = load.from /\ Request.beg = load.beg /\ Request.offset = 0
  BY DEF Request
<1>2. answer.fields \subseteq Drop(S, n)
  BY DEF Answer, Fields, Take, WithinEnd, Seek
<1>3. Present(mdata) \subseteq Keys
  BY DEF Present
<1>4. ASSUME NEW k \in Drop(S, n) PROVE k \in Present(mdata) /\ k > load.from
  <2>1. k \in Present(mdata) /\ k >= load.from /\ k \in Keys
    BY <1>1, <1>3 DEF Drop
  <2>2. CASE load.beg
    BY <2>1, <2>2 DEF Loading, Nothing, Keys
  <2>3. CASE ~load.beg
    <3>1. Rank(S, k) >= 1
      BY <1>1, <2>3, LoadIs DEF Drop
    <3>2. {j \in S : j < k} # {}
      BY <3>1, FS_EmptySet DEF Rank
    <3> QED BY <1>1, <1>3, <2>1, <3>2, LoadIs DEF Keys, Nothing
  <2> QED BY <2>2, <2>3
<1>5. answer.fin = Fin(Present(mdata), {}, Request)
  BY DEF Answer
<1>6. answer.fin \in BOOLEAN
  BY <1>5 DEF Fin
<1> HIDE DEF S, n
<1> QED BY <1>2, <1>3, <1>4, <1>6

LEMMA PostedFacts ==
  ASSUME Typed, NEW h \in held
  PROVE  LET g == [h EXCEPT !.fin = FALSE]
         IN  g = [values |-> h.values, read |-> h.read, fin |-> FALSE]
             /\ g.values = h.values /\ g.read = h.read /\ g.fin = FALSE
<1> DEFINE g == [h EXCEPT !.fin = FALSE]
<1>1. PICK no \in BOOLEAN : no = FALSE
  OBVIOUS
<1>2. h \in [values : {h.values}, read : {h.read}, fin : BOOLEAN]
  BY DEF IsPage, Typed
<1>3. ASSUME NEW v, NEW r, NEW i \in [values : {v}, read : {r}, fin : BOOLEAN]
      PROVE  [i EXCEPT !.fin = no] = [values |-> v, read |-> r, fin |-> no]
  OBVIOUS
<1>4. g = [values |-> h.values, read |-> h.read, fin |-> FALSE]
  BY <1>1, <1>2, <1>3, Zenon
<1> HIDE DEF g
<1>5. g.values = h.values /\ g.read = h.read /\ g.fin = FALSE
  BY <1>4
<1> QED BY <1>4, <1>5 DEF g
-----------------------------------------------------------------------------
(* Types. *)

LEMMA TypedSteps == ASSUME Typed, Loading, Next PROVE Typed'
<1>1. ASSUME NEW kind \in Kinds, NEW key \in Keys, MasterOp(kind, key) PROVE Typed'
  <2> DEFINE e == [kind |-> kind, key |-> key]
             n == Len(log) + 1
  <2>1. /\ Len(log) < MaxOps /\ log' = Append(log, e) /\ mdata' = [mdata EXCEPT ![key] = Applied(kind, n, @)]
        /\ cause' = cause \/ cause' = Excused({key}, "unanchored")
        /\ UNCHANGED <<load, held, sdata, sseq, file, repl, loads>>
    BY <1>1 DEF MasterOp
  <2>2. e \in Entries /\ kind \in AllKinds
    BY DEF Entries
  <2>3. n \in 1..MaxOps
    BY <2>1, LenProperties DEF Typed
  <2>4. Applied(kind, n, mdata[key]) \in Value
    BY <2>2, <2>3, AppliedIsValue DEF Typed
  <2>5. mdata' \in [Keys -> Value]
    BY <2>1, <2>4 DEF Typed
  <2> HIDE DEF e
  <2>6. log' \in Seq(Entries) /\ Len(log') <= MaxOps
    BY <2>1, <2>2, <2>3, LogGrows DEF Typed
  <2>7. cause' \in [Keys -> SUBSET Causes]
    BY <2>1, ExcusedIs DEF Causes, Typed
  <2> QED BY <2>1, <2>5, <2>6, <2>7 DEF Typed, IsPage
<1>2. CASE Start
  <2>1. PICK setnx \in UseSetnx : load' = [Idle EXCEPT !.pc = "snapshot", !.began = Len(log), !.setnx = setnx]
    BY <1>2 DEF Start
  <2>2. Len(log) \in 0..MaxOps
    BY LenProperties DEF Typed
  <2>3. [Idle EXCEPT !.pc = "snapshot", !.began = Len(log), !.setnx = setnx] \in LoadType
    <3>1. Idle \in LoadType /\ setnx \in BOOLEAN
      BY DEF Idle, LoadType, Pcs
    <3>2. \A i \in LoadType, b \in BOOLEAN, n \in 0..MaxOps :
             [i EXCEPT !.pc = "snapshot", !.began = n, !.setnx = b] \in LoadType
      BY DEF LoadType, Pcs
    <3> QED BY <2>2, <3>1, <3>2
  <2>4. cause' \in [Keys -> SUBSET Causes] /\ loads' \in 0..MaxLoads
    BY <1>2 DEF Start, Causes, Typed
  <2> QED BY <1>2, <2>1, <2>3, <2>4 DEF Start, Typed, IsPage
<1>3. CASE Stop
  <2>1. Idle \in LoadType
    BY DEF Idle, LoadType, Pcs
  <2> QED BY <1>3, <2>1 DEF Stop, Typed
<1>4. CASE CreateSnapshot \/ NoSnapshot \/ SnapshotRefused
  <2>1. Snapshot(Len(log)) \in 0..(MaxOps + 1)
    BY LenProperties DEF Typed, Snapshot
  <2>2. \A n \in 0..(MaxOps + 1) : [load EXCEPT !.pc = "range", !.start = n] \in LoadType
    BY DEF Typed, LoadType, Pcs
  <2>3. [load EXCEPT !.pc = "stopped"] \in LoadType
    BY LoadMoves DEF Pcs
  <2>4. load' \in LoadType
    <3>1. CASE CreateSnapshot
      BY <2>1, <2>2, <3>1 DEF CreateSnapshot
    <3>2. CASE NoSnapshot
      <4>1. 0 \in 0..(MaxOps + 1) /\ load' = [load EXCEPT !.pc = "range", !.start = 0]
        BY <3>2 DEF NoSnapshot
      <4> QED BY <2>2, <4>1, Zenon
    <3>3. CASE SnapshotRefused
      BY <2>3, <3>3 DEF SnapshotRefused
    <3> QED BY <1>4, <3>1, <3>2, <3>3
  <2> QED BY <1>4, <2>4 DEF CreateSnapshot, NoSnapshot, SnapshotRefused, Typed, IsPage
<1>5. CASE Page
  <2> DEFINE answer == Answer(Present(mdata), Request)
             h == [values |-> [k \in answer.fields |-> mdata[k]], read |-> Len(log), fin |-> answer.fin]
  <2>1. /\ held' = held \cup {h} /\ cause' = Excused(Passed(answer), "passed")
        /\ load' = IF answer.fin THEN [load EXCEPT !.pc = "last"]
                   ELSE [load EXCEPT !.from = NextFrom(answer.fields), !.beg = FALSE]
        /\ UNCHANGED <<log, mdata, sdata, sseq, file, repl, loads>>
    BY <1>5 DEF Page
  <2>2. answer.fields \subseteq Keys /\ answer.fin \in BOOLEAN
    BY FieldsFacts
  <2>3. cause' \in [Keys -> SUBSET Causes]
    BY <2>1, ExcusedIs DEF Causes
  <2> HIDE DEF answer
  <2>4. IsPage(h)
    BY <2>2, LenProperties DEF IsPage, Typed
  <2>5. load' \in LoadType
    <3>1. NextFrom(answer.fields) \in {Nothing} \cup Keys
      BY <2>2, MaxIs, LoadIs DEF NextFrom
    <3>2. \A f \in {Nothing} \cup Keys : [load EXCEPT !.from = f, !.beg = FALSE] \in LoadType
      BY DEF Typed, LoadType
    <3> QED BY <2>1, <3>1, <3>2, LoadMoves DEF Pcs
  <2> HIDE DEF h
  <2> QED BY <2>1, <2>3, <2>4, <2>5 DEF Typed, IsPage
<1>6. CASE PageRefused
  <2> DEFINE h == [values |-> <<>>, read |-> Len(log), fin |-> TRUE]
  <2>1. /\ held' = held \cup {h} /\ load' = [load EXCEPT !.pc = "last"]
        /\ cause' = Excused({k \in Present(mdata) : k > load.from}, "refused")
        /\ UNCHANGED <<log, mdata, sdata, sseq, file, repl, loads>>
    BY <1>6 DEF PageRefused
  <2>2. IsPage(h)
    BY LenProperties, EmptySeq DEF IsPage, Typed
  <2>3. cause' \in [Keys -> SUBSET Causes]
    BY <2>1, ExcusedIs DEF Causes
  <2>4. load' \in LoadType
    BY <2>1, LoadMoves DEF Pcs
  <2> HIDE DEF h
  <2> QED BY <2>1, <2>2, <2>3, <2>4 DEF Typed, IsPage
<1>7. ASSUME NEW h \in held, Write(h) PROVE Typed'
  <2>1. /\ held' = held \ {h}
        /\ sdata' = [k \in Keys |-> IF k \in DOMAIN h.values THEN SetValue(sdata[k], h.values[k]) ELSE sdata[k]]
        /\ sseq' = sseq + Cardinality(DOMAIN h.values)
        /\ load' = (IF h.fin THEN [load EXCEPT !.pc = "release"] ELSE load)
        /\ \E L : cause' = [k \in Keys |-> (IF k \in L THEN cause[k] \ {"older"} ELSE cause[k])
                                             \cup (IF k \in Overtaken(h) THEN {"undone"} ELSE {})]
        /\ UNCHANGED <<log, mdata, file, repl, loads>>
    BY <1>7 DEF Write
  <2>2. IsPage(h)
    BY DEF Typed
  <2>3. sdata' \in [Keys -> Value]
    BY <2>1, <2>2 DEF IsPage, SetValue, Typed
  <2>4. sseq' \in Nat
    <3>1. IsFiniteSet(Keys)
      BY FS_Interval DEF Keys
    <3>2. Cardinality(DOMAIN h.values) \in Nat
      BY <2>2, <3>1, FS_Subset, FS_CardinalityType DEF IsPage
    <3> QED BY <2>1, <3>2 DEF Typed
  <2>5. cause' \in [Keys -> SUBSET Causes]
    BY <2>1 DEF Typed, Causes
  <2>6. load' \in LoadType
    BY <2>1, LoadMoves DEF Pcs, Typed
  <2> QED BY <2>1, <2>3, <2>4, <2>5, <2>6 DEF Typed, IsPage
<1>8. ASSUME NEW h \in held, Post(h) PROVE Typed'
  <2> DEFINE g == [h EXCEPT !.fin = FALSE]
  <2>1. /\ held' = (held \ {h}) \cup {g} /\ load' = [load EXCEPT !.pc = "release"]
        /\ UNCHANGED <<log, mdata, sdata, sseq, file, repl, loads, cause>>
    BY <1>8 DEF Post
  <2>2. IsPage(g)
    <3>1. IsPage(h)
      BY DEF Typed
    <3>2. g = [values |-> h.values, read |-> h.read, fin |-> FALSE]
      BY PostedFacts
    <3> QED BY <3>1, <3>2 DEF IsPage
  <2>3. load' \in LoadType
    BY <2>1, LoadMoves DEF Pcs
  <2> HIDE DEF g
  <2> QED BY <2>1, <2>2, <2>3 DEF Typed, IsPage
<1>9. CASE Handover
  <2> DEFINE at == IF load.start # 0 THEN load.start ELSE IF file # 0 THEN file ELSE sseq + 1
  <2>1. /\ repl' = at /\ file' = (IF load.start # 0 THEN at ELSE file) /\ load' = [load EXCEPT !.pc = "done"]
        /\ cause' = cause \/ cause' = Excused(Touched(load.began + 1, at - 1), "unanchored")
        /\ UNCHANGED <<log, mdata, held, sdata, sseq, loads>>
    BY <1>9 DEF Handover
  <2>2. at \in Nat
    BY LoadIs DEF Typed
  <2>3. cause' \in [Keys -> SUBSET Causes]
    BY <2>1, ExcusedIs DEF Causes, Typed
  <2>4. load' \in LoadType
    BY <2>1, LoadMoves DEF Pcs
  <2> QED BY <2>1, <2>2, <2>3, <2>4 DEF Typed, IsPage
<1>10. CASE Replay
  <2> DEFINE op == log[repl]
  <2>1. /\ repl # 0 /\ repl <= Len(log) /\ sdata' = [sdata EXCEPT ![op.key] = Applied(op.kind, repl, @)]
        /\ cause' = cause \/ cause' = [cause EXCEPT ![op.key] = {}]
        /\ sseq' = sseq + 1 /\ repl' = repl + 1 /\ file' = repl + 1
        /\ UNCHANGED <<log, mdata, load, held, loads>>
    BY <1>10 DEF Replay
  <2>2. repl \in 1..Len(log) /\ repl \in 1..MaxOps
    BY <2>1, LenProperties DEF Typed
  <2>3. op \in Entries
    BY <2>2, ElementOfSeq DEF Typed
  <2>4. op.key \in Keys /\ op.kind \in AllKinds
    BY <2>3 DEF Entries
  <2> HIDE DEF op
  <2>5. Applied(op.kind, repl, sdata[op.key]) \in Value
    BY <2>2, <2>4, AppliedIsValue DEF Typed
  <2>6. sdata' \in [Keys -> Value] /\ cause' \in [Keys -> SUBSET Causes]
    BY <2>1, <2>4, <2>5 DEF Typed
  <2> QED BY <2>1, <2>6 DEF Typed, IsPage
<1> QED BY <1>1, <1>2, <1>3, <1>4, <1>5, <1>6, <1>7, <1>8, <1>9, <1>10 DEF Next, Load
-----------------------------------------------------------------------------
(* The load. *)

LEMMA StartFacts ==
  ASSUME Typed, Start
  PROVE  /\ load.pc = "none" /\ load'.pc = "snapshot" /\ load'.start = 0 /\ load'.from = Nothing
         /\ load'.began = Len(log) /\ UNCHANGED <<log, mdata, held, sdata, repl>>
<1>1. PICK setnx \in UseSetnx : load' = [Idle EXCEPT !.pc = "snapshot", !.began = Len(log), !.setnx = setnx]
  BY DEF Start
<1>2. Len(log) \in 0..MaxOps /\ setnx \in BOOLEAN
  BY LenProperties DEF Typed
<1> QED BY <1>1, <1>2, IdleIs DEF Start

LEMMA SnapshotFacts ==
  ASSUME Typed, CreateSnapshot \/ NoSnapshot
  PROVE  /\ load.pc = "snapshot" /\ load'.pc = "range" /\ load'.start \in {0, Len(log) + 1}
         /\ load'.from = load.from /\ load'.beg = load.beg /\ load'.began = load.began
         /\ UNCHANGED <<log, mdata, held, sdata, repl, cause>>
<1>1. Len(log) + 1 \in 0..(MaxOps + 1) /\ 0 \in 0..(MaxOps + 1)
  BY LenProperties DEF Typed
<1>2. CASE CreateSnapshot
  BY <1>1, <1>2, LoadStarts DEF CreateSnapshot, Snapshot
<1>3. CASE NoSnapshot
  BY <1>1, <1>3, LoadStarts DEF NoSnapshot
<1> QED BY <1>2, <1>3

LEMMA PageFacts ==
  ASSUME Typed, Loading, NEW answer, answer = Answer(Present(mdata), Request),
         load' = IF answer.fin THEN [load EXCEPT !.pc = "last"]
                 ELSE [load EXCEPT !.from = NextFrom(answer.fields), !.beg = FALSE]
  PROVE  /\ load'.start = load.start /\ load'.began = load.began
         /\ answer.fin => load'.pc = "last" /\ load'.from = load.from /\ load'.beg = load.beg
         /\ ~answer.fin => load'.pc = load.pc /\ ~load'.beg /\ load'.from >= load.from
                           /\ (load'.from \in answer.fields \/ load'.from = load.from)
                           /\ \A k \in answer.fields : k <= load'.from
<1>1. CASE answer.fin
  BY <1>1, LoadMoves DEF Pcs
<1>2. CASE ~answer.fin
  <2>1. load' = [load EXCEPT !.from = NextFrom(answer.fields), !.beg = FALSE]
    BY <1>2
  <2>2. load'.from = NextFrom(answer.fields)
    BY <2>1, LoadGoesOn
  <2>3. /\ load'.from \in answer.fields \/ load'.from = load.from
        /\ \A k \in answer.fields : k <= load'.from
    BY <2>2, FieldsFacts, MaxIs DEF NextFrom
  <2>4. load'.from >= load.from
    BY <2>3, FieldsFacts, LoadIs DEF Keys, Nothing
  <2> QED BY <1>2, <2>1, <2>3, <2>4, LoadGoesOn
<1> QED BY <1>1, <1>2

LEMMA LoadingSteps == ASSUME Typed, Typed', Loading, PagesHeld, Next PROVE Loading'
<1> USE DEF Loading
<1>0. /\ Len(log) \in Nat /\ load.start \in Nat /\ load.began \in Nat /\ repl \in Nat
      /\ load.pc = "none" => repl = 0
  BY LoadIs, LenProperties DEF Typed
<1>1. ASSUME NEW kind \in Kinds, NEW key \in Keys, MasterOp(kind, key) PROVE Loading'
  <2>1. log' = Append(log, [kind |-> kind, key |-> key]) /\ UNCHANGED <<load, repl>>
    BY <1>1 DEF MasterOp
  <2>2. [kind |-> kind, key |-> key] \in Entries
    BY DEF Entries
  <2>3. Len(log') = Len(log) + 1
    BY <2>1, <2>2, LogGrows DEF Typed
  <2> QED BY <1>0, <2>1, <2>3
<1>2. CASE Start
  BY <1>2, <1>0, StartFacts DEF Nothing
<1>3. CASE Stop
  BY <1>3, <1>0, IdleIs DEF Stop
<1>4. CASE CreateSnapshot \/ NoSnapshot
  BY <1>4, <1>0, SnapshotFacts
<1>5. CASE SnapshotRefused
  BY <1>5, <1>0, LoadMoves DEF SnapshotRefused, Pcs
<1>6. CASE Page
  <2> DEFINE answer == Answer(Present(mdata), Request)
  <2>1. /\ load' = (IF answer.fin THEN [load EXCEPT !.pc = "last"]
                    ELSE [load EXCEPT !.from = NextFrom(answer.fields), !.beg = FALSE])
        /\ load.pc = "range" /\ UNCHANGED <<log, repl>>
    BY <1>6 DEF Page
  <2> HIDE DEF answer
  <2>2. /\ load'.start = load.start /\ load'.began = load.began /\ load'.pc \in {"range", "last"}
        /\ load'.beg => load'.from = load.from /\ load'.beg = load.beg
    BY <2>1, PageFacts, FieldsFacts DEF answer
  <2> QED BY <1>0, <2>1, <2>2
<1>7. CASE PageRefused
  BY <1>7, <1>0, LoadMoves DEF PageRefused, Pcs
<1>8. ASSUME NEW h \in held, Write(h) PROVE Loading'
  <2>1. load' = (IF h.fin THEN [load EXCEPT !.pc = "release"] ELSE load) /\ UNCHANGED <<log, repl>>
    BY <1>8 DEF Write
  <2>2. h.fin => load.pc = "last"
    BY DEF PagesHeld
  <2> QED BY <1>0, <2>1, <2>2, LoadMoves DEF Pcs
<1>9. ASSUME NEW h \in held, Post(h) PROVE Loading'
  <2>1. load' = [load EXCEPT !.pc = "release"] /\ UNCHANGED <<log, repl>> /\ load.pc = "last"
    BY <1>9 DEF Post, PagesHeld
  <2> QED BY <1>0, <2>1, LoadMoves DEF Pcs
<1>10. CASE Handover
  <2>1. /\ load' = [load EXCEPT !.pc = "done"] /\ UNCHANGED log
        /\ load.start # 0 => repl' = load.start
    BY <1>10 DEF Handover
  <2>2. repl' \in Nat
    BY DEF Typed
  <2> QED BY <1>0, <2>1, <2>2, LoadMoves DEF Pcs
<1>11. CASE Replay
  BY <1>11, <1>0 DEF Replay
<1> QED BY <1>1, <1>2, <1>3, <1>4, <1>5, <1>6, <1>7, <1>8, <1>9, <1>10, <1>11 DEF Next, Load
-----------------------------------------------------------------------------
(* The pages and the master. *)

LEMMA PagesSteps == ASSUME Typed, Typed', Loading, PagesHeld, MasterHas, Next PROVE PagesHeld'
<1>0. /\ log \in Seq(Entries) /\ Len(log) \in Nat /\ load.start \in Nat /\ load.began \in Nat
      /\ \A h \in held : h.read \in Nat /\ DOMAIN h.values \subseteq Keys /\ h.fin \in BOOLEAN
  BY LoadIs, LenProperties DEF Typed, IsPage
<1>1. ASSUME NEW kind \in Kinds, NEW key \in Keys, MasterOp(kind, key) PROVE PagesHeld'
  <2> DEFINE e == [kind |-> kind, key |-> key]
  <2>1. log' = Append(log, e) /\ UNCHANGED <<load, held>> /\ e \in Entries
    BY <1>1 DEF MasterOp, Entries
  <2> HIDE DEF e
  <2>2. Len(log') = Len(log) + 1
    BY <1>0, <2>1, LogGrows
  <2>3. \A h \in held : \A k \in DOMAIN h.values : AsOf(log', h.values[k], k, h.read)
    BY <1>0, <2>1, AsOfGrows DEF PagesHeld
  <2> QED BY <1>0, <2>1, <2>2, <2>3 DEF PagesHeld, Unread
<1>2. CASE Start \/ Stop \/ CreateSnapshot \/ NoSnapshot \/ SnapshotRefused
  <2>1. held' = {}
    BY <1>2, StartFacts, SnapshotFacts DEF PagesHeld, Stop, SnapshotRefused
  <2> QED BY <2>1 DEF PagesHeld
<1>3. CASE Page
  <2> DEFINE answer == Answer(Present(mdata), Request)
             h == [values |-> [k \in answer.fields |-> mdata[k]], read |-> Len(log), fin |-> answer.fin]
  <2>1. /\ load' = (IF answer.fin THEN [load EXCEPT !.pc = "last"]
                    ELSE [load EXCEPT !.from = NextFrom(answer.fields), !.beg = FALSE])
        /\ load.pc = "range" /\ held' = held \cup {h} /\ UNCHANGED log
    BY <1>3 DEF Page
  <2> HIDE DEF answer
  <2>2. /\ answer.fields \subseteq Keys /\ answer.fin \in BOOLEAN /\ \A k \in answer.fields : k > load.from
    BY FieldsFacts DEF answer
  <2>3. /\ load'.start = load.start /\ load'.began = load.began
        /\ answer.fin => load'.pc = "last"
        /\ ~answer.fin => load'.pc = "range" /\ load'.from >= load.from
                          /\ \A k \in answer.fields : k <= load'.from
    BY <2>1, PageFacts DEF answer
  <2>4. /\ h.read = Len(log) /\ h.fin = answer.fin /\ DOMAIN h.values = answer.fields
        /\ \A k \in answer.fields : h.values[k] = mdata[k]
    OBVIOUS
  <2> HIDE DEF h
  <2>5. load'.from \in {Nothing} \cup Keys /\ load.from \in {Nothing} \cup Keys
    BY DEF Typed, LoadType
  <2>6. \A k \in answer.fields : ~Unread(k)'
    BY <2>2, <2>3, <2>5 DEF Unread, Keys, Nothing
  <2>7. \A g \in held : g.fin = FALSE /\ \A k \in DOMAIN g.values : k \in Keys /\ ~(k > load.from)
    BY <1>0, <2>1 DEF PagesHeld, Unread
  <2>8. \A g \in held : \A k \in DOMAIN g.values : ~Unread(k)'
    BY <2>3, <2>5, <2>7 DEF Unread, Keys, Nothing
  <2>9. \A k \in answer.fields : AsOf(log, h.values[k], k, Len(log))
    BY <2>2, <2>4 DEF MasterHas
  <2>10. /\ h.read <= Len(log) /\ load.began <= h.read /\ load.start <= h.read + 1
    BY <1>0, <2>4 DEF Loading
  <2>11. \A g \in held : DOMAIN g.values \cap DOMAIN h.values = {}
    BY <2>2, <2>4, <2>7
  <2>12. load'.pc \in {"range", "last"} /\ (h.fin => load'.pc = "last")
    BY <2>2, <2>3, <2>4
  <2>13. \A g \in held' :
           /\ g.read <= Len(log') /\ load'.began <= g.read /\ load'.start <= g.read + 1
           /\ \A k \in DOMAIN g.values : ~Unread(k)' /\ AsOf(log', g.values[k], k, g.read)
           /\ g.fin => load'.pc = "last"
    <3>1. ASSUME NEW g \in held
          PROVE  /\ g.read <= Len(log') /\ load'.began <= g.read /\ load'.start <= g.read + 1
                 /\ \A k \in DOMAIN g.values : ~Unread(k)' /\ AsOf(log', g.values[k], k, g.read)
                 /\ g.fin => load'.pc = "last"
      BY <2>1, <2>3, <2>7, <2>8 DEF PagesHeld
    <3>2. /\ h.read <= Len(log') /\ load'.began <= h.read /\ load'.start <= h.read + 1
          /\ \A k \in DOMAIN h.values : ~Unread(k)' /\ AsOf(log', h.values[k], k, h.read)
          /\ h.fin => load'.pc = "last"
      BY <2>1, <2>3, <2>4, <2>6, <2>9, <2>10, <2>12
    <3> QED BY <2>1, <3>1, <3>2
  <2>14. \A f, g \in held' : f # g => DOMAIN f.values \cap DOMAIN g.values = {} /\ ~(f.fin /\ g.fin)
    <3>1. ASSUME NEW f \in held, NEW g \in held, f # g
          PROVE  DOMAIN f.values \cap DOMAIN g.values = {} /\ ~(f.fin /\ g.fin)
      BY <3>1 DEF PagesHeld
    <3>2. ASSUME NEW g \in held
          PROVE  DOMAIN g.values \cap DOMAIN h.values = {} /\ ~g.fin
      BY <2>7, <2>11
    <3>3. SUFFICES ASSUME NEW f \in held', NEW g \in held', f # g
                   PROVE  DOMAIN f.values \cap DOMAIN g.values = {} /\ ~(f.fin /\ g.fin)
      OBVIOUS
    <3>4. f \in held \/ f = h
      BY <2>1
    <3>5. g \in held \/ g = h
      BY <2>1
    <3>6. CASE f \in held /\ g \in held
      BY <3>1, <3>3, <3>6
    <3>7. CASE f \in held /\ g = h
      BY <3>2, <3>7
    <3>8. CASE f = h /\ g \in held
      BY <3>2, <3>8
    <3> QED BY <3>3, <3>4, <3>5, <3>6, <3>7, <3>8
  <2>15. load'.pc \in {"range", "last", "release", "done"}
    BY <2>12
  <2> QED BY <2>13, <2>14, <2>15, Zenon DEF PagesHeld
<1>4. CASE PageRefused
  <2> DEFINE h == [values |-> <<>>, read |-> Len(log), fin |-> TRUE]
  <2>1. /\ held' = held \cup {h} /\ load' = [load EXCEPT !.pc = "last"] /\ load.pc = "range" /\ UNCHANGED log
    BY <1>4 DEF PageRefused
  <2>2. h.read = Len(log) /\ h.fin = TRUE /\ DOMAIN h.values = {}
    BY EmptySeq
  <2> HIDE DEF h
  <2>3. load'.pc = "last" /\ load'.start = load.start /\ load'.began = load.began
    BY <2>1, LoadMoves DEF Pcs
  <2>4. \A g \in held : ~g.fin
    BY <2>1 DEF PagesHeld
  <2> QED BY <1>0, <2>1, <2>2, <2>3, <2>4 DEF PagesHeld, Unread, Loading
<1>5. ASSUME NEW h \in held, Write(h) PROVE PagesHeld'
  <2>1. /\ load' = (IF h.fin THEN [load EXCEPT !.pc = "release"] ELSE load)
        /\ held' = held \ {h} /\ UNCHANGED log
    BY <1>5 DEF Write
  <2>2. load'.start = load.start /\ load'.began = load.began /\ load'.from = load.from
    BY <2>1, LoadMoves DEF Pcs
  <2>3. CASE h.fin
    <3>1. load'.pc = "release" /\ \A g \in held' : ~g.fin
      BY <2>1, <2>3, LoadMoves DEF Pcs, PagesHeld
    <3> QED BY <2>1, <2>2, <3>1 DEF PagesHeld, Unread
  <2>4. CASE ~h.fin
    BY <2>1, <2>4 DEF PagesHeld, Unread
  <2> QED BY <2>3, <2>4
<1>6. ASSUME NEW h \in held, Post(h) PROVE PagesHeld'
  <2> DEFINE g == [h EXCEPT !.fin = FALSE]
  <2>1. /\ held' = (held \ {h}) \cup {g} /\ load' = [load EXCEPT !.pc = "release"] /\ UNCHANGED log /\ h.fin
    BY <1>6 DEF Post
  <2>2. g.values = h.values /\ g.read = h.read /\ g.fin = FALSE
    BY PostedFacts
  <2> HIDE DEF g
  <2>3. /\ load'.pc = "release" /\ load'.start = load.start /\ load'.began = load.began
        /\ \A f \in held' : ~f.fin
    BY <2>1, <2>2, LoadMoves DEF Pcs, PagesHeld
  <2> QED BY <2>1, <2>2, <2>3 DEF PagesHeld, Unread
<1>7. CASE Handover
  <2>1. load' = [load EXCEPT !.pc = "done"] /\ UNCHANGED <<log, held>> /\ load.pc = "release"
    BY <1>7 DEF Handover
  <2>2. /\ load'.pc = "done" /\ load'.start = load.start /\ load'.began = load.began
    BY <2>1, LoadMoves DEF Pcs
  <2> QED BY <2>1, <2>2 DEF PagesHeld, Unread
<1>8. CASE Replay
  BY <1>8 DEF Replay, PagesHeld, Unread
<1> QED BY <1>1, <1>2, <1>3, <1>4, <1>5, <1>6, <1>7, <1>8 DEF Next, Load

LEMMA MasterSteps == ASSUME Typed, MasterHas, Next PROVE MasterHas'
<1>1. ASSUME NEW kind \in Kinds, NEW key \in Keys, MasterOp(kind, key) PROVE MasterHas'
  <2> DEFINE e == [kind |-> kind, key |-> key]
             n == Len(log) + 1
  <2>1. /\ log' = Append(log, e) /\ e \in Entries /\ log \in Seq(Entries) /\ Len(log) \in Nat
        /\ n \in 1..MaxOps /\ n - 1 = Len(log) /\ mdata' = [mdata EXCEPT ![key] = Applied(kind, n, @)]
        /\ e.key = key /\ e.kind = kind
    BY <1>1, LenProperties DEF MasterOp, Entries, Typed
  <2> HIDE DEF e
  <2>2. log' \in Seq(Entries) /\ Len(log') = n
    BY <2>1, LogGrows
  <2> HIDE DEF n
  <2>3. SUFFICES ASSUME NEW k \in Keys PROVE AsOf(log', mdata'[k], k, n)
    BY <2>2 DEF MasterHas
  <2>4. AsOf(log', mdata[k], k, n - 1)
    BY <2>1, AsOfGrows DEF MasterHas
  <2>5. CASE k # key
    <3>1. mdata'[k] = mdata[k]
      BY <2>1, <2>5 DEF Typed
    <3>2. Ops(log', k) = Ops(log, k)
      <4>1. Ops(log', k) = Ops(log, k) \cup (IF e.key = k THEN {Len(log) + 1} ELSE {})
        BY <2>1, LogGrows, Zenon
      <4> QED BY <2>1, <2>5, <4>1
    <3>3. \A i \in Ops(log', k) : ~(n - 1 < i /\ i <= n)
      <4>1. Ops(log, k) \subseteq 1..Len(log)
        BY <2>1, OpsOfLog
      <4>2. n = Len(log) + 1 /\ Len(log) \in Nat
        BY <2>1 DEF n
      <4> QED BY <3>2, <4>1, <4>2
    <3>4. n - 1 \in Nat /\ n \in Nat /\ n - 1 <= n
      BY <2>1
    <3>5. AsOf(log', mdata[k], k, n)
      BY <2>2, <2>4, <3>3, <3>4, AsOfQuiet
    <3> QED BY <3>1, <3>5
  <2>6. CASE k = key
    <3>1. mdata'[k] = Applied(kind, n, mdata[k])
      BY <2>1, <2>6 DEF Typed
    <3>2. n \in Ops(log', k) /\ (n \in Resets(log', k) <=> kind # "inc")
      <4>1. Ops(log', k) = Ops(log, k) \cup {n}
        BY <2>1, <2>6, LogGrows DEF n
      <4>2. Resets(log', k) = Resets(log, k) \cup (IF kind # "inc" THEN {n} ELSE {})
        BY <2>1, <2>6, LogGrows DEF n
      <4> QED BY <2>1, <4>1, <4>2, OpsOfLog
    <3>3. log'[n] = e
      BY <2>1, AppendProperties DEF n
    <3>4. CASE kind # "inc"
      BY <2>1, <2>2, <3>1, <3>2, <3>3, <3>4, AsOfReset
    <3>5. CASE kind = "inc"
      <4>1. mdata[k] \in Value /\ Len(log') <= MaxOps
        BY <2>1, <2>2 DEF Typed
      <4> QED BY <2>2, <2>4, <3>1, <3>2, <3>5, <4>1, AsOfInc
    <3> QED BY <3>4, <3>5
  <2> QED BY <2>5, <2>6
<1>2. CASE UNCHANGED <<log, mdata>>
  BY <1>2 DEF MasterHas
<1> QED BY <1>1, <1>2 DEF Next, Load, Start, Stop, CreateSnapshot, NoSnapshot, SnapshotRefused, Page,
      PageRefused, Write, Post, Handover, Replay
-----------------------------------------------------------------------------
(* The slave. *)

LEMMA SlaveOfMasterOp ==
  ASSUME LoadInv, NEW kind \in Kinds, NEW key \in Keys, MasterOp(kind, key),
         load'.pc \notin {"none", "stopped"}, NEW k \in Keys, cause'[k] = {}
  PROVE  HasOf(k)'
<1> DEFINE e == [kind |-> kind, key |-> key]
<1> USE DEF LoadInv
<1>1. /\ log' = Append(log, e) /\ e \in Entries /\ e.key = key
      /\ log \in Seq(Entries) /\ Len(log) \in Nat /\ repl \in Nat /\ load.start \in Nat
      /\ UNCHANGED <<load, held, sdata, repl>>
  BY LoadIs, LenProperties DEF MasterOp, Entries, Typed
<1>2. cause[k] = {} /\ (repl > Len(log) + 1 => k # key)
  BY ExcusedIs DEF MasterOp, Causes
<1>3. HasOf(k)
  BY <1>1, <1>2 DEF SlaveHas
<1> HIDE DEF e
<1>4. log' \in Seq(Entries) /\ Len(log') = Len(log) + 1 /\ Ops(log, k) \subseteq Ops(log', k)
  BY <1>1, LogGrows
<1>5. k \in Touched(load.start, repl - 1) => k \in Touched(load.start, repl - 1)'
  BY <1>1, <1>4, TouchedOf DEF Touched
<1>6. ASSUME Settled(k) PROVE Settled(k)'
  <2>1. CASE repl = 0
    <3>1. PICK n \in 0..Len(log) : load.began <= n /\ load.start <= n + 1 /\ AsOf(log, sdata[k], k, n)
      BY <1>6, <2>1 DEF Settled
    <3>2. AsOf(log', sdata[k], k, n)
      BY <1>1, <3>1, AsOfGrows
    <3>3. n \in 0..Len(log')
      BY <1>1, <1>4, <3>1
    <3> QED BY <1>1, <2>1, <3>1, <3>2, <3>3 DEF Settled
  <2>2. CASE repl # 0
    <3>1. Right(log, sdata[k], k, repl)
      BY <1>6, <2>2 DEF Settled
    <3>2. repl - 1 \in Nat /\ (repl - 1 <= Len(log) \/ e.key # k)
      BY <1>1, <1>2, <2>2
    <3>3. AsOf(log, sdata[k], k, repl - 1) => AsOf(log', sdata[k], k, repl - 1)
      BY <1>1, <3>2, AsOfGrows
    <3>4. Ahead(log, sdata[k], k, repl) => Ahead(log', sdata[k], k, repl)
      BY <1>1, AheadGrows
    <3>5. Right(log', sdata[k], k, repl)
      BY <3>1, <3>3, <3>4 DEF Right
    <3> QED BY <1>1, <2>2, <3>5 DEF Settled
  <2> QED BY <2>1, <2>2
<1> QED BY <1>1, <1>3, <1>5, <1>6 DEF HasOf, Unread, Unwritten

LEMMA SlaveOfStart ==
  ASSUME LoadInv, Start \/ CreateSnapshot \/ NoSnapshot, NEW k \in Keys, cause'[k] = {}
  PROVE  HasOf(k)'
<1> USE DEF LoadInv
<1>1. held' = {} /\ load'.from = Nothing /\ load'.pc \in {"snapshot", "range"}
  BY StartFacts, SnapshotFacts DEF PagesHeld, Loading
<1>2. k > load'.from
  BY <1>1 DEF Keys, Nothing
<1>3. sdata'[k] = Missing
  <2>1. CASE Start
    BY <2>1 DEF Start
  <2>2. CASE CreateSnapshot \/ NoSnapshot
    <3>1. load.pc = "snapshot" /\ cause[k] = {} /\ load.from = Nothing /\ sdata' = sdata
      BY <2>2, SnapshotFacts DEF Loading
    <3>2. Unread(k)
      BY <3>1 DEF Unread, Keys, Nothing
    <3> QED BY <3>1, <3>2 DEF SlaveHas, HasOf
  <2> QED BY <2>1, <2>2
<1> QED BY <1>1, <1>2, <1>3 DEF HasOf, Unread, Unwritten

LEMMA SlaveOfPage ==
  ASSUME LoadInv, Page, NEW k \in Keys, cause'[k] = {}
  PROVE  HasOf(k)'
<1> DEFINE answer == Answer(Present(mdata), Request)
           h == [values |-> [i \in answer.fields |-> mdata[i]], read |-> Len(log), fin |-> answer.fin]
<1> USE DEF LoadInv
<1>1. /\ load' = (IF answer.fin THEN [load EXCEPT !.pc = "last"]
                  ELSE [load EXCEPT !.from = NextFrom(answer.fields), !.beg = FALSE])
      /\ load.pc = "range" /\ held' = held \cup {h} /\ UNCHANGED <<log, mdata, sdata, repl>>
      /\ cause' = Excused(Passed(answer), "passed")
  BY DEF Page
<1> HIDE DEF answer
<1>2. /\ answer.fields \subseteq Keys /\ answer.fin \in BOOLEAN /\ \A i \in answer.fields : i > load.from
  BY FieldsFacts DEF answer
<1>3. /\ load'.start = load.start /\ load'.began = load.began
      /\ answer.fin => load'.pc = "last"
      /\ ~answer.fin => load'.pc = "range" /\ load'.from >= load.from
                        /\ load'.from \in answer.fields \cup {load.from}
  <2>1. load' = (IF answer.fin THEN [load EXCEPT !.pc = "last"]
                 ELSE [load EXCEPT !.from = NextFrom(answer.fields), !.beg = FALSE])
    BY <1>1
  <2>2. load.pc = "range"
    BY <1>1
  <2>3. answer = Answer(Present(mdata), Request) /\ Typed /\ Loading
    BY DEF answer
  <2>4. /\ load'.start = load.start /\ load'.began = load.began
        /\ answer.fin => load'.pc = "last"
        /\ ~answer.fin => /\ load'.pc = load.pc /\ load'.from >= load.from
                          /\ load'.from \in answer.fields \/ load'.from = load.from
    BY <2>1, <2>3, PageFacts
  <2> QED BY <2>2, <2>4
<1>4. repl = 0 /\ load.from \in Nat /\ Len(log) \in Nat /\ k \in Nat
  BY <1>1, LoadIs, LenProperties DEF Loading, Typed, Keys, Nothing
<1>5. k \notin Passed(answer) /\ cause[k] = {}
  BY <1>1, ExcusedIs DEF Causes
<1>6. HasOf(k)
  BY <1>1, <1>5 DEF SlaveHas
<1>7. DOMAIN h.values = answer.fields
  OBVIOUS
<1> HIDE DEF h
<1>8. Unwritten(k)' <=> Unwritten(k) \/ k \in answer.fields
  BY <1>1, <1>7 DEF Unwritten
<1>9. Unread(k) <=> k > load.from
  BY <1>1 DEF Unread
<1>10. Unread(k)' => Unread(k)
  <2>1. answer.fin \/ (load'.from \in Nat /\ load'.from >= load.from)
    BY <1>2, <1>3, <1>4 DEF Keys
  <2> QED BY <1>3, <1>4, <1>9, <2>1 DEF Unread
<1>11. Unwritten(k)' => sdata'[k] = Missing \/ k \in Touched(load.start, repl - 1)'
  BY <1>1, <1>2, <1>3, <1>6, <1>8, <1>9 DEF HasOf, Touched
<1>12. ASSUME ~Unread(k)', ~Unwritten(k)' PROVE Settled(k)'
  <2>1. CASE ~Unread(k)
    <3>1. Settled(k)
      BY <1>6, <1>8, <1>12, <2>1 DEF HasOf
    <3> QED BY <1>1, <1>3, <3>1 DEF Settled
  <2>2. CASE Unread(k)
    <3>1. k > load.from /\ k \notin answer.fields /\ sdata[k] = Missing
      BY <1>6, <1>8, <1>9, <1>12, <2>2 DEF HasOf
    <3>2. answer.fin \/ \E j \in answer.fields : k < j
      <4>1. SUFFICES ASSUME ~answer.fin PROVE \E j \in answer.fields : k < j
        OBVIOUS
      <4>2. load'.pc = "range" /\ load'.from \in answer.fields \cup {load.from}
        BY <1>3, <4>1
      <4>3. ~(k > load'.from)
        BY <1>12, <4>2 DEF Unread
      <4>4. load'.from \in answer.fields /\ load'.from \in Nat
        BY <1>2, <1>4, <3>1, <4>2, <4>3 DEF Keys
      <4>5. k < load'.from
        BY <1>4, <3>1, <4>3, <4>4
      <4> QED BY <4>4, <4>5
    <3>3. mdata[k] = Missing
      BY <1>5, <3>1, <3>2 DEF Passed, Present
    <3>4. AsOf(log, sdata[k], k, Len(log))
      BY <3>1, <3>3 DEF MasterHas
    <3>5. load.began <= Len(log) /\ load.start <= Len(log) + 1 /\ Len(log) \in 0..Len(log)
      BY <1>4 DEF Loading
    <3> QED BY <1>1, <1>3, <1>4, <3>4, <3>5 DEF Settled
  <2> QED BY <2>1, <2>2
<1>13. sdata'[k] = sdata[k]
  BY <1>1
<1> QED BY <1>6, <1>10, <1>11, <1>12, <1>13 DEF HasOf

LEMMA SlaveOfPageRefused ==
  ASSUME LoadInv, PageRefused, NEW k \in Keys, cause'[k] = {}
  PROVE  HasOf(k)'
<1> DEFINE h == [values |-> <<>>, read |-> Len(log), fin |-> TRUE]
           S == {i \in Present(mdata) : i > load.from}
<1> USE DEF LoadInv
<1>1. /\ load' = [load EXCEPT !.pc = "last"] /\ load.pc = "range" /\ held' = held \cup {h}
      /\ UNCHANGED <<log, mdata, sdata, repl>> /\ cause' = Excused(S, "refused")
  BY DEF PageRefused
<1>2. load'.pc = "last" /\ load'.start = load.start /\ load'.began = load.began
  BY <1>1, LoadMoves DEF Pcs
<1>3. k \notin S /\ cause[k] = {}
  <2> HIDE DEF S
  <2> QED BY <1>1, ExcusedIs DEF Causes
<1>4. HasOf(k)
  BY <1>1, <1>3 DEF SlaveHas
<1>5. DOMAIN h.values = {}
  BY EmptySeq
<1> HIDE DEF h
<1>6. (Unwritten(k)' <=> Unwritten(k)) /\ ~Unread(k)' /\ repl = 0 /\ Len(log) \in Nat
  BY <1>1, <1>2, <1>5, LenProperties DEF Unwritten, Unread, Loading, Typed
<1>7. ASSUME ~Unwritten(k) PROVE Settled(k)'
  <2>1. CASE ~Unread(k)
    <3>1. Settled(k)
      BY <1>4, <1>7, <2>1 DEF HasOf
    <3> QED BY <1>1, <1>2, <3>1 DEF Settled
  <2>2. CASE Unread(k)
    <3>1. k > load.from /\ sdata[k] = Missing
      BY <1>4, <2>2 DEF HasOf, Unread
    <3>2. mdata[k] = Missing
      BY <1>3, <3>1 DEF Present
    <3>3. AsOf(log, sdata[k], k, Len(log))
      BY <3>1, <3>2 DEF MasterHas
    <3>4. load.began <= Len(log) /\ load.start <= Len(log) + 1 /\ Len(log) \in 0..Len(log)
      BY <1>6 DEF Loading
    <3> QED BY <1>1, <1>2, <1>6, <3>3, <3>4 DEF Settled
  <2> QED BY <2>1, <2>2
<1> QED BY <1>1, <1>2, <1>4, <1>6, <1>7 DEF HasOf, Touched

\* A page that nothing has overtaken is written as it was read.
LEMMA WrittenIs ==
  ASSUME LoadInv, NEW h \in held, Write(h), load'.pc \notin {"none", "stopped"}, NEW k \in DOMAIN h.values,
         cause'[k] = {}
  PROVE  sdata'[k] = h.values[k]
<1> DEFINE loaded == {i \in DOMAIN h.values : sdata'[i] = h.values[i]}
<1> USE DEF LoadInv
<1>1. /\ sdata' = [i \in Keys |-> IF i \in DOMAIN h.values THEN SetValue(sdata[i], h.values[i]) ELSE sdata[i]]
      /\ cause' = [i \in Keys |-> (IF i \in loaded THEN cause[i] \ {"older"} ELSE cause[i])
                                     \cup (IF i \in Overtaken(h) THEN {"undone"} ELSE {})]
  BY DEF Write
<1>2. k \in Keys /\ load.pc \notin {"none", "stopped"}
  BY DEF Typed, IsPage, PagesHeld
<1>3. k \notin Overtaken(h) /\ (k \notin loaded => cause[k] = {})
  <2> HIDE DEF loaded
  <2>1. cause'[k] = (IF k \in loaded THEN cause[k] \ {"older"} ELSE cause[k])
                       \cup (IF k \in Overtaken(h) THEN {"undone"} ELSE {})
    BY <1>1, <1>2
  <2> QED BY <2>1
<1>4. CASE k \in loaded
  BY <1>4
<1>5. CASE k \notin loaded
  <2>1. Unwritten(k)
    BY DEF Unwritten
  <2>2. sdata[k] = Missing \/ k \in Touched(load.start, repl - 1)
    BY <1>2, <1>3, <1>5, <2>1 DEF SlaveHas, HasOf
  <2>3. sdata[k] = Missing \/ ~load.setnx
    BY <1>3, <2>2 DEF Overtaken
  <2> QED BY <1>1, <1>2, <2>3 DEF SetValue
<1> QED BY <1>4, <1>5

LEMMA SlaveOfWrite ==
  ASSUME LoadInv, NEW h \in held, Write(h), load'.pc \notin {"none", "stopped"}, NEW k \in Keys, cause'[k] = {}
  PROVE  HasOf(k)'
<1> DEFINE loaded == {i \in DOMAIN h.values : sdata'[i] = h.values[i]}
<1> USE DEF LoadInv
<1>1. /\ held' = held \ {h}
      /\ sdata' = [i \in Keys |-> IF i \in DOMAIN h.values THEN SetValue(sdata[i], h.values[i]) ELSE sdata[i]]
      /\ load' = (IF h.fin THEN [load EXCEPT !.pc = "release"] ELSE load)
      /\ cause' = [i \in Keys |-> (IF i \in loaded THEN cause[i] \ {"older"} ELSE cause[i])
                                     \cup (IF i \in Overtaken(h) THEN {"undone"} ELSE {})]
      /\ UNCHANGED <<log, mdata, repl>>
  BY DEF Write
<1>2. /\ load'.start = load.start /\ load'.began = load.began /\ load'.from = load.from
      /\ load'.pc \in {"release", load.pc} /\ load.pc \notin {"none", "stopped"}
  BY <1>1, LoadMoves DEF Pcs, PagesHeld
<1>3. Unread(k)' => Unread(k)
  BY <1>2 DEF Unread
<1>4. cause'[k] = (IF k \in loaded THEN cause[k] \ {"older"} ELSE cause[k])
                     \cup (IF k \in Overtaken(h) THEN {"undone"} ELSE {})
  BY <1>1
<1>5. k \notin Overtaken(h) /\ (k \notin loaded => cause[k] = {})
  BY <1>4
<1> HIDE DEF loaded
<1>6. CASE k \notin DOMAIN h.values
  <2>1. sdata'[k] = sdata[k] /\ cause[k] = {}
    BY <1>1, <1>5, <1>6 DEF loaded
  <2>2. Unwritten(k)' <=> Unwritten(k)
    BY <1>1, <1>6 DEF Unwritten
  <2>3. HasOf(k)
    BY <1>2, <2>1 DEF SlaveHas
  <2>4. Settled(k) => Settled(k)'
    BY <1>1, <1>2, <2>1 DEF Settled
  <2>5. Unread(k)' <=> Unread(k)
    <3>1. h.fin => load.pc = "last"
      BY DEF PagesHeld
    <3> QED BY <1>1, <1>2, <3>1 DEF Unread
  <2>6. Touched(load.start, repl - 1)' = Touched(load.start, repl - 1)
    BY <1>1, <1>2 DEF Touched
  <2> QED BY <2>1, <2>2, <2>3, <2>4, <2>5, <2>6 DEF HasOf
<1>7. CASE k \in DOMAIN h.values
  <2>1. /\ ~Unread(k) /\ AsOf(log, h.values[k], k, h.read)
        /\ h.read <= Len(log) /\ load.began <= h.read /\ load.start <= h.read + 1
        /\ \A g \in held : g # h => k \notin DOMAIN g.values
    BY <1>7 DEF PagesHeld
  <2>2. ~Unwritten(k)' /\ Unwritten(k)
    BY <1>1, <1>7, <2>1 DEF Unwritten
  <2>3. /\ h.read \in Nat /\ Len(log) \in Nat /\ repl \in Nat /\ load.start \in Nat
        /\ log \in Seq(Entries) /\ h.read \in 0..Len(log)
    BY <2>1, LoadIs, LenProperties DEF Typed, IsPage
  <2>4. k \notin Touched(IF load.setnx THEN load.start ELSE h.read + 1, repl - 1)
    BY <1>5, <1>7 DEF Overtaken
  <2>5. sdata'[k] = h.values[k]
    BY <1>7, WrittenIs
  <2>6. Settled(k)'
    <3>1. CASE repl = 0
      BY <1>1, <1>2, <2>1, <2>3, <2>5, <3>1 DEF Settled
    <3>2. CASE repl # 0
      <4>1. \A i \in Ops(log, k) : i \in Nat
        BY <2>3, OpsOfLog
      <4>2. \A i \in Ops(log, k) : ~((IF load.setnx THEN load.start ELSE h.read + 1) <= i /\ i <= repl - 1)
        <5> DEFINE first == IF load.setnx THEN load.start ELSE h.read + 1
        <5>1. first \in Int /\ repl - 1 \in Int /\ k \notin Touched(first, repl - 1)
          BY <2>3, <2>4
        <5> HIDE DEF first
        <5>2. \A i \in Ops(log, k) : ~(first <= i /\ i <= repl - 1)
          BY <2>3, <5>1, TouchedOf DEF Touched
        <5> QED BY <5>2 DEF first
      <4>3. \A i \in Ops(log, k) : ~(h.read < i /\ i < repl)
        BY <2>1, <2>3, <4>1, <4>2
      <4>4. Right(log, h.values[k], k, repl)
        BY <2>1, <2>3, <3>2, <4>3, ReadIsRight
      <4> QED BY <1>1, <2>5, <3>2, <4>4 DEF Settled
    <3> QED BY <3>1, <3>2
  <2> QED BY <1>3, <2>1, <2>2, <2>6 DEF HasOf
<1> QED BY <1>6, <1>7

LEMMA SlaveOfPost ==
  ASSUME LoadInv, NEW h \in held, Post(h), NEW k \in Keys, cause'[k] = {}
  PROVE  HasOf(k)'
<1> DEFINE g == [h EXCEPT !.fin = FALSE]
<1> USE DEF LoadInv
<1>1. /\ held' = (held \ {h}) \cup {g} /\ load' = [load EXCEPT !.pc = "release"] /\ h.fin
      /\ UNCHANGED <<log, sdata, repl, cause>>
  BY DEF Post
<1>2. g.values = h.values
  BY PostedFacts
<1> HIDE DEF g
<1>3. load'.pc = "release" /\ load.pc = "last" /\ load'.start = load.start /\ load'.began = load.began
  BY <1>1, LoadMoves DEF Pcs, PagesHeld
<1>4. (Unwritten(k)' <=> Unwritten(k)) /\ ~Unread(k) /\ ~Unread(k)' /\ cause[k] = {}
  BY <1>1, <1>2, <1>3 DEF Unread, Unwritten
<1>5. HasOf(k)
  BY <1>3, <1>4 DEF SlaveHas
<1>6. Settled(k) => Settled(k)'
  BY <1>1, <1>3 DEF Settled
<1>7. Touched(load.start, repl - 1)' = Touched(load.start, repl - 1)
  BY <1>1, <1>3 DEF Touched
<1> QED BY <1>1, <1>4, <1>5, <1>6, <1>7 DEF HasOf

LEMMA SlaveOfHandover ==
  ASSUME LoadInv, Handover, NEW k \in Keys, cause'[k] = {}
  PROVE  HasOf(k)'
<1> DEFINE at == IF load.start # 0 THEN load.start ELSE IF file # 0 THEN file ELSE sseq + 1
<1> USE DEF LoadInv
<1>1. /\ load.pc = "release" /\ load' = [load EXCEPT !.pc = "done"] /\ repl' = at
      /\ cause' = (IF load.start # 0 THEN cause
                   ELSE Excused(Touched(load.began + 1, at - 1), "unanchored"))
      /\ UNCHANGED <<log, held, sdata>>
  BY DEF Handover
<1>2. /\ load'.pc = "done" /\ load'.start = load.start /\ load'.began = load.began
      /\ load.start \in Nat /\ load.began \in Nat /\ Len(log) \in Nat /\ log \in Seq(Entries)
      /\ repl = 0
  BY <1>1, LoadMoves, LoadIs, LenProperties DEF Pcs, Typed, Loading
<1>3. at \in Nat \ {0} /\ (load.start # 0 => at = load.start)
  BY <1>2 DEF Typed
<1> HIDE DEF at
<1>4. cause[k] = {} /\ (load.start = 0 => k \notin Touched(load.began + 1, at - 1))
  BY <1>1, ExcusedIs DEF Causes
<1>5. HasOf(k)
  BY <1>1, <1>4 DEF SlaveHas
<1>6. ~Unread(k) /\ ~Unread(k)' /\ (Unwritten(k)' <=> Unwritten(k))
  BY <1>1, <1>2 DEF Unread, Unwritten
<1>7. Unwritten(k) => sdata[k] = Missing
  <2>1. k \notin Touched(load.start, repl - 1)
    BY <1>2, TouchedOf DEF Touched
  <2> QED BY <1>5, <2>1 DEF HasOf
<1>8. ASSUME ~Unwritten(k) PROVE Settled(k)'
  <2>1. Settled(k)
    BY <1>5, <1>6, <1>8 DEF HasOf
  <2>2. PICK n \in 0..Len(log) : load.began <= n /\ load.start <= n + 1 /\ AsOf(log, sdata[k], k, n)
    BY <1>2, <2>1 DEF Settled
  <2>3. Ops(log, k) \subseteq Nat
    BY <1>2, OpsOfLog
  <2>4. \A i \in Ops(log, k) : ~(n < i /\ i < at)
    <3>1. CASE load.start # 0
      BY <1>2, <1>3, <2>2, <2>3, <3>1
    <3>2. CASE load.start = 0
      <4>1. \A i \in Ops(log, k) : ~(load.began + 1 <= i /\ i <= at - 1)
        BY <1>2, <1>3, <1>4, <3>2, TouchedOf DEF Touched
      <4> QED BY <1>2, <1>3, <2>2, <2>3, <4>1
    <3> QED BY <3>1, <3>2
  <2>5. Right(log, sdata[k], k, at)
    BY <1>2, <1>3, <2>2, <2>4, ReadIsRight
  <2> QED BY <1>1, <1>3, <2>5 DEF Settled
<1> QED BY <1>1, <1>6, <1>7, <1>8 DEF HasOf

LEMMA SlaveOfReplay ==
  ASSUME LoadInv, Replay, NEW k \in Keys, cause'[k] = {}
  PROVE  HasOf(k)'
<1> DEFINE op == log[repl]
<1> USE DEF LoadInv
<1>1. /\ repl # 0 /\ repl <= Len(log) /\ sdata' = [sdata EXCEPT ![op.key] = Applied(op.kind, repl, @)]
      /\ cause' = (IF op.kind = "inc" THEN cause ELSE [cause EXCEPT ![op.key] = {}])
      /\ repl' = repl + 1 /\ UNCHANGED <<log, load, held>>
  BY DEF Replay
<1>2. /\ repl \in 1..Len(log) /\ repl \in Nat \ {0} /\ log \in Seq(Entries) /\ Len(log) <= MaxOps
      /\ load.start \in Nat /\ sdata[k] \in Value
      /\ load.pc = "done" /\ load.start <= repl
  BY <1>1, LoadIs, LenProperties DEF Typed, Loading
<1>3. /\ k = op.key <=> repl \in Ops(log, k)
      /\ repl \in Resets(log, k) <=> repl \in Ops(log, k) /\ op.kind # "inc"
  BY <1>2, OpsOfLog DEF Resets
<1> HIDE DEF op
<1>4. cause[k] = {} \/ repl \in Resets(log, k)
  BY <1>1, <1>3 DEF Typed
<1>5. sdata'[k] = IF repl \in Ops(log, k) THEN Applied(op.kind, repl, sdata[k]) ELSE sdata[k]
  BY <1>1, <1>3 DEF Typed
<1>6. cause[k] = {} => HasOf(k)
  BY <1>2 DEF SlaveHas
<1>7. ~Unread(k) /\ ~Unread(k)' /\ (Unwritten(k)' <=> Unwritten(k))
  BY <1>1, <1>2 DEF Unread, Unwritten
<1>8. ASSUME Unwritten(k) PROVE sdata'[k] = Missing \/ k \in Touched(load.start, repl - 1)'
  <2>1. CASE repl \in Ops(log, k)
    <3>1. repl' - 1 = repl /\ load.start \in Int /\ repl \in Int
      BY <1>1, <1>2
    <3>2. k \in Touched(load.start, repl)
      BY <1>2, <2>1, <3>1, TouchedOf DEF Touched
    <3> QED BY <1>1, <3>1, <3>2 DEF Touched
  <2>2. CASE repl \notin Ops(log, k)
    <3>1. sdata[k] = Missing \/ k \in Touched(load.start, repl - 1)
      BY <1>3, <1>4, <1>6, <1>8, <2>2 DEF HasOf
    <3>2. k \in Touched(load.start, repl - 1) => k \in Touched(load.start, repl)
      BY <1>2, TouchedOf DEF Touched
    <3>3. repl' - 1 = repl
      BY <1>1, <1>2
    <3> QED BY <1>1, <1>5, <2>2, <3>1, <3>2, <3>3 DEF Touched
  <2> QED BY <2>1, <2>2
<1>9. ASSUME ~Unwritten(k) PROVE Settled(k)'
  <2>1. Right(log, sdata[k], k, repl) \/ repl \in Resets(log, k)
    BY <1>1, <1>4, <1>6, <1>7, <1>9 DEF HasOf, Settled
  <2>2. Right(log, IF repl \in Ops(log, k) THEN Applied(op.kind, repl, sdata[k]) ELSE sdata[k], k, repl + 1)
    BY <1>2, <2>1, RightNext DEF op
  <2> QED BY <1>1, <1>2, <1>5, <2>2 DEF Settled
<1> QED BY <1>7, <1>8, <1>9 DEF HasOf

LEMMA SlaveSteps == ASSUME LoadInv, Next PROVE SlaveHas'
<1> SUFFICES ASSUME load'.pc \notin {"none", "stopped"}, NEW k \in Keys, cause'[k] = {} PROVE HasOf(k)'
  BY DEF SlaveHas
<1>1. CASE Stop
  BY <1>1, IdleIs DEF Stop
<1>2. CASE SnapshotRefused
  BY <1>2, LoadMoves DEF SnapshotRefused, Pcs, LoadInv
<1> QED BY <1>1, <1>2, SlaveOfMasterOp, SlaveOfStart, SlaveOfPage, SlaveOfPageRefused, SlaveOfWrite, SlaveOfPost,
           SlaveOfHandover, SlaveOfReplay DEF Next, Load
-----------------------------------------------------------------------------
(* Increments that occur twice. *)

LEMMA OnceMore ==
  ASSUME NEW s \in Seq(Nat), NEW n \in Nat, NEW x \in Nat, OnceTo(n, s), x > n \/ x \notin ToSet(s)
  PROVE  OnceTo(n, Append(s, x))
<1> DEFINE t == Append(s, x)
<1>1. /\ Len(s) \in Nat /\ DOMAIN s = 1..Len(s) /\ DOMAIN t = 1..(Len(s) + 1)
      /\ t[Len(s) + 1] = x /\ \A i \in 1..Len(s) : t[i] = s[i]
  BY AppendProperties, LenProperties
<1>2. \A i \in 1..Len(s) : s[i] \in ToSet(s)
  BY <1>1 DEF ToSet
<1> HIDE DEF t
<1>3. SUFFICES ASSUME NEW i \in DOMAIN t, NEW j \in DOMAIN t, i # j, t[i] = t[j] PROVE t[i] > n
  BY DEF OnceTo, t
<1>4. CASE i \in DOMAIN s /\ j \in DOMAIN s
  BY <1>1, <1>3, <1>4 DEF OnceTo
<1>5. CASE i = Len(s) + 1 \/ j = Len(s) + 1
  <2>1. t[i] = x /\ (i \in 1..Len(s) \/ j \in 1..Len(s))
    BY <1>1, <1>3, <1>5
  <2>2. x \in ToSet(s)
    BY <1>1, <1>2, <1>3, <2>1
  <2> QED BY <2>1, <2>2
<1> QED BY <1>1, <1>4, <1>5

LEMMA OnceLess ==
  ASSUME NEW s \in Seq(Nat), NEW n \in Nat, NEW m \in Nat, m <= n, OnceTo(n, s)
  PROVE  OnceTo(m, s)
<1> SUFFICES ASSUME NEW i \in DOMAIN s, NEW j \in DOMAIN s, i # j, s[i] = s[j] PROVE s[i] > m
  BY DEF OnceTo
<1>1. s[i] \in Nat
  BY LenProperties, ElementOfSeq
<1>2. s[i] > n
  BY DEF OnceTo
<1> QED BY <1>1, <1>2

LEMMA OnceNone == ASSUME NEW n PROVE OnceTo(n, Missing.incs) /\ OnceTo(n, <<>>)
BY EmptySeq DEF OnceTo, Missing

LEMMA ValueFacts == ASSUME NEW v \in Value PROVE v.incs \in Seq(Nat) /\ v.incs \in Seq(1..MaxOps)
<1>1. v.incs \in Seq(1..MaxOps)
  BY DEF Value
<1>2. Len(v.incs) \in Nat /\ v.incs \in [1..Len(v.incs) -> 1..MaxOps]
  BY <1>1, LenProperties
<1>3. v.incs \in [1..Len(v.incs) -> Nat]
  BY <1>2
<1> QED BY <1>1, <1>2, <1>3, IsASeq

\* What an operation makes of a value in which those up to n occur once.
LEMMA OnceApplied ==
  ASSUME NEW v \in Value, NEW n \in Nat, NEW x \in 1..MaxOps, NEW kind \in AllKinds,
         kind = "inc" => OnceTo(n, v.incs) /\ (x > n \/ x \notin ToSet(v.incs))
  PROVE  OnceTo(n, Applied(kind, x, v).incs)
<1>1. CASE kind = "inc"
  <2>1. Applied("inc", x, v).incs = Append(v.incs, x)
    BY AppliedInc
  <2>2. v.incs \in Seq(Nat) /\ x \in Nat /\ OnceTo(n, v.incs) /\ (x > n \/ x \notin ToSet(v.incs))
    BY <1>1, ValueFacts
  <2>3. OnceTo(n, Append(v.incs, x))
    BY <2>2, OnceMore
  <2> QED BY <1>1, <2>1, <2>3
<1>2. CASE kind # "inc"
  <2>1. Applied(kind, x, v).incs = <<>>
    BY <1>2, MissingFacts DEF Applied, AllKinds
  <2> QED BY <2>1, OnceNone
<1> QED BY <1>1, <1>2

LEMMA DoublesOfMasterOp ==
  ASSUME LoadInv, Doubles, NEW kind \in Kinds, NEW key \in Keys, MasterOp(kind, key)
  PROVE  Doubles'
<1> DEFINE n == Len(log) + 1
<1> USE DEF LoadInv
<1>1. /\ Len(log) < MaxOps /\ mdata' = [mdata EXCEPT ![key] = Applied(kind, n, @)]
      /\ UNCHANGED <<load, held, sdata>> /\ \A k \in Keys : cause'[k] = {} => cause[k] = {}
  BY ExcusedIs DEF MasterOp, Causes
<1>2. n \in 1..MaxOps /\ n \notin ToSet(mdata[key].incs)
  <2>1. Len(log) \in Nat
    BY LenProperties DEF Typed
  <2>2. PICK r \in 0..Len(log) : ToSet(mdata[key].incs) = IncsOf(log, key, r, Len(log))
    BY DEF MasterHas, AsOf
  <2>3. \A i \in ToSet(mdata[key].incs) : i <= Len(log)
    BY <2>2 DEF IncsOf
  <2> QED BY <1>1, <2>1, <2>3
<1> HIDE DEF n
<1>3. kind \in AllKinds /\ mdata[key] \in Value /\ OnceTo(MaxOps, mdata[key].incs)
  BY DEF Typed, Doubles
<1>4. OnceTo(MaxOps, Applied(kind, n, mdata[key]).incs)
  BY <1>2, <1>3, OnceApplied
<1>5. \A k \in Keys : OnceTo(MaxOps, mdata'[k].incs)
  <2>1. SUFFICES ASSUME NEW k \in Keys PROVE OnceTo(MaxOps, mdata'[k].incs)
    OBVIOUS
  <2>2. mdata'[k] = IF k = key THEN Applied(kind, n, mdata[key]) ELSE mdata[k]
    BY <1>1 DEF Typed
  <2> QED BY <1>4, <2>2 DEF Doubles
<1> QED BY <1>1, <1>5 DEF Doubles

LEMMA DoublesOfPages ==
  ASSUME LoadInv, Doubles, Page \/ PageRefused
  PROVE  Doubles'
<1> USE DEF LoadInv
<1>1. \A k \in Keys : cause'[k] = {} => cause[k] = {}
  BY ExcusedIs DEF Page, PageRefused, Causes
<1>2. UNCHANGED <<mdata, sdata>>
  BY DEF Page, PageRefused
<1>3. load'.start = load.start /\ load'.began = load.began
  <2>1. CASE Page
    <3> DEFINE answer == Answer(Present(mdata), Request)
    <3>1. load' = (IF answer.fin THEN [load EXCEPT !.pc = "last"]
                  ELSE [load EXCEPT !.from = NextFrom(answer.fields), !.beg = FALSE])
      BY <2>1 DEF Page
    <3> HIDE DEF answer
    <3> QED BY <3>1, PageFacts DEF answer
  <2>2. CASE PageRefused
    BY <2>2, LoadMoves DEF PageRefused, Pcs
  <2> QED BY <2>1, <2>2
<1>4. \A h \in held' : h \in held \/ \A k \in DOMAIN h.values : k \in Keys /\ h.values[k] = mdata[k]
  <2>1. CASE Page
    <3> DEFINE answer == Answer(Present(mdata), Request)
               g == [values |-> [k \in answer.fields |-> mdata[k]], read |-> Len(log), fin |-> answer.fin]
    <3>1. held' = held \cup {g}
      BY <2>1 DEF Page
    <3>2. answer.fields \subseteq Keys
      BY FieldsFacts
    <3> HIDE DEF answer
    <3>3. \A k \in DOMAIN g.values : k \in Keys /\ g.values[k] = mdata[k]
      BY <3>2
    <3> HIDE DEF g
    <3> QED BY <3>1, <3>3
  <2>2. CASE PageRefused
    <3> DEFINE g == [values |-> <<>>, read |-> Len(log), fin |-> TRUE]
    <3>1. held' = held \cup {g}
      BY <2>2 DEF PageRefused
    <3>2. DOMAIN g.values = {}
      BY EmptySeq
    <3> HIDE DEF g
    <3> QED BY <3>1, <3>2
  <2> QED BY <2>1, <2>2
<1>5. \A h \in held' : \A k \in DOMAIN h.values : OnceTo(MaxOps, h.values[k].incs)
  BY <1>4 DEF Doubles
<1> QED BY <1>1, <1>2, <1>3, <1>5 DEF Doubles

LEMMA DoublesOfWrite ==
  ASSUME LoadInv, Doubles, NEW h \in held, Write(h)
  PROVE  Doubles'
<1> USE DEF LoadInv
<1>1. /\ held' = held \ {h} /\ mdata' = mdata
      /\ sdata' = [i \in Keys |-> IF i \in DOMAIN h.values THEN SetValue(sdata[i], h.values[i]) ELSE sdata[i]]
      /\ load' = (IF h.fin THEN [load EXCEPT !.pc = "release"] ELSE load)
  BY DEF Write
<1>2. /\ load'.start = load.start /\ load'.began = load.began /\ load'.pc \notin {"none", "stopped"}
      /\ load.began \in Nat /\ load.began <= MaxOps
  <2>1. load'.start = load.start /\ load'.began = load.began /\ load'.pc \in {"release", load.pc}
    BY <1>1, LoadMoves DEF Pcs
  <2>2. load.began \in 0..MaxOps
    BY DEF Typed, LoadType
  <2>3. load.pc \notin {"none", "stopped"}
    BY DEF PagesHeld
  <2> QED BY <2>1, <2>2, <2>3
<1>3. ASSUME NEW k \in Keys, cause'[k] = {}, load.start # 0 PROVE OnceTo(load.began, sdata'[k].incs)
  <2>1. CASE k \in DOMAIN h.values
    <3>1. sdata'[k] = h.values[k]
      BY <1>2, <1>3, <2>1, WrittenIs
    <3>2. h.values[k] \in Value /\ OnceTo(MaxOps, h.values[k].incs)
      BY <2>1 DEF Typed, IsPage, Doubles
    <3> QED BY <1>2, <3>1, <3>2, OnceLess, ValueFacts
  <2>2. CASE k \notin DOMAIN h.values
    <3>1. cause[k] = {}
      BY <1>3, <2>2 DEF Write
    <3>2. sdata'[k] = sdata[k]
      BY <1>1, <2>2
    <3> QED BY <1>3, <3>1, <3>2 DEF Doubles
  <2> QED BY <2>1, <2>2
<1> QED BY <1>1, <1>2, <1>3 DEF Doubles

LEMMA DoublesOfReplay ==
  ASSUME LoadInv, Doubles, Replay
  PROVE  Doubles'
<1> DEFINE op == log[repl]
<1> USE DEF LoadInv
<1>1. /\ repl # 0 /\ repl <= Len(log) /\ sdata' = [sdata EXCEPT ![op.key] = Applied(op.kind, repl, @)]
      /\ cause' = (IF op.kind = "inc" THEN cause ELSE [cause EXCEPT ![op.key] = {}])
      /\ UNCHANGED <<mdata, load, held>>
  BY DEF Replay
<1>2. /\ repl \in 1..Len(log) /\ repl \in 1..MaxOps /\ load.began \in Nat
      /\ load.start # 0 => load.began < repl
  BY <1>1, LoadIs, LenProperties DEF Typed, Loading
<1>3. op.key \in Keys /\ op.kind \in AllKinds
  <2>1. op \in Entries
    BY <1>2, ElementOfSeq DEF Typed
  <2> QED BY <2>1 DEF Entries
<1> HIDE DEF op
<1>4. ASSUME NEW k \in Keys, cause'[k] = {}, load.start # 0 PROVE OnceTo(load.began, sdata'[k].incs)
  <2>1. CASE k = op.key
    <3>1. sdata'[k] = Applied(op.kind, repl, sdata[k])
      BY <1>1, <2>1 DEF Typed
    <3>2. op.kind = "inc" => OnceTo(load.began, sdata[k].incs)
      BY <1>1, <1>4 DEF Doubles
    <3> QED BY <1>2, <1>3, <1>4, <3>1, <3>2, OnceApplied DEF Typed
  <2>2. CASE k # op.key
    <3>1. cause[k] = {} /\ sdata'[k] = sdata[k]
      BY <1>1, <1>3, <1>4, <2>2 DEF Typed
    <3> QED BY <1>4, <3>1 DEF Doubles
  <2> QED BY <2>1, <2>2
<1> QED BY <1>1, <1>4 DEF Doubles

LEMMA DoublesSteps == ASSUME LoadInv, Doubles, Next PROVE Doubles'
<1> USE DEF LoadInv
<1>1. CASE Start \/ NoSnapshot \/ Stop
  <2>1. load'.start = 0
    <3>1. CASE Stop
      BY <3>1, IdleIs DEF Stop
    <3>2. CASE NoSnapshot
      BY <3>2, LoadStarts DEF NoSnapshot, Typed
    <3> QED BY <1>1, <3>1, <3>2, StartFacts
  <2>2. mdata' = mdata /\ held' \subseteq held
    BY <1>1 DEF Start, NoSnapshot, Stop
  <2> QED BY <2>1, <2>2 DEF Doubles
<1>2. CASE CreateSnapshot
  <2>1. load.pc = "snapshot" /\ load.from = Nothing /\ UNCHANGED <<mdata, held, sdata, cause>>
    BY <1>2, SnapshotFacts DEF Loading
  <2>2. \A k \in Keys : cause[k] = {} => sdata[k] = Missing
    BY <2>1 DEF SlaveHas, HasOf, Unread, Keys, Nothing
  <2> QED BY <2>1, <2>2, OnceNone DEF Doubles
<1>3. CASE SnapshotRefused \/ Handover
  <2>1. load'.start = load.start /\ load'.began = load.began /\ UNCHANGED <<mdata, held, sdata>>
    BY <1>3, LoadMoves DEF SnapshotRefused, Handover, Pcs
  <2>2. \A k \in Keys : cause'[k] = {} => cause[k] = {}
    BY <1>3, ExcusedIs DEF SnapshotRefused, Handover, Causes
  <2> QED BY <2>1, <2>2 DEF Doubles
<1>4. ASSUME NEW h \in held, Post(h) PROVE Doubles'
  <2> DEFINE g == [h EXCEPT !.fin = FALSE]
  <2>1. /\ held' = (held \ {h}) \cup {g} /\ load' = [load EXCEPT !.pc = "release"]
        /\ UNCHANGED <<mdata, sdata, cause>>
    BY <1>4 DEF Post
  <2>2. g.values = h.values
    BY PostedFacts
  <2> HIDE DEF g
  <2>3. load'.start = load.start /\ load'.began = load.began
    BY <2>1, LoadMoves DEF Pcs
  <2>4. \A f \in held' : \A k \in DOMAIN f.values : OnceTo(MaxOps, f.values[k].incs)
    BY <2>1, <2>2 DEF Doubles
  <2> QED BY <2>1, <2>3, <2>4 DEF Doubles
<1> QED BY <1>1, <1>2, <1>3, <1>4, DoublesOfMasterOp, DoublesOfPages, DoublesOfWrite, DoublesOfReplay DEF Next, Load
-----------------------------------------------------------------------------
(* The invariant, and what follows. *)

LEMMA LoadInit == Init => LoadInv /\ Doubles
<1> SUFFICES ASSUME Init PROVE LoadInv /\ Doubles
  OBVIOUS
<1>1. /\ log = [n \in 1..Stored |-> [kind |-> "put", key |-> n]]
      /\ mdata = [k \in Keys |-> IF k <= Stored THEN Applied("put", k, Missing) ELSE Missing]
      /\ load = Idle /\ held = {}
      /\ sdata = [k \in Keys |-> Missing] /\ sseq = 0 /\ file = 0 /\ repl = 0 /\ loads = 0
      /\ cause = [k \in Keys |-> {}]
  BY DEF Init
<1>2. Stored \in Nat /\ Stored <= MaxKey /\ Stored <= MaxOps /\ Keys \subseteq Nat \ {0}
  BY DEF Keys
<1>3. log \in Seq(Entries) /\ Len(log) = Stored /\ DOMAIN log = 1..Stored
      /\ \A n \in 1..Stored : log[n].key = n /\ log[n].kind = "put"
  <2>1. \A n \in 1..Stored : [kind |-> "put", key |-> n] \in Entries
    BY <1>2 DEF Entries, AllKinds, Keys
  <2>2. log \in [1..Stored -> Entries]
    BY <1>1, <2>1
  <2>3. log \in Seq(Entries) /\ Len(log) = Stored
    BY <1>2, <2>2, IsASeq, LenProperties
  <2> QED BY <1>1, <2>3
<1>4. \A k \in Keys : k <= Stored => Applied("put", k, Missing) = [base |-> k, incs |-> <<>>]
  BY DEF Applied
<1>5. mdata \in [Keys -> Value]
  <2>1. \A k \in Keys : k <= Stored => Applied("put", k, Missing) \in Value
    BY <1>2, MissingFacts, AppliedIsValue DEF AllKinds
  <2> QED BY <1>1, <2>1, MissingFacts
<1>6. Typed
  <2>1. Idle \in LoadType
    BY DEF Idle, LoadType, Pcs
  <2> QED BY <1>1, <1>2, <1>3, <1>5, <2>1, MissingFacts DEF Typed
<1>7. Loading
  BY <1>1, <1>2, <1>3, IdleIs DEF Loading, Idle
<1>8. PagesHeld
  BY <1>1 DEF PagesHeld
<1>9. MasterHas
  <2>1. SUFFICES ASSUME NEW k \in Keys PROVE AsOf(log, mdata[k], k, Stored)
    BY <1>3 DEF MasterHas
  <2>2. Ops(log, k) = IF k <= Stored THEN {k} ELSE {}
    BY <1>2, <1>3 DEF Ops
  <2>3. Resets(log, k) = Ops(log, k) /\ Puts(log, k) = Ops(log, k)
    BY <1>3 DEF Resets, Puts, Ops
  <2>4. CASE k <= Stored
    <3>1. mdata[k].base = k /\ mdata[k].incs = <<>>
      BY <1>1, <1>4, <2>4
    <3>2. ToSet(mdata[k].incs) = {}
      BY <3>1, EmptySeq DEF ToSet
    <3>3. /\ LastReset(log, k, Stored, k) /\ BaseOf(log, k, k) = k /\ IncsOf(log, k, k, Stored) = {}
          /\ k \in 0..Stored
      BY <1>2, <2>2, <2>3, <2>4 DEF LastReset, BaseOf, IncsOf
    <3> QED BY <3>1, <3>2, <3>3 DEF AsOf
  <2>5. CASE ~(k <= Stored)
    <3>1. mdata[k] = Missing
      BY <1>1, <2>5
    <3>2. /\ LastReset(log, k, Stored, 0) /\ BaseOf(log, k, 0) = 0 /\ IncsOf(log, k, 0, Stored) = {}
          /\ 0 \in 0..Stored
      BY <1>2, <2>2, <2>3, <2>5 DEF LastReset, BaseOf, IncsOf
    <3> QED BY <3>1, <3>2, MissingFacts DEF AsOf
  <2> QED BY <2>4, <2>5
<1>10. SlaveHas
  BY <1>1, IdleIs DEF SlaveHas
<1>11. Doubles
  <2>1. load.start = 0
    BY <1>1, IdleIs
  <2>2. \A k \in Keys : OnceTo(MaxOps, mdata[k].incs)
    <3>1. ASSUME NEW k \in Keys PROVE mdata[k].incs = <<>>
      BY <1>1, <1>4, MissingFacts
    <3> QED BY <3>1, OnceNone
  <2> QED BY <1>1, <2>1, <2>2 DEF Doubles
<1> QED BY <1>6, <1>7, <1>8, <1>9, <1>10, <1>11 DEF LoadInv

LEMMA LoadStutters == LoadInv /\ Doubles /\ UNCHANGED vars => (LoadInv /\ Doubles)'
BY DEF LoadInv, Doubles, vars, Typed, Loading, PagesHeld, MasterHas, SlaveHas, HasOf, Unread, Unwritten, Settled,
       Touched, IsPage

\* The invariant holds in every state.
THEOREM LoadIsRight == Spec => [](LoadInv /\ Doubles)
<1>1. LoadInv /\ Doubles /\ [Next]_vars => (LoadInv /\ Doubles)'
  <2>1. LoadInv /\ Doubles /\ Next => (LoadInv /\ Doubles)'
    BY TypedSteps, LoadingSteps, PagesSteps, MasterSteps, SlaveSteps, DoublesSteps DEF LoadInv
  <2> QED BY <2>1, LoadStutters
<1> QED BY LoadInit, <1>1, PTL DEF Spec

\* The variables keep to their types (TypeOK of wrocksdb_initial's state).
THEOREM LoadTypes == Spec => []TypeOK
<1>1. LoadInv => TypeOK
  <2> SUFFICES ASSUME LoadInv PROVE TypeOK
    OBVIOUS
  <2>1. Typed
    BY DEF LoadInv
  <2>2. log \in Seq([kind : AllKinds, key : Keys])
    BY <2>1 DEF Typed, Entries
  <2>3. /\ load.pc \in {"none", "snapshot", "range", "last", "release", "done", "stopped"}
        /\ load.start \in 0..(MaxOps + 1) /\ load.from \in {Nothing} \cup Keys
        /\ load.beg \in BOOLEAN /\ load.began \in 0..MaxOps /\ load.setnx \in BOOLEAN
    BY <2>1 DEF Typed, LoadType, Pcs
  <2> QED BY <2>1, <2>2, <2>3 DEF TypeOK, Typed, Causes
<1> QED BY <1>1, LoadIsRight, PTL

\* A slave that was loaded and has caught up has what the master has, but for the
\* causes listed and for increments merged twice (wrocksdb_initial, slave_start_).
THEOREM LoadConverges == Spec => []Converges
<1>1. LoadInv => Converges
  <2> SUFFICES ASSUME LoadInv, CaughtUp, NEW k \in Keys, cause[k] = {} PROVE SameOps(sdata[k], mdata[k])
    BY DEF Converges
  <2> DEFINE n == Len(log)
  <2>1. /\ log \in Seq(Entries) /\ n \in Nat /\ repl \in Nat /\ repl > n /\ held = {}
        /\ load.pc = "done"
    BY LenProperties DEF LoadInv, Typed, Loading, CaughtUp
  <2>2. ~Unread(k) /\ ~Unwritten(k)
    BY <2>1 DEF Unread, Unwritten
  <2>3. Right(log, sdata[k], k, repl)
    BY <2>1, <2>2 DEF LoadInv, SlaveHas, HasOf, Settled
  <2>4. AsOf(log, sdata[k], k, repl - 1)
    <3>1. ~Ahead(log, sdata[k], k, repl)
      BY <2>1 DEF Ahead
    <3> QED BY <2>3, <3>1 DEF Right
  <2>5. Ops(log, k) \subseteq 1..n
    BY <2>1, OpsOfLog
  <2>6. AsOf(log, mdata[k], k, n)
    BY DEF LoadInv, MasterHas
  <2>7. AsOf(log, mdata[k], k, repl - 1)
    <3>1. repl - 1 \in Nat /\ n <= repl - 1 /\ \A i \in Ops(log, k) : ~(n < i /\ i <= repl - 1)
      BY <2>1, <2>5
    <3> QED BY <2>1, <2>6, <3>1, AsOfQuiet
  <2> QED BY <2>1, <2>4, <2>7, AsOfOne
<1> QED BY <1>1, LoadIsRight, PTL

\* Where replication starts at the number of the snapshot, an increment that the slave
\* merges twice was made after the load began.
THEOREM LoadDoubles == Spec => []DoubledOnlyInLoad
<1>1. LoadInv /\ Doubles => DoubledOnlyInLoad
  BY DEF Doubles, DoubledOnlyInLoad, Twice, OnceTo
<1> QED BY <1>1, LoadIsRight, PTL
-----------------------------------------------------------------------------
(* What the pages pass over. *)

LEMMA OneOrNone ==
  ASSUME NEW S, IsFiniteSet(S)
  PROVE  /\ Cardinality(S) \in Nat
         /\ Cardinality(S) <= 1 <=> \A x, y \in S : x = y
         /\ Cardinality(S) = 0 <=> S = {}
<1>1. Cardinality(S) \in Nat /\ (Cardinality(S) = 0 <=> S = {})
  BY FS_CardinalityType, FS_EmptySet
<1>2. ASSUME NEW x \in S, \A y \in S : x = y PROVE Cardinality(S) = 1
  <2>1. S = {} \cup {x}
    BY <1>2
  <2> QED BY <2>1, FS_EmptySet, FS_AddElement
<1>3. ASSUME NEW x \in S, NEW y \in S, x # y PROVE ~(Cardinality(S) <= 1)
  <2>1. IsFiniteSet({x}) /\ Cardinality({x}) = 1
    <3>1. {x} = {} \cup {x}
      OBVIOUS
    <3>2. IsFiniteSet({} \cup {x}) /\ Cardinality({} \cup {x}) = (IF x \in {} THEN Cardinality({}) ELSE Cardinality({}) + 1)
      BY FS_EmptySet, FS_AddElement, Zenon
    <3>3. Cardinality({} \cup {x}) = 1
      BY <3>2, FS_EmptySet
    <3> QED BY <3>1, <3>2, <3>3
  <2>2. Cardinality({x} \cup {y}) = 2
    <3>1. y \notin {x}
      BY <1>3
    <3>2. Cardinality({x} \cup {y}) = IF y \in {x} THEN Cardinality({x}) ELSE Cardinality({x}) + 1
      BY <2>1, FS_AddElement
    <3> QED BY <2>1, <3>1, <3>2
  <2>3. {x} \cup {y} \in SUBSET S
    OBVIOUS
  <2> QED BY <1>1, <2>2, <2>3, FS_Subset
<1> QED BY <1>1, <1>2, <1>3

\* The rank of a key is the number of those before it.
LEMMA RankGrows ==
  ASSUME NEW S, IsFiniteSet(S), S \subseteq Nat, NEW k \in Nat
  PROVE  /\ Rank(S, k) \in Nat
         /\ Rank(S, k) < 1 <=> \A j \in S : k <= j
         /\ \A j \in S : k <= j => Rank(S, k) <= Rank(S, j)
         /\ \A T \in SUBSET S : (\A j \in T : j < k) => Cardinality(T) <= Rank(S, k)
         /\ \A T \in SUBSET S : IsFiniteSet(T) /\ (\A j \in S : j < k => j \in T) => Rank(S, k) <= Cardinality(T)
<1> DEFINE Below(i) == {j \in S : j < i}
<1>1. \A i \in Nat : IsFiniteSet(Below(i)) /\ Cardinality(Below(i)) \in Nat /\ Rank(S, i) = Cardinality(Below(i))
  BY FS_Subset, FS_CardinalityType DEF Rank
<1>2. Cardinality(Below(k)) < 1 <=> \A j \in S : k <= j
  <2>1. Cardinality(Below(k)) < 1 <=> Below(k) = {}
    BY <1>1, OneOrNone
  <2>2. \A j \in S : j \in Nat
    OBVIOUS
  <2>3. ASSUME NEW j \in S PROVE ~(k <= j) <=> j < k
    BY <2>2
  <2>4. Below(k) = {} <=> \A j \in S : ~(j < k)
    OBVIOUS
  <2> QED BY <2>1, <2>3, <2>4
<1>3. ASSUME NEW j \in S, k <= j PROVE Cardinality(Below(k)) <= Cardinality(Below(j))
  <2>1. \A i \in S : i \in Nat
    OBVIOUS
  <2>2. \A i \in Below(k) : i \in Below(j)
    BY <1>3, <2>1
  <2>3. Below(k) \in SUBSET Below(j) /\ j \in Nat
    BY <2>1, <2>2, Zenon
  <2> QED BY <1>1, <2>3, FS_Subset
<1>4. ASSUME NEW T \in SUBSET S, \A j \in T : j < k PROVE Cardinality(T) <= Cardinality(Below(k))
  <2>1. T \in SUBSET Below(k)
    BY <1>4
  <2> QED BY <1>1, <2>1, FS_Subset
<1>5. ASSUME NEW T \in SUBSET S, IsFiniteSet(T), \A j \in S : j < k => j \in T
      PROVE  Cardinality(Below(k)) <= Cardinality(T)
  <2>1. Below(k) \in SUBSET T
    BY <1>5
  <2> QED BY <1>5, <2>1, FS_Subset
<1>6. \A j \in S : j \in Nat
  OBVIOUS
<1> HIDE DEF Below
<1> QED BY <1>1, <1>2, <1>3, <1>4, <1>5, <1>6

\* Those that a scan of S steps over at first, and those it leaves after n keys.
LEMMA ScanLeaves ==
  ASSUME NEW S, IsFiniteSet(S), S \subseteq Nat, NEW n \in Nat
  PROVE  LET P == Take(S, n)
         IN  /\ IsFiniteSet(P) /\ P \subseteq S
             /\ \A k \in S \ P : \A j \in P : j < k
             /\ S \ P \subseteq Drop(S, Cardinality(P))
             /\ Cardinality(P) < n => S \ P = {}
<1> DEFINE P == Take(S, n)
<1>1. P \in SUBSET S /\ IsFiniteSet(P)
  <2>1. P \in SUBSET S
    BY DEF Take
  <2> QED BY <2>1, FS_Subset
<1>2. \A k \in S : k \in Nat /\ Rank(S, k) \in Nat
  BY RankGrows
<1>3. \A k \in S \ P : k \in S /\ ~(Rank(S, k) < n)
  BY DEF Take
<1>4. ASSUME NEW k \in S \ P, NEW j \in P PROVE j < k
  <2>1. j \in S /\ Rank(S, j) < n
    BY DEF Take
  <2>2. k <= j => Rank(S, k) <= Rank(S, j)
    BY <1>2, <1>3, <2>1, RankGrows
  <2> QED BY <1>2, <1>3, <2>1, <2>2
<1>5. ASSUME NEW k \in S \ P PROVE k \in Drop(S, Cardinality(P))
  <2>1. Cardinality(P) <= Rank(S, k) /\ Cardinality(P) \in Nat
    BY <1>1, <1>2, <1>4, RankGrows, FS_CardinalityType
  <2> QED BY <1>2, <2>1 DEF Drop
<1>6. ASSUME Cardinality(P) < n PROVE S \ P = {}
  <2>1. SUFFICES ASSUME S \ P # {} PROVE FALSE
    OBVIOUS
  <2>2. PICK k \in S \ P : \A j \in S \ P : k <= j
    <3>1. S \ P \subseteq Nat
      OBVIOUS
    <3> QED BY <2>1, <3>1, Least
  <2>3. \A j \in S : j < k => j \in P
    BY <1>2, <2>2
  <2>4. Rank(S, k) <= Cardinality(P)
    BY <1>1, <1>2, <2>3, RankGrows
  <2> QED BY <1>1, <1>2, <1>3, <1>6, <2>4, FS_CardinalityType
<1> HIDE DEF P
<1> QED BY <1>1, <1>4, <1>5, <1>6 DEF P

\* What a page passes over is what it started after, and what it leaves when it is the last.
LEMMA PagePasses ==
  ASSUME Typed, NEW answer, answer = Answer(Present(mdata), Request),
         load.from = Nothing => load.beg, NEW T \in SUBSET Passed(answer)
  PROVE  /\ Cardinality(T) <= 2
         /\ load.from \in Present(mdata) \cup {Nothing} /\ T # {} => Cardinality(T) = 1 /\ answer.fin
         /\ answer.fields = {} => answer.fin
<1> DEFINE M == Present(mdata)
           F == {k \in M : k >= load.from}
           n == IF load.beg THEN 0 ELSE 1
           S == Drop(F, n)
           P == Take(S, PageSize)
           R == Drop(S, Cardinality(P))
<1>1. IsFiniteSet(M) /\ M \subseteq Nat \ {0} /\ load.from \in Nat /\ PageSize \in Nat \ {0}
  <2>1. M \subseteq Keys /\ IsFiniteSet(Keys)
    BY FS_Interval DEF Present, Keys
  <2> QED BY <2>1, FS_Subset, LoadIs DEF Keys, Nothing
<1>2. IsFiniteSet(F) /\ F \subseteq Nat /\ F \subseteq M
  BY <1>1, FS_Subset
<1>3. IsFiniteSet(S) /\ S \subseteq F
  <2>1. S \in SUBSET F
    BY DEF Drop
  <2> QED BY <1>2, <2>1, FS_Subset
<1>4. answer.fields = P /\ (answer.fin <=> Cardinality(P) < PageSize \/ Cardinality(R) <= 1)
  <2>1. /\ Request.from = load.from /\ Request.to = Nothing /\ Request.beg = load.beg
        /\ Request.offset = 0 /\ Request.limit = PageSize
    BY DEF Request
  <2>2. Seek(M, Request) = S
    BY <2>1 DEF Seek
  <2>3. WithinEnd(S, Nothing) = S
    BY DEF WithinEnd
  <2>4. Fields(M, Request) = P
    BY <2>1, <2>2, <2>3 DEF Fields
  <2>5. Rest(M, Request) = R
    BY <2>2, <2>4 DEF Rest
  <2> HIDE DEF M, P, R
  <2>6. Fin(M, {}, Request) <=> Cardinality(P) < PageSize \/ Cardinality(R) <= 1
    BY <2>1, <2>4, <2>5 DEF Fin
  <2>7. answer.fields = Fields(M, Request) /\ answer.fin = Fin(M, {}, Request)
    BY DEF Answer, M
  <2> QED BY <2>4, <2>6, <2>7
<1>5. \A k \in T : k \in M /\ k > load.from /\ k \notin P /\ (answer.fin \/ \E j \in P : k < j)
  BY <1>4 DEF Passed
<1>6. /\ IsFiniteSet(P) /\ P \subseteq S /\ IsFiniteSet(R)
      /\ \A k \in S \ P : \A j \in P : j < k
      /\ S \ P \subseteq R
      /\ Cardinality(P) < PageSize => S \ P = {}
  <2> HIDE DEF S
  <2>1. S \subseteq Nat
    BY <1>2, <1>3
  <2>2. R \in SUBSET S
    BY DEF Drop
  <2> QED BY <1>1, <1>3, <2>1, <2>2, ScanLeaves, FS_Subset
<1>7. \A k \in F \ S : ~load.beg /\ \A j \in F : k <= j
  <2> HIDE DEF F
  <2>1. ASSUME NEW k \in F \ S PROVE Rank(F, k) \in Nat /\ Rank(F, k) < n /\ (Rank(F, k) < 1 <=> \A j \in F : k <= j)
    <3>1. Rank(F, k) \in Nat /\ (Rank(F, k) < 1 <=> \A j \in F : k <= j)
      BY <1>2, RankGrows
    <3>2. ~(Rank(F, k) >= n)
      BY DEF Drop
    <3> QED BY <3>1, <3>2
  <2> QED BY <2>1
<1> HIDE DEF F, S, P, R, M
<1> DEFINE A == T \ S
           B == T \cap S
<1>8. T = A \cup B /\ T \subseteq F
  BY <1>1, <1>5 DEF F, M
<1>9. \A x, y \in A : x = y
  BY <1>2, <1>7, <1>8
<1>10. load.from \in M \cup {Nothing} => A = {}
  <2> SUFFICES ASSUME load.from \in M, NEW x \in A PROVE FALSE
    BY <1>7, <1>8
  <2>1. load.from \in F
    BY <1>1 DEF F
  <2> QED BY <1>1, <1>2, <1>5, <1>7, <1>8, <2>1
<1>11. \A k \in B : k \in R /\ answer.fin /\ Cardinality(R) <= 1
  <2>1. \A k \in B : \A j \in P : j < k
    BY <1>5, <1>6
  <2>2. ASSUME NEW k \in B PROVE answer.fin
    <3>1. k \in Nat /\ \A j \in P : j \in Nat /\ j < k
      BY <1>2, <1>3, <1>6, <2>1
    <3>2. ~(\E j \in P : k < j)
      BY <3>1
    <3> QED BY <1>5, <3>2, Zenon
  <2> QED BY <1>4, <1>5, <1>6, <2>2
<1>12. \A x, y \in B : x = y
  BY <1>6, <1>11, OneOrNone
<1>13. /\ IsFiniteSet(A) /\ IsFiniteSet(B) /\ Cardinality(A) <= 1 /\ Cardinality(B) <= 1
       /\ Cardinality(A) \in Nat /\ Cardinality(B) \in Nat
       /\ Cardinality(B) = 0 <=> B = {}
  <2>1. A \in SUBSET F /\ B \in SUBSET F
    BY <1>8
  <2>2. IsFiniteSet(A) /\ IsFiniteSet(B)
    BY <1>2, <2>1, FS_Subset
  <2> HIDE DEF A, B
  <2> QED BY <1>9, <1>12, <2>2, OneOrNone
<1> HIDE DEF A, B
<1>14. Cardinality(T) <= 2
  <2>1. Cardinality(A \cup B) = Cardinality(A) + Cardinality(B) - Cardinality(A \cap B)
    BY <1>13, FS_Union
  <2>2. Cardinality(A \cap B) \in Nat
    BY <1>13, FS_Intersection, FS_CardinalityType
  <2> QED BY <1>8, <1>13, <2>1, <2>2
<1>15. load.from \in M \cup {Nothing} /\ T # {} => Cardinality(T) = 1 /\ answer.fin
  <2> SUFFICES ASSUME load.from \in M \cup {Nothing}, T # {} PROVE Cardinality(T) = 1 /\ answer.fin
    OBVIOUS
  <2>1. T = B /\ B # {}
    BY <1>8, <1>10
  <2> QED BY <1>11, <1>13, <2>1
<1>16. answer.fields = {} => answer.fin
  BY <1>1, <1>4, FS_EmptySet
<1> QED BY <1>14, <1>15, <1>16 DEF M

\* A load that has asked for a page goes on from a key.
Begins == load.from = Nothing => load.beg

LEMMA BeginsSteps == ASSUME Typed, Loading, Begins, Next PROVE Begins'
<1> USE DEF Begins
<1>1. CASE Start
  <2>1. PICK setnx \in UseSetnx : load' = [Idle EXCEPT !.pc = "snapshot", !.began = Len(log), !.setnx = setnx]
    BY <1>1 DEF Start
  <2> QED BY <2>1 DEF Idle
<1>2. CASE Stop
  BY <1>2 DEF Stop, Idle
<1>3. CASE CreateSnapshot \/ NoSnapshot
  BY <1>3, SnapshotFacts
<1>4. CASE SnapshotRefused \/ PageRefused \/ Handover
  <2>1. \E pc \in Pcs : load' = [load EXCEPT !.pc = pc]
    BY <1>4 DEF SnapshotRefused, PageRefused, Handover, Pcs
  <2> QED BY <2>1, LoadMoves
<1>5. CASE Page
  <2> DEFINE answer == Answer(Present(mdata), Request)
  <2>1. load' = IF answer.fin THEN [load EXCEPT !.pc = "last"]
                ELSE [load EXCEPT !.from = NextFrom(answer.fields), !.beg = FALSE]
    BY <1>5 DEF Page
  <2>2. {} \in SUBSET Passed(answer)
    OBVIOUS
  <2> HIDE DEF answer
  <2>3. answer.fields = {} => answer.fin
    BY <2>2, PagePasses DEF answer
  <2>4. answer.fields \subseteq Keys /\ answer.fin \in BOOLEAN
    BY FieldsFacts DEF answer
  <2>5. CASE answer.fin
    BY <2>1, <2>5, PageFacts DEF answer
  <2>6. CASE ~answer.fin
    <3>1. load' = [load EXCEPT !.from = NextFrom(answer.fields), !.beg = FALSE]
      BY <2>1, <2>6
    <3>2. NextFrom(answer.fields) \in answer.fields
      BY <2>3, <2>4, <2>6, MaxIs DEF NextFrom
    <3>3. load'.from = NextFrom(answer.fields)
      BY <3>1, LoadGoesOn
    <3> QED BY <2>4, <3>2, <3>3 DEF Keys, Nothing
  <2> QED BY <2>4, <2>5, <2>6
<1>6. ASSUME NEW h \in held, Write(h) \/ Post(h) PROVE Begins'
  <2>1. load' = load \/ \E pc \in Pcs : load' = [load EXCEPT !.pc = pc]
    BY <1>6 DEF Write, Post, Pcs
  <2> QED BY <2>1, LoadMoves
<1>7. CASE (\E kind \in Kinds, key \in Keys : MasterOp(kind, key)) \/ Replay
  BY <1>7 DEF MasterOp, Replay
<1> QED BY <1>1, <1>2, <1>3, <1>4, <1>5, <1>6, <1>7 DEF Next, Load

\* A page passes over one key at the end, when it is the last, and one key where it starts,
\* when the key to continue from is gone (wrocksdb_initial, wrocksdb::range).
THEOREM PagesPassFew == Spec => PassesFew
<1> DEFINE passed == {k \in Keys : "passed" \in cause'[k] /\ "passed" \notin cause[k]}
           Few == /\ Cardinality(passed) <= 2
                  /\ load.from \in Present(mdata) \cup {Nothing} /\ passed # {} =>
                       Cardinality(passed) = 1 /\ load'.pc = "last"
<1>1. Init => Begins
  BY DEF Init, Begins, Idle
<1>2. LoadInv /\ Begins /\ [Next]_vars => Begins'
  <2>1. ASSUME UNCHANGED vars, Begins PROVE Begins'
    BY <2>1 DEF vars, Begins
  <2> QED BY <2>1, BeginsSteps DEF LoadInv
<1>3. ASSUME passed = {} PROVE Few
  BY <1>3, FS_EmptySet
<1>4. ASSUME LoadInv, Begins, Page PROVE Few
  <2> DEFINE answer == Answer(Present(mdata), Request)
  <2>1. /\ load' = (IF answer.fin THEN [load EXCEPT !.pc = "last"]
                    ELSE [load EXCEPT !.from = NextFrom(answer.fields), !.beg = FALSE])
        /\ cause' = Excused(Passed(answer), "passed")
    BY <1>4 DEF Page
  <2>2. passed \in SUBSET Passed(answer)
    BY <2>1 DEF Excused
  <2> HIDE DEF answer, passed
  <2>3. /\ Cardinality(passed) <= 2
        /\ load.from \in Present(mdata) \cup {Nothing} /\ passed # {} =>
             Cardinality(passed) = 1 /\ answer.fin
    BY <1>4, <2>2, PagePasses DEF answer, LoadInv, Begins
  <2>4. answer.fin => load'.pc = "last"
    BY <1>4, <2>1, PageFacts DEF answer, LoadInv
  <2> QED BY <2>3, <2>4
<1>5. ASSUME LoadInv, [Next]_vars, ~Page PROVE passed = {}
  <2>0. cause \in [Keys -> SUBSET Causes]
    BY <1>5 DEF LoadInv, Typed
  <2> SUFFICES \A k \in Keys : "passed" \in cause'[k] => "passed" \in cause[k]
    OBVIOUS
  <2>1. CASE Start
    BY <2>1 DEF Start
  <2>2. CASE PageRefused
    BY <2>0, <2>2 DEF PageRefused, Excused
  <2>3. ASSUME NEW kind \in Kinds, NEW key \in Keys, MasterOp(kind, key)
        PROVE  \A k \in Keys : "passed" \in cause'[k] => "passed" \in cause[k]
    BY <2>0, <2>3 DEF MasterOp, Excused
  <2>4. ASSUME NEW h \in held, Write(h)
        PROVE  \A k \in Keys : "passed" \in cause'[k] => "passed" \in cause[k]
    BY <2>0, <2>4 DEF Write
  <2>5. CASE Handover
    BY <2>0, <2>5 DEF Handover, Excused
  <2>6. CASE Replay
    BY <2>0, <2>6 DEF Replay
  <2>7. CASE Stop \/ NoSnapshot \/ SnapshotRefused \/ CreateSnapshot \/ (\E h \in held : Post(h)) \/ UNCHANGED vars
    BY <2>7 DEF Stop, NoSnapshot, SnapshotRefused, CreateSnapshot, Post, vars
  <2> QED BY <1>5, <2>1, <2>2, <2>3, <2>4, <2>5, <2>6, <2>7 DEF Next, Load
<1>6. LoadInv /\ Begins /\ [Next]_vars => [Few]_vars
  BY <1>3, <1>4, <1>5
<1> QED BY <1>1, <1>2, <1>6, LoadIsRight, PTL DEF Spec, PassesFew
=============================================================================
