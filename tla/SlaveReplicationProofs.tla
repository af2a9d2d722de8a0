----------------------- MODULE SlaveReplicationProofs -----------------------
(***************************************************************************)
(* Two sets of proofs.                                                     *)
(*                                                                         *)
(* What the operations hold (Replica): operands of one method may be       *)
(* folded in any parts, and a key that a slave has caught up with reads as *)
(* it does on the master, whatever requests were made, in whatever         *)
(* batches, and whenever either side folded.  What a list comes to is      *)
(* proved by induction over lists (LeftFold).                              *)
(*                                                                         *)
(* Which operations arrive (SlaveReplication), for every bound, every      *)
(* configuration and every set of faults: the type invariant, that the     *)
(* slave passes over an operation only in the ways Accounted lists, and    *)
(* that one session parses the master's log forwards.  Then, about a       *)
(* session that nothing stops and whose writes do not fail, over a log     *)
(* that may be purged: the slave applies each operation once, and          *)
(* implements ReplicaLog.  Then, about restarts under any faults: where    *)
(* they resume.                                                            *)
(***************************************************************************)
EXTENDS SlaveRefinement, Replica, FiniteSetTheorems, SequenceTheorems, TLAPS

(* The folds of the model, by the equations of LeftFold. *)

Selects == INSTANCE LeftFold WITH Op <- Select
Incs == INSTANCE LeftFold WITH Op <- IncOperand
Adds == INSTANCE LeftFold WITH Op <- AddOperand
Packs == INSTANCE LeftFold WITH Op <- PackedOperand

LEMMA Alone ==
  ASSUME NEW E, NEW e \in E
  PROVE  <<e>> = Append(<<>>, e) /\ <<>> \in Seq(E) /\ <<e>> \in Seq(E) /\ <<e>> # <<>> /\ <<e>>[1] = e
BY EmptySeq

SelectAll(b, s) == FoldLeft(Select, b, s)

LEMMA SelectAllIsFold == \A b, s : SelectAll(b, s) = Selects!Fold(b, s)
BY DEF SelectAll, FoldLeft, MapThenFoldSet, Max, Selects!Fold, Selects!Greatest

LEMMA SelectAllStep ==
  ASSUME NEW E, NEW b, NEW s \in Seq(E), NEW e \in E
  PROVE  SelectAll(b, <<>>) = b /\ SelectAll(b, Append(s, e)) = Select(SelectAll(b, s), e)
<1>1. Selects!Fold(b, <<>>) = b
  BY Selects!FoldEmpty, SMT
<1>2. Selects!Fold(b, Append(s, e)) = Select(Selects!Fold(b, s), e)
  BY Selects!FoldAppend, SMT
<1> QED BY <1>1, <1>2, SelectAllIsFold, Zenon

LEMMA SelectAllOne == ASSUME NEW b, NEW e PROVE SelectAll(b, <<e>>) = Select(b, e)
<1>1. Selects!Fold(b, <<e>>) = Select(b, e)
  BY Selects!FoldOne, SMT
<1> QED BY <1>1, SelectAllIsFold, Zenon

IncAll(b, s) == FoldLeft(IncOperand, b, s)

LEMMA IncAllIsFold == \A b, s : IncAll(b, s) = Incs!Fold(b, s)
BY DEF IncAll, FoldLeft, MapThenFoldSet, Max, Incs!Fold, Incs!Greatest

LEMMA IncAllStep ==
  ASSUME NEW E, NEW b, NEW s \in Seq(E), NEW e \in E
  PROVE  IncAll(b, <<>>) = b /\ IncAll(b, Append(s, e)) = IncOperand(IncAll(b, s), e)
<1>1. Incs!Fold(b, <<>>) = b
  BY Incs!FoldEmpty, SMT
<1>2. Incs!Fold(b, Append(s, e)) = IncOperand(Incs!Fold(b, s), e)
  BY Incs!FoldAppend, SMT
<1> QED BY <1>1, <1>2, IncAllIsFold, Zenon

LEMMA IncAllOne == ASSUME NEW b, NEW e PROVE IncAll(b, <<e>>) = IncOperand(b, e)
<1>1. Incs!Fold(b, <<e>>) = IncOperand(b, e)
  BY Incs!FoldOne, SMT
<1> QED BY <1>1, IncAllIsFold, Zenon

AddAll(b, s) == FoldLeft(AddOperand, b, s)

LEMMA AddAllIsFold == \A b, s : AddAll(b, s) = Adds!Fold(b, s)
BY DEF AddAll, FoldLeft, MapThenFoldSet, Max, Adds!Fold, Adds!Greatest

LEMMA AddAllStep ==
  ASSUME NEW E, NEW b, NEW s \in Seq(E), NEW e \in E
  PROVE  AddAll(b, <<>>) = b /\ AddAll(b, Append(s, e)) = AddOperand(AddAll(b, s), e)
<1>1. Adds!Fold(b, <<>>) = b
  BY Adds!FoldEmpty, SMT
<1>2. Adds!Fold(b, Append(s, e)) = AddOperand(Adds!Fold(b, s), e)
  BY Adds!FoldAppend, SMT
<1> QED BY <1>1, <1>2, AddAllIsFold, Zenon

LEMMA AddAllOne == ASSUME NEW b, NEW e PROVE AddAll(b, <<e>>) = AddOperand(b, e)
<1>1. Adds!Fold(b, <<e>>) = AddOperand(b, e)
  BY Adds!FoldOne, SMT
<1> QED BY <1>1, AddAllIsFold, Zenon

PackedAll(b, s) == FoldLeft(PackedOperand, b, s)

LEMMA PackedAllIsFold == \A b, s : PackedAll(b, s) = Packs!Fold(b, s)
BY DEF PackedAll, FoldLeft, MapThenFoldSet, Max, Packs!Fold, Packs!Greatest

LEMMA PackedAllStep ==
  ASSUME NEW E, NEW b, NEW s \in Seq(E), NEW e \in E
  PROVE  PackedAll(b, <<>>) = b /\ PackedAll(b, Append(s, e)) = PackedOperand(PackedAll(b, s), e)
<1>1. Packs!Fold(b, <<>>) = b
  BY Packs!FoldEmpty, SMT
<1>2. Packs!Fold(b, Append(s, e)) = PackedOperand(Packs!Fold(b, s), e)
  BY Packs!FoldAppend, SMT
<1> QED BY <1>1, <1>2, PackedAllIsFold, Zenon

LEMMA PackedAllOne == ASSUME NEW b, NEW e PROVE PackedAll(b, <<e>>) = PackedOperand(b, e)
<1>1. Packs!Fold(b, <<e>>) = PackedOperand(b, e)
  BY Packs!FoldOne, SMT
<1> QED BY <1>1, PackedAllIsFold, Zenon
-----------------------------------------------------------------------------
(* The merge operator: operands folded one at a time, or together. *)

None == [mode |-> "none", ops |-> <<>>]
Chosen(s) == SelectAll(None, s)

LEMMA ChosenStep ==
  ASSUME NEW E, NEW s \in Seq(E), NEW e \in E
  PROVE  Chosen(<<>>) = None /\ Chosen(Append(s, e)) = Select(Chosen(s), e)
BY SelectAllStep, SMT DEF Chosen

LEMMA ChosenAlone ==
  ASSUME NEW e, e.mode \notin {"junk", "none"}
  PROVE  Chosen(<<e>>) = [mode |-> e.mode, ops |-> <<e>>]
<1>1. Chosen(<<e>>) = Select(None, e)
  BY SelectAllOne, Zenon DEF Chosen
<1> QED BY <1>1 DEF Select, None

\* Operands of one method, a setnx besides.
OneMethod(E, m) ==
  /\ m \in {"inc", "add", "packed"}
  /\ \A e \in E : e.mode \in {m, "setnx"} /\ (e.mode = "setnx" => e.val # Missing)

LEMMA ChosenFacts ==
  ASSUME NEW E, NEW m, OneMethod(E, m), NEW s \in Seq(E), s # <<>>
  PROVE  /\ Chosen(s) = [mode |-> Chosen(s).mode, ops |-> Chosen(s).ops]
         /\ Chosen(s).ops \in Seq(E) /\ Chosen(s).ops # <<>>
         /\ \/ Chosen(s).mode = m
            \/ /\ Chosen(s).mode = "setnx" /\ Chosen(s).ops = <<s[1]>>
               /\ \A i \in 1..Len(s) : s[i].mode = "setnx"
<1> DEFINE Claim(t) ==
      /\ Chosen(t) = [mode |-> Chosen(t).mode, ops |-> Chosen(t).ops]
      /\ Chosen(t).ops \in Seq(E) /\ Chosen(t).ops # <<>>
      /\ \/ Chosen(t).mode = m
         \/ /\ Chosen(t).mode = "setnx" /\ Chosen(t).ops = <<t[1]>>
            /\ \A i \in 1..Len(t) : t[i].mode = "setnx"
           P == {t \in Seq(E) : t # <<>> => Claim(t)}
<1>0. m \notin {"junk", "none", "setnx"} /\ \A e \in E : e.mode \in {m, "setnx"}
  BY DEF OneMethod
<1>1. <<>> \in P
  BY EmptySeq
<1>2. ASSUME NEW t \in Seq(E), t \in P, NEW e \in E PROVE Append(t, e) \in P
  <2>1. Chosen(Append(t, e)) = Select(Chosen(t), e)
    BY ChosenStep, SMT
  <2>2. Append(t, e) \in Seq(E)
    BY AppendProperties
  <2>0. Claim(Append(t, e)) => Append(t, e) \in P
    BY <2>2
  <2>9. t # <<>> => Claim(t)
    BY <1>2
  <2> HIDE DEF P
  <2>3. CASE t = <<>>
    <3>1. Append(t, e) = <<e>> /\ Chosen(<<e>>) = [mode |-> e.mode, ops |-> <<e>>]
      BY <1>0, <2>3, ChosenAlone
    <3>2. Claim(<<e>>)
      <4>1. Chosen(<<e>>).mode = e.mode /\ Chosen(<<e>>).ops = <<e>> /\ e.mode \in {m, "setnx"}
        BY <1>0, <3>1
      <4>2. <<e>> \in Seq(E) /\ <<e>> # <<>>
        BY Alone
      <4>3. e.mode = "setnx" => \A i \in 1..Len(<<e>>) : <<e>>[i].mode = "setnx"
        OBVIOUS
      <4>4. <<e>> = <<<<e>>[1]>>
        OBVIOUS
      <4> QED BY <3>1, <4>1, <4>2, <4>3, <4>4, Zenon
    <3> QED BY <2>0, <3>1, <3>2, Zenon
  <2>4. CASE t # <<>>
    <3>1. Claim(t)
      BY <2>4, <2>9
    <3>2. /\ Append(t, e)[1] = t[1] /\ Len(Append(t, e)) = Len(t) + 1 /\ Len(t) \in Nat
          /\ Append(t, e)[Len(t) + 1] = e /\ \A i \in 1..Len(t) : Append(t, e)[i] = t[i]
      BY <2>4
    <3>3. CASE e.mode = "setnx"
      <4>1. Chosen(Append(t, e)) = Chosen(t)
        BY <1>0, <2>1, <3>1, <3>3 DEF Select
      <4>2. Claim(Append(t, e))
        BY <3>1, <3>2, <3>3, <4>1
      <4> QED BY <2>0, <4>2
    <3>4. CASE e.mode = m
      <4>1. CASE Chosen(t).mode = m
        <5>1. Chosen(Append(t, e)) = [mode |-> m, ops |-> Append(Chosen(t).ops, e)]
          BY <1>0, <2>1, <3>1, <3>4, <4>1 DEF Select
        <5>2. Append(Chosen(t).ops, e) \in Seq(E) /\ Append(Chosen(t).ops, e) # <<>>
          BY <3>1, AppendProperties
        <5>3. Claim(Append(t, e))
          BY <5>1, <5>2
        <5> QED BY <2>0, <5>3
      <4>2. CASE Chosen(t).mode # m
        <5>1. Chosen(Append(t, e)) = [mode |-> m, ops |-> <<e>>]
          BY <1>0, <2>1, <3>1, <3>4, <4>2 DEF Select
        <5>2. <<e>> \in Seq(E) /\ <<e>> # <<>>
          BY Alone
        <5>3. Claim(Append(t, e))
          BY <5>1, <5>2
        <5> QED BY <2>0, <5>3
      <4> QED BY <4>1, <4>2
    <3> QED BY <1>0, <3>3, <3>4
  <2> QED BY <2>3, <2>4
<1>3. Seq(E) \subseteq P
  <2> HIDE DEF P
  <2> QED BY <1>1, <1>2, Selects!ListInduction
<1>4. Claim(s)
  BY <1>3
<1> QED BY <1>4

IncStart(v) == [num |-> IF IsNumber(v) THEN v.num ELSE 0, exist |-> IsNumber(v)]

LEMMA IncMore ==
  ASSUME NEW E, NEW v, NEW s \in Seq(E), s # <<>>, NEW e \in E
  PROVE  Inc(v, Append(s, e)) = Inc(Inc(v, s), <<e>>)
<1> DEFINE st == IncAll(IncStart(v), s)
           n == st.num
<1>1. \A w, t : Inc(w, t) = Number(IncAll(IncStart(w), t).num)
  BY DEF Inc, IncAll, IncStart
<1>2. \A c : \A t \in Seq(E), f \in E : IncAll(c, Append(t, f)) = IncOperand(IncAll(c, t), f)
  BY IncAllStep, SMT
<1>3. st = [num |-> n, exist |-> TRUE]
  <2>1. PICK t \in Seq(E), f \in E : s = Append(t, f)
    BY SequenceEmptyOrAppend
  <2>2. st = IncOperand(IncAll(IncStart(v), t), f)
    BY <1>2, <2>1, Zenon
  <2> HIDE DEF st
  <2> QED BY <2>2 DEF IncOperand
<1>4. IncStart(Number(n)) = [num |-> n, exist |-> TRUE]
  <2> HIDE DEF n
  <2> QED BY DEF IncStart, Number, IsNumber
<1>5. IncAll(IncStart(v), Append(s, e)) = IncOperand(st, e)
  BY <1>2, Zenon
<1>6. IncAll(IncStart(Number(n)), <<e>>) = IncOperand(st, e)
  BY IncAllOne, <1>3, <1>4, Zenon
<1>7. Inc(v, Append(s, e)) = Number(IncOperand(st, e).num) /\ Inc(v, s) = Number(n)
  BY <1>1, <1>5, Zenon
<1>8. Inc(Number(n), <<e>>) = Number(IncOperand(st, e).num)
  BY <1>1, <1>6, Zenon
<1> QED BY <1>7, <1>8, Zenon

AddStart(v) == IF v.is = "array" THEN v.items ELSE <<>>

LEMMA AddMore ==
  ASSUME NEW E, NEW v, NEW s \in Seq(E), NEW e \in E
  PROVE  Add(v, Append(s, e)) = Add(Add(v, s), <<e>>)
<1> DEFINE x == AddAll(AddStart(v), s)
<1>1. \A w, t : Add(w, t) = Array(AddAll(AddStart(w), t))
  BY DEF Add, AddAll, AddStart
<1>2. \A c : \A t \in Seq(E), f \in E : AddAll(c, Append(t, f)) = AddOperand(AddAll(c, t), f)
  BY AddAllStep, SMT
<1>3. \A y : AddStart(Array(y)) = y
  BY DEF AddStart, Array
<1>4. Add(v, Append(s, e)) = Array(AddOperand(x, e)) /\ Add(v, s) = Array(x)
  BY <1>1, <1>2, Zenon
<1>5. Add(Array(x), <<e>>) = Array(AddOperand(x, e))
  BY <1>1, <1>3, AddAllOne, Zenon
<1> QED BY <1>4, <1>5, Zenon

PackedStart(v) == IF v.is = "object" THEN v.fields ELSE <<>>

LEMMA PackedMore ==
  ASSUME NEW E, NEW v, NEW s \in Seq(E), NEW e \in E
  PROVE  Packed(v, Append(s, e)) = Packed(Packed(v, s), <<e>>)
<1> DEFINE x == PackedAll(PackedStart(v), s)
<1>1. \A w, t : Packed(w, t) = Object(PackedAll(PackedStart(w), t))
  BY DEF Packed, PackedAll, PackedStart
<1>2. \A c : \A t \in Seq(E), f \in E : PackedAll(c, Append(t, f)) = PackedOperand(PackedAll(c, t), f)
  BY PackedAllStep, SMT
<1>3. \A y : PackedStart(Object(y)) = y
  BY DEF PackedStart, Object
<1>4. Packed(v, Append(s, e)) = Object(PackedOperand(x, e)) /\ Packed(v, s) = Object(x)
  BY <1>1, <1>2, Zenon
<1>5. Packed(Object(x), <<e>>) = Object(PackedOperand(x, e))
  BY <1>1, <1>3, PackedAllOne, Zenon
<1> QED BY <1>4, <1>5, Zenon

LEMMA FullMergeIs ==
  ASSUME NEW v, NEW s
  PROVE  /\ Chosen(s).mode = "setnx" => FullMerge(v, s) = Setnx(v, Chosen(s).ops)
         /\ Chosen(s).mode = "inc" => FullMerge(v, s) = Inc(v, Chosen(s).ops)
         /\ Chosen(s).mode = "add" => FullMerge(v, s) = Add(v, Chosen(s).ops)
         /\ Chosen(s).mode = "packed" => FullMerge(v, s) = Packed(v, Chosen(s).ops)
<1> DEFINE c == Chosen(s)
<1>1. FullMerge(v, s) = CASE c.mode = "setnx"  -> Setnx(v, c.ops)
        [] c.mode = "inc"    -> Inc(v, c.ops)
        [] c.mode = "add"    -> Add(v, c.ops)
        [] c.mode = "packed" -> Packed(v, c.ops)
        [] c.mode = "none"   -> Text
  BY DEF FullMerge, Chosen, SelectAll, None
<1> HIDE DEF c
<1>2. /\ c.mode = "setnx" => FullMerge(v, s) = Setnx(v, c.ops)
      /\ c.mode = "inc" => FullMerge(v, s) = Inc(v, c.ops)
      /\ c.mode = "add" => FullMerge(v, s) = Add(v, c.ops)
      /\ c.mode = "packed" => FullMerge(v, s) = Packed(v, c.ops)
  BY <1>1
<1> QED BY <1>2 DEF c

\* One operand more: it may be merged with the others, or into what they made.
LEMMA MergeMore ==
  ASSUME NEW E, NEW m, OneMethod(E, m), NEW v, NEW s \in Seq(E), s # <<>>, NEW e \in E,
         v # Missing \/ s[1].mode # "setnx" \/ e.mode = "setnx"
  PROVE  /\ FullMerge(v, Append(s, e)) = FullMerge(FullMerge(v, s), <<e>>)
         /\ FullMerge(v, s) # Missing
<1> DEFINE c == Chosen(s)
           w == FullMerge(v, s)
<1>1. /\ c = [mode |-> c.mode, ops |-> c.ops] /\ c.ops \in Seq(E) /\ c.ops # <<>>
      /\ \/ c.mode = m
         \/ c.mode = "setnx" /\ c.ops = <<s[1]>> /\ \A i \in 1..Len(s) : s[i].mode = "setnx"
  BY ChosenFacts
<1>2. Chosen(Append(s, e)) = Select(c, e)
  BY ChosenStep, SMT
<1>3. Chosen(<<e>>) = [mode |-> e.mode, ops |-> <<e>>]
  BY ChosenAlone DEF OneMethod
<1>4. m \in {"inc", "add", "packed"} /\ e.mode \in {m, "setnx"}
  BY DEF OneMethod
<1>5. s[1] \in E /\ 1 \in 1..Len(s) /\ (s[1].mode = "setnx" => s[1].val # Missing)
  BY EmptySeq DEF OneMethod
<1>6. \A x \in {w, v} : /\ e.mode = "setnx" => FullMerge(x, <<e>>) = Setnx(x, <<e>>)
                        /\ e.mode = "inc" => FullMerge(x, <<e>>) = Inc(x, <<e>>)
                        /\ e.mode = "add" => FullMerge(x, <<e>>) = Add(x, <<e>>)
                        /\ e.mode = "packed" => FullMerge(x, <<e>>) = Packed(x, <<e>>)
  <2>1. Chosen(<<e>>).mode = e.mode /\ Chosen(<<e>>).ops = <<e>>
    BY <1>3
  <2> QED BY <2>1, FullMergeIs, Zenon
<1> HIDE DEF c
<1>9. \A t : Chosen(t) = c =>
        /\ c.mode = "setnx" => FullMerge(v, t) = Setnx(v, c.ops)
        /\ c.mode = "inc" => FullMerge(v, t) = Inc(v, c.ops)
        /\ c.mode = "add" => FullMerge(v, t) = Add(v, c.ops)
        /\ c.mode = "packed" => FullMerge(v, t) = Packed(v, c.ops)
  BY FullMergeIs, Zenon
<1>10. Chosen(s) = c
  BY DEF c
<1> HIDE DEF w
<1>11. w = FullMerge(v, s)
  BY DEF w
<1>7. CASE c.mode = "setnx"
  <2>1. w = Setnx(v, <<s[1]>>) /\ s[1].mode = "setnx" /\ s[1].val # Missing
    <3>1. w = Setnx(v, c.ops)
      BY <1>7, <1>9, <1>10, <1>11, Zenon
    <3> QED BY <1>1, <1>4, <1>5, <1>7, <3>1
  <2>2. w = (IF v # Missing THEN v ELSE s[1].val)
    BY <2>1 DEF Setnx
  <2>3. w # Missing
    BY <2>1, <2>2
  <2>4. CASE e.mode = "setnx"
    <3>1. Chosen(Append(s, e)) = c
      BY <1>2, <1>7, <2>4 DEF Select
    <3>2. FullMerge(v, Append(s, e)) = w
      BY <1>7, <1>9, <1>10, <1>11, <3>1, Zenon
    <3>3. FullMerge(w, <<e>>) = w
      BY <1>6, <2>3, <2>4 DEF Setnx
    <3> QED BY <1>11, <2>3, <3>2, <3>3
  <2>5. CASE e.mode # "setnx"
    <3>1. v # Missing /\ w = v
      BY <2>1, <2>2, <2>5
    <3>2. Chosen(Append(s, e)) = [mode |-> e.mode, ops |-> <<e>>]
      BY <1>2, <1>4, <1>7, <2>5 DEF Select
    <3>3. FullMerge(v, Append(s, e)) = FullMerge(v, <<e>>)
      <4>1. Chosen(Append(s, e)).mode = e.mode /\ Chosen(Append(s, e)).ops = <<e>>
        BY <3>2
      <4> QED BY <1>4, <1>6, <2>5, <4>1, FullMergeIs
    <3> QED BY <1>11, <2>3, <3>1, <3>3
  <2> QED BY <2>4, <2>5
<1>8. CASE c.mode = m
  <2>1. /\ m = "inc" => w = Inc(v, c.ops)
        /\ m = "add" => w = Add(v, c.ops)
        /\ m = "packed" => w = Packed(v, c.ops)
    BY <1>8, <1>9, <1>10, <1>11, Zenon
  <2>2. w # Missing
    <3>1. \A x, t : Inc(x, t) # Missing /\ Add(x, t) # Missing /\ Packed(x, t) # Missing
      <4>1. \A y : Number(y) # Missing /\ Array(y) # Missing /\ Object(y) # Missing
        <5>1. \A y : /\ Number(y).is = "number" /\ Array(y).is = "array" /\ Object(y).is = "object"
                     /\ Missing.is = "missing"
          BY DEF Number, Array, Object, Missing
        <5> QED BY <5>1
      <4> QED BY <4>1, Zenon DEF Inc, Add, Packed
    <3> QED BY <1>4, <2>1, <3>1
  <2>3. CASE e.mode = "setnx"
    <3>1. Chosen(Append(s, e)) = c
      BY <1>2, <1>4, <1>8, <2>3 DEF Select
    <3>2. FullMerge(v, Append(s, e)) = w
      <4>1. m = "inc" \/ m = "add" \/ m = "packed"
        BY <1>4
      <4>2. /\ m = "inc" => FullMerge(v, Append(s, e)) = Inc(v, c.ops)
            /\ m = "add" => FullMerge(v, Append(s, e)) = Add(v, c.ops)
            /\ m = "packed" => FullMerge(v, Append(s, e)) = Packed(v, c.ops)
        BY <1>8, <1>9, <3>1, Zenon
      <4> QED BY <2>1, <4>1, <4>2, Zenon
    <3>3. FullMerge(w, <<e>>) = w
      BY <1>6, <2>2, <2>3 DEF Setnx
    <3> QED BY <1>11, <2>2, <3>2, <3>3
  <2>4. CASE e.mode = m
    <3>1. Chosen(Append(s, e)) = [mode |-> m, ops |-> Append(c.ops, e)]
      BY <1>1, <1>2, <1>4, <1>8, <2>4 DEF Select
    <3>2. Chosen(Append(s, e)).mode = m /\ Chosen(Append(s, e)).ops = Append(c.ops, e)
      BY <3>1
    <3>3. CASE m = "inc"
      <4>1. FullMerge(v, Append(s, e)) = Inc(v, Append(c.ops, e)) /\ FullMerge(w, <<e>>) = Inc(w, <<e>>)
        BY <1>6, <2>4, <3>2, <3>3, FullMergeIs
      <4>2. Inc(v, Append(c.ops, e)) = Inc(Inc(v, c.ops), <<e>>)
        BY <1>1, IncMore
      <4> QED BY <1>11, <2>1, <2>2, <3>3, <4>1, <4>2
    <3>4. CASE m = "add"
      <4>1. FullMerge(v, Append(s, e)) = Add(v, Append(c.ops, e)) /\ FullMerge(w, <<e>>) = Add(w, <<e>>)
        BY <1>6, <2>4, <3>2, <3>4, FullMergeIs
      <4>2. Add(v, Append(c.ops, e)) = Add(Add(v, c.ops), <<e>>)
        BY <1>1, AddMore
      <4> QED BY <1>11, <2>1, <2>2, <3>4, <4>1, <4>2
    <3>5. CASE m = "packed"
      <4>1. /\ FullMerge(v, Append(s, e)) = Packed(v, Append(c.ops, e))
            /\ FullMerge(w, <<e>>) = Packed(w, <<e>>)
        BY <1>6, <2>4, <3>2, <3>5, FullMergeIs
      <4>2. Packed(v, Append(c.ops, e)) = Packed(Packed(v, c.ops), <<e>>)
        BY <1>1, PackedMore
      <4> QED BY <1>11, <2>1, <2>2, <3>5, <4>1, <4>2
    <3> QED BY <1>4, <3>3, <3>4, <3>5
  <2> QED BY <1>4, <2>3, <2>4
<1> QED BY <1>1, <1>7, <1>8, <1>11

\* FullMergeV2 is associative for operands of one method, as RocksDB takes it to be: a list
\* merged in two parts is what it is merged at once, for operands that requests write.
THEOREM MergeConcat ==
  ASSUME NEW E, NEW m, OneMethod(E, m), NEW v, NEW a \in Seq(E), a # <<>>,
         v # Missing \/ a[1].mode # "setnx" \/ \A e \in E : e.mode = "setnx",
         NEW b \in Seq(E), b # <<>>
  PROVE  FullMerge(v, a \o b) = FullMerge(FullMerge(v, a), b)
<1> DEFINE w == FullMerge(v, a)
           P == {t \in Seq(E) : t # <<>> => FullMerge(v, a \o t) = FullMerge(w, t)}
<1>1. <<>> \in P
  BY EmptySeq
<1>2. ASSUME NEW t \in Seq(E), t \in P, NEW e \in E PROVE Append(t, e) \in P
  <2>1. Append(t, e) \in Seq(E) /\ a \o t \in Seq(E) /\ a \o t # <<>> /\ (a \o t)[1] = a[1]
    <3>1. a \o t \in Seq(E) /\ Len(a \o t) = Len(a) + Len(t) /\ Len(a) \in Nat \ {0} /\ Len(t) \in Nat
      BY ConcatProperties, EmptySeq, LenProperties
    <3>2. (a \o t)[1] = a[1]
      BY <3>1, ConcatProperties
    <3>3. Append(t, e) \in Seq(E)
      BY AppendProperties
    <3> QED BY <3>1, <3>2, <3>3, EmptySeq
  <2>2. a \o Append(t, e) = Append(a \o t, e)
    <3>1. <<e>> \in Seq(E)
      BY Alone
    <3>2. (a \o t) \o <<e>> = a \o (t \o <<e>>)
      BY <3>1, ConcatAssociative
    <3>3. Append(a \o t, e) = (a \o t) \o <<e>> /\ Append(t, e) = t \o <<e>>
      BY <2>1, AppendIsConcat
    <3> QED BY <3>2, <3>3
  <2>3. \A x : \A r \in Seq(E) :
          r # <<>> /\ (x # Missing \/ r[1].mode # "setnx" \/ e.mode = "setnx") =>
            FullMerge(x, Append(r, e)) = FullMerge(FullMerge(x, r), <<e>>) /\ FullMerge(x, r) # Missing
    BY MergeMore
  <2>4. v # Missing \/ a[1].mode # "setnx" \/ e.mode = "setnx"
    OBVIOUS
  <2>5. w # Missing
    BY <2>3, <2>4
  <2>6. FullMerge(v, Append(a \o t, e)) = FullMerge(FullMerge(v, a \o t), <<e>>)
    BY <2>1, <2>3, <2>4, Zenon
  <2>7. FullMerge(v, a \o Append(t, e)) = FullMerge(w, Append(t, e))
    <3>1. CASE t = <<>>
      <4>1. a \o t = a /\ Append(t, e) = <<e>>
        BY <3>1, ConcatEmptySeq
      <4> QED BY <2>2, <2>6, <4>1, Zenon
    <3>2. CASE t # <<>>
      <4>1. FullMerge(v, a \o t) = FullMerge(w, t)
        BY <1>2, <3>2
      <4>2. FullMerge(w, Append(t, e)) = FullMerge(FullMerge(w, t), <<e>>)
        <5> HIDE DEF w
        <5> QED BY <2>3, <2>5, <3>2, Zenon
      <4> QED BY <2>2, <2>6, <4>1, <4>2, Zenon
    <3> QED BY <3>1, <3>2
  <2> QED BY <2>1, <2>7
<1>3. Seq(E) \subseteq P
  <2> HIDE DEF P
  <2> QED BY <1>1, <1>2, Selects!ListInduction
<1> QED BY <1>3

-----------------------------------------------------------------------------
(* Parts of lists. *)

LEMMA PartIs ==
  ASSUME NEW S, NEW s \in Seq(S), NEW i \in Int, NEW j \in Int, 1 <= i, j <= Len(s)
  PROVE  /\ SubSeq(s, i, j) \in Seq(S)
         /\ Len(SubSeq(s, i, j)) = IF i <= j THEN j - i + 1 ELSE 0
         /\ \A l \in 1..(j - i + 1) : SubSeq(s, i, j)[l] = s[i + l - 1]
<1>1. \A l \in i..j : s[l] \in S
  BY ElementOfSeq, LenProperties
<1> QED BY <1>1, SubSeqProperties

LEMMA SameElements ==
  ASSUME NEW S, NEW s \in Seq(S), NEW t \in Seq(S), NEW n \in Nat,
         Len(s) = n, Len(t) = n, \A i \in 1..n : s[i] = t[i]
  PROVE  s = t
BY SeqEqual

\* One element more is the last of what comes after the first n.
LEMMA AppendParts ==
  ASSUME NEW S, NEW s \in Seq(S), NEW e \in S, NEW n \in 0..Len(s)
  PROVE  /\ SubSeq(Append(s, e), n + 1, Len(Append(s, e))) = Append(SubSeq(s, n + 1, Len(s)), e)
         /\ SubSeq(Append(s, e), 1, n) = SubSeq(s, 1, n)
<1> DEFINE t == Append(s, e)
           L == Len(s)
           u == SubSeq(s, n + 1, L)
           x == SubSeq(t, n + 1, L + 1)
           y == Append(u, e)
           p == SubSeq(t, 1, n)
           q == SubSeq(s, 1, n)
<1>0. L \in Nat /\ n \in 0..L /\ L = Len(s)
  BY LenProperties
<1>1. t \in Seq(S) /\ Len(t) = L + 1 /\ t[L + 1] = e /\ \A i \in 1..L : t[i] = s[i]
  BY AppendProperties
<1> HIDE DEF t, L
<1>2. u \in Seq(S) /\ Len(u) = L - n /\ \A i \in 1..(L - n) : u[i] = s[n + i]
  BY <1>0, PartIs
<1>3. q \in Seq(S) /\ Len(q) = n /\ \A i \in 1..n : q[i] = s[i]
  BY <1>0, PartIs
<1>4. x \in Seq(S) /\ Len(x) = L + 1 - n /\ \A i \in 1..(L + 1 - n) : x[i] = t[n + i]
  BY <1>0, <1>1, PartIs
<1>5. p \in Seq(S) /\ Len(p) = n /\ \A i \in 1..n : p[i] = t[i]
  BY <1>0, <1>1, PartIs
<1> HIDE DEF u, x, p, q
<1>6. y \in Seq(S) /\ Len(y) = L - n + 1 /\ y[L - n + 1] = e /\ \A i \in 1..(L - n) : y[i] = u[i]
  BY <1>2, AppendProperties
<1> HIDE DEF y
<1>7. \A i \in 1..(L + 1 - n) : x[i] = y[i]
  <2> TAKE i \in 1..(L + 1 - n)
  <2>1. CASE i = L - n + 1
    <3>1. x[i] = t[L + 1]
      BY <1>0, <1>4, <2>1
    <3> QED BY <1>1, <1>6, <2>1, <3>1
  <2>2. CASE i # L - n + 1
    <3>1. i \in 1..(L - n) /\ n + i \in 1..L
      BY <1>0, <2>2
    <3> QED BY <1>1, <1>2, <1>4, <1>6, <3>1
  <2> QED BY <2>1, <2>2
<1>8. L + 1 - n \in Nat /\ Len(y) = L + 1 - n
  BY <1>0, <1>6
<1>9. x = y
  BY <1>4, <1>6, <1>7, <1>8, SameElements
<1>10. \A i \in 1..n : p[i] = q[i]
  BY <1>0, <1>1, <1>3, <1>5
<1>11. p = q
  BY <1>0, <1>3, <1>5, <1>10, SameElements
<1> QED BY <1>1, <1>9, <1>11 DEF x, y, p, q, u, t, L

\* What comes after the first n, cut once more.
LEMMA PartsOfParts ==
  ASSUME NEW S, NEW s \in Seq(S), NEW n \in 0..Len(s), NEW m \in 1..(Len(s) - n)
  PROVE  LET t == SubSeq(s, n + 1, Len(s))
         IN  /\ SubSeq(t, 1, m) = SubSeq(s, n + 1, n + m)
             /\ SubSeq(t, m + 1, Len(t)) = SubSeq(s, n + m + 1, Len(s))
             /\ SubSeq(s, 1, n) \o SubSeq(s, n + 1, n + m) = SubSeq(s, 1, n + m)
<1> DEFINE L == Len(s)
           t == SubSeq(s, n + 1, L)
           x == SubSeq(t, 1, m)
           y == SubSeq(s, n + 1, n + m)
           p == SubSeq(t, m + 1, L - n)
           q == SubSeq(s, n + m + 1, L)
<1>0. L \in Nat /\ n \in 0..L /\ m \in 1..(L - n) /\ L = Len(s)
  BY LenProperties
<1> HIDE DEF L
<1>1. t \in Seq(S) /\ Len(t) = L - n /\ \A l \in 1..(L - n) : t[l] = s[n + l]
  BY <1>0, PartIs
<1>2. y \in Seq(S) /\ Len(y) = m /\ \A l \in 1..m : y[l] = s[n + l]
  BY <1>0, PartIs
<1>3. q \in Seq(S) /\ Len(q) = L - n - m /\ \A l \in 1..(L - n - m) : q[l] = s[n + m + l]
  BY <1>0, PartIs
<1> HIDE DEF t, y, q
<1>4. x \in Seq(S) /\ Len(x) = m /\ \A l \in 1..m : x[l] = t[l]
  BY <1>0, <1>1, PartIs
<1>5. p \in Seq(S) /\ Len(p) = L - n - m /\ \A l \in 1..(L - n - m) : p[l] = t[m + l]
  BY <1>0, <1>1, PartIs
<1> HIDE DEF x, p
<1>6. \A l \in 1..m : x[l] = y[l]
  <2> TAKE l \in 1..m
  <2>1. l \in 1..(L - n)
    BY <1>0
  <2> QED BY <1>1, <1>2, <1>4, <2>1
<1>7. x = y
  BY <1>0, <1>2, <1>4, <1>6, SameElements
<1>8. \A l \in 1..(L - n - m) : p[l] = q[l]
  BY <1>0, <1>1, <1>3, <1>5
<1>9. p = q
  <2>1. L - n - m \in Nat
    BY <1>0
  <2> QED BY <1>3, <1>5, <1>8, <2>1, SameElements
<1>10. SubSeq(s, 1, n) \o SubSeq(s, n + 1, n + m) = SubSeq(s, 1, n + m)
  <2>1. 1 \in 1..(Len(s) + 1) /\ n \in (1 - 1)..Len(s) /\ n + m \in n..Len(s)
    BY <1>0
  <2> QED BY <2>1, ConcatAdjacentSubSeq
<1> QED BY <1>1, <1>7, <1>9, <1>10 DEF x, y, p, q, t, L

-----------------------------------------------------------------------------
(* What requests leave in the log. *)

LEMMA RequestFacts ==
  ASSUME NEW rep \in Repairing, NEW o \in Operations(rep)
  PROVE  \E r : IsRequest(r) /\ o = Logged(rep, r) /\ rep \in BOOLEAN
<1>1. PICK b \in Batches : \E i \in 1..Len(b) : o = Logged(rep, b[i])
  BY DEF Operations
<1>2. PICK i \in 1..Len(b) : o = Logged(rep, b[i])
  BY <1>1
<1>3. IsRequest(b[i])
  BY BatchesAssumption
<1>4. rep \in BOOLEAN
  BY ReplicaAssumption
<1> QED BY <1>2, <1>3, <1>4

LEMMA OperationFacts ==
  ASSUME NEW rep \in Repairing, NEW o \in Operations(rep)
  PROVE  /\ o.key \in Keys /\ o.type \in {"put", "del", "merge"}
         /\ o.type = "put" =>
              /\ o = [type |-> "put", key |-> o.key, text |-> o.text]
              /\ o.text = [val |-> o.text.val, junk |-> o.text.junk] /\ o.text.junk \in BOOLEAN
              /\ rep => Readable(o) /\ ~o.text.junk
         /\ o.type = "merge" =>
              /\ o.op \in Operands /\ (o.op.mode = "setnx" => o.op.val # Missing)
              /\ o.op.mode \in {"setnx", "inc", "add", "packed", "junk"}
              /\ rep => Readable(o)
         /\ o.type = "del" => Readable(o)
<1>1. PICK r : IsRequest(r) /\ o = Logged(rep, r) /\ rep \in BOOLEAN
  BY RequestFacts
<1>2. CASE r.type = "put"
  <2>1. o = [type |-> "put", key |-> r.key, text |-> Recorded(rep, r.text)]
    BY <1>1, <1>2 DEF Logged
  <2>2. r.key \in Keys /\ r.text = [val |-> r.text.val, junk |-> r.text.junk] /\ r.text.junk \in BOOLEAN
    BY <1>1, <1>2 DEF IsRequest, IsText
  <2> DEFINE t == Recorded(rep, r.text)
  <2>3. t = [val |-> t.val, junk |-> t.junk] /\ t.junk \in BOOLEAN /\ (rep => ~t.junk)
    BY <1>1, <2>2 DEF Recorded, Repaired, Clean
  <2>4. rep => t.val # NotJson
    BY <1>1 DEF Recorded, Repaired, Clean, NotJson, Text
  <2> HIDE DEF t
  <2>5. o.type = "put" /\ o.key = r.key /\ o.text = t /\ o = [type |-> "put", key |-> r.key, text |-> t]
    BY <2>1 DEF t
  <2> QED BY <2>2, <2>3, <2>4, <2>5 DEF Readable
<1>3. CASE r.type = "del"
  <2>1. o = r
    BY <1>1, <1>3 DEF Logged
  <2> QED BY <1>1, <1>3, <2>1 DEF IsRequest, Readable
<1>4. CASE r.type = "merge"
  <2> DEFINE p == IF r.junk /\ ~rep THEN [mode |-> "junk"] ELSE r.op
  <2>1. o = [type |-> "merge", key |-> r.key, op |-> p]
    BY <1>1, <1>4 DEF Logged
  <2>2. r.key \in Keys /\ IsOperand(r.op)
    BY <1>1, <1>4 DEF IsRequest
  <2>3. /\ p.mode \in {"setnx", "inc", "add", "packed", "junk"} /\ (p.mode = "setnx" => p.val # Missing)
        /\ rep => p.mode # "junk"
    BY <2>2 DEF IsOperand
  <2> HIDE DEF p
  <2>4. o.type = "merge" /\ o.key = r.key /\ o.op = p
    BY <2>1
  <2>5. o.op \in Operands
    BY <2>4 DEF Operands
  <2> QED BY <2>2, <2>3, <2>4, <2>5 DEF Readable
<1> QED BY <1>1, <1>2, <1>3, <1>4 DEF IsRequest

LEMMA OperandFacts ==
  ASSUME NEW op \in Operands
  PROVE  op.mode \in {"setnx", "inc", "add", "packed", "junk"} /\ (op.mode = "setnx" => op.val # Missing)
<1>1. PICK rep \in Repairing : op \in {o.op : o \in {q \in Operations(rep) : q.type = "merge"}}
  BY DEF Operands
<1>2. PICK o \in Operations(rep) : o.type = "merge" /\ op = o.op
  BY <1>1
<1> QED BY <1>2, OperationFacts

LEMMA SingleMethod ==
  ASSUME NEW ops \in Seq(Operands), ops # <<>>,
         \A i \in DOMAIN ops : ops[i].mode # "junk", ~Mixes(ops)
  PROVE  \E E, m : /\ ops \in Seq(E) /\ OneMethod(E, m)
                   /\ ops[1].mode # "setnx" \/ \A e \in E : e.mode = "setnx"
<1> DEFINE E == {ops[i] : i \in DOMAIN ops}
           m == IF ops[1].mode = "setnx" THEN "inc" ELSE ops[1].mode
<1>1. /\ DOMAIN ops = 1..Len(ops) /\ 1 \in DOMAIN ops
      /\ \A i \in DOMAIN ops : ops[i] \in Operands
  BY EmptySeq, LenProperties, ElementOfSeq
<1>2. ops \in Seq(E)
  <2>1. Len(ops) \in Nat /\ ops = [i \in 1..Len(ops) |-> ops[i]]
    BY LenProperties
  <2> QED BY <1>1, <2>1
<1>3. \A i \in DOMAIN ops : ops[i].mode = ops[1].mode \/ (ops[i].mode = "setnx" /\ ops[1].mode # "setnx")
  <2> SUFFICES ASSUME NEW i \in DOMAIN ops, ops[i].mode # ops[1].mode
               PROVE  ops[i].mode = "setnx" /\ ops[1].mode # "setnx"
    OBVIOUS
  <2>1. ops[i].mode = "setnx"
    <3>1. ~ \A l \in {i, 1} : l = 1 \/ ops[l].mode # "setnx"
      BY <1>1 DEF Mixes
    <3> QED BY <3>1
  <2> QED BY <2>1
<1>4. \A i \in DOMAIN ops : /\ ops[i].mode \in {"setnx", "inc", "add", "packed"}
                            /\ ops[i].mode = "setnx" => ops[i].val # Missing
  BY <1>1, OperandFacts
<1>5. OneMethod(E, m)
  <2>1. m \in {"inc", "add", "packed"}
    BY <1>1, <1>4
  <2>2. \A i \in DOMAIN ops : ops[i].mode \in {m, "setnx"}
    BY <1>3
  <2> HIDE DEF m
  <2> QED BY <1>4, <2>1, <2>2 DEF OneMethod
<1>6. ops[1].mode # "setnx" \/ \A e \in E : e.mode = "setnx"
  BY <1>3
<1> QED BY <1>2, <1>5, <1>6
-----------------------------------------------------------------------------
(* Keys with their oldest operands folded. *)

\* What a key reads that stands for g.
Whole(g) == IF g.stack = <<>> THEN g.text ELSE Clean(FullMerge(Value(g), g.stack))

LEMMA FoldedTogether ==
  ASSUME NEW ops \in Seq(Operands),
         \A i \in DOMAIN ops : ops[i].mode # "junk", ~Mixes(ops),
         NEW v, NEW n \in 1..Len(ops), NEW m \in 1..(Len(ops) - n)
  PROVE  FullMerge(FullMerge(v, SubSeq(ops, 1, n)), SubSeq(ops, n + 1, n + m))
           = FullMerge(v, SubSeq(ops, 1, n + m))
<1> DEFINE a == SubSeq(ops, 1, n)
           b == SubSeq(ops, n + 1, n + m)
<1>1. ops # <<>> /\ Len(ops) \in Nat
  BY LenProperties
<1>2. PICK E, k : /\ ops \in Seq(E) /\ OneMethod(E, k)
                  /\ ops[1].mode # "setnx" \/ \A e \in E : e.mode = "setnx"
  BY <1>1, SingleMethod
<1>3. a \in Seq(E) /\ Len(a) = n /\ a[1] = ops[1]
  BY <1>1, <1>2, PartIs
<1>4. b \in Seq(E) /\ Len(b) = m
  BY <1>1, <1>2, PartIs
<1>5. a \o b = SubSeq(ops, 1, n + m)
  <2>1. n \in 0..Len(ops)
    BY <1>1
  <2> QED BY <1>2, <2>1, PartsOfParts
<1> HIDE DEF a, b
<1>6. a # <<>> /\ b # <<>>
  BY <1>3, <1>4, EmptySeq
<1>7. FullMerge(v, a \o b) = FullMerge(FullMerge(v, a), b)
  BY <1>2, <1>3, <1>4, <1>6, MergeConcat
<1> QED BY <1>5, <1>7 DEF a, b

LEMMA StandsForReads ==
  ASSUME NEW d, NEW g, StandsFor(d, g), ~Mixes(g.stack)
  PROVE  Current(d) = Whole(g)
<1> DEFINE ops == g.stack
           L == Len(ops)
<1>1. ops \in Seq(Operands) /\ (\A i \in DOMAIN ops : ops[i].mode # "junk") /\ L \in Nat /\ L = Len(ops)
  BY LenProperties DEF StandsFor
<1>2. PICK n \in 0..L : /\ d.stack = SubSeq(ops, n + 1, L)
                        /\ n = 0 => d.text = g.text
                        /\ n > 0 => d.text = Clean(FullMerge(Value(g), SubSeq(ops, 1, n)))
  BY DEF StandsFor
<1> HIDE DEF L
<1>3. d.stack \in Seq(Operands) /\ Len(d.stack) = L - n
  BY <1>1, <1>2, PartIs
<1>4. SubSeq(ops, 1, L) = ops
  BY <1>1, SubSeqFull
<1>5. CASE n = 0
  <2>1. d.stack = ops /\ d.text = g.text
    BY <1>2, <1>4, <1>5
  <2>2. ops # <<>> => Folded(d, Len(d.stack)).text = Clean(FullMerge(Value(g), ops))
    BY <1>1, <1>4, <2>1 DEF Folded, Value
  <2> QED BY <2>1, <2>2 DEF Current, Whole
<1>6. CASE n = L /\ n > 0
  <2>1. d.stack = <<>>
    BY <1>1, <1>3, <1>6, EmptySeq
  <2>2. ops # <<>>
    BY <1>1, <1>6, EmptySeq
  <2>3. d.text = Clean(FullMerge(Value(g), ops))
    BY <1>2, <1>4, <1>6
  <2> QED BY <2>1, <2>2, <2>3 DEF Current, Whole
<1>7. CASE n \in 1..(L - 1)
  <2>1. d.stack # <<>> /\ ops # <<>>
    BY <1>1, <1>3, <1>7, EmptySeq
  <2>2. Value(d) = FullMerge(Value(g), SubSeq(ops, 1, n))
    BY <1>2, <1>7 DEF Value, Clean
  <2>3. SubSeq(d.stack, 1, Len(d.stack)) = SubSeq(ops, n + 1, L)
    BY <1>2, <1>3, SubSeqFull
  <2>4. FullMerge(FullMerge(Value(g), SubSeq(ops, 1, n)), SubSeq(ops, n + 1, L)) = FullMerge(Value(g), ops)
    <3>1. n \in 1..Len(ops) /\ L - n \in 1..(Len(ops) - n) /\ n + (L - n) = L
      BY <1>1, <1>7
    <3>2. FullMerge(FullMerge(Value(g), SubSeq(ops, 1, n)), SubSeq(ops, n + 1, n + (L - n)))
            = FullMerge(Value(g), SubSeq(ops, 1, n + (L - n)))
      BY <1>1, <3>1, FoldedTogether
    <3> QED BY <1>4, <3>1, <3>2
  <2>5. Folded(d, Len(d.stack)).text = Clean(FullMerge(Value(g), ops))
    BY <2>2, <2>3, <2>4 DEF Folded
  <2> QED BY <2>1, <2>5 DEF Current, Whole
<1> QED BY <1>1, <1>2, <1>5, <1>6, <1>7

LEMMA FoldedStands ==
  ASSUME NEW d, NEW g, StandsFor(d, g), NEW m \in 1..Len(d.stack)
  PROVE  StandsFor(Folded(d, m), g)
<1> DEFINE ops == g.stack
           L == Len(ops)
           f == Folded(d, m)
<1>1. ops \in Seq(Operands) /\ (\A i \in DOMAIN ops : ops[i].mode # "junk") /\ L \in Nat /\ L = Len(ops)
  BY LenProperties DEF StandsFor
<1>2. PICK n \in 0..L : /\ d.stack = SubSeq(ops, n + 1, L)
                        /\ n = 0 => d.text = g.text
                        /\ n > 0 /\ ~Mixes(ops) => d.text = Clean(FullMerge(Value(g), SubSeq(ops, 1, n)))
  BY DEF StandsFor
<1> HIDE DEF L
<1>3. d.stack \in Seq(Operands) /\ Len(d.stack) = L - n
  BY <1>1, <1>2, PartIs
<1>4. n + m \in 0..L /\ n + m > 0 /\ m \in 1..(L - n)
  BY <1>1, <1>3
<1>5. /\ SubSeq(d.stack, 1, m) = SubSeq(ops, n + 1, n + m)
      /\ SubSeq(d.stack, m + 1, Len(d.stack)) = SubSeq(ops, n + m + 1, L)
  <2>1. n \in 0..Len(ops) /\ m \in 1..(Len(ops) - n)
    BY <1>1, <1>4
  <2> QED BY <1>1, <1>2, <2>1, PartsOfParts
<1>6. f.stack = SubSeq(ops, n + m + 1, L) /\ f = [text |-> f.text, stack |-> f.stack]
  BY <1>5 DEF Folded
<1>7. f.text = Clean(FullMerge(Value(d), SubSeq(ops, n + 1, n + m)))
  BY <1>5 DEF Folded
<1>8. ASSUME ~Mixes(ops) PROVE f.text = Clean(FullMerge(Value(g), SubSeq(ops, 1, n + m)))
  <2>1. CASE n = 0
    BY <1>2, <1>7, <2>1 DEF Value
  <2>2. CASE n # 0
    <3>1. Value(d) = FullMerge(Value(g), SubSeq(ops, 1, n))
      BY <1>1, <1>2, <1>8, <2>2 DEF Value, Clean
    <3>2. n \in 1..Len(ops) /\ m \in 1..(Len(ops) - n)
      BY <1>1, <1>4, <2>2
    <3> QED BY <1>1, <1>7, <1>8, <3>1, <3>2, FoldedTogether
  <2> QED BY <2>1, <2>2
<1> HIDE DEF f
<1>9. g = [text |-> g.text, stack |-> g.stack]
  BY DEF StandsFor
<1>10. \E l \in 0..L : /\ f.stack = SubSeq(ops, l + 1, L)
                       /\ l = 0 => f.text = g.text
                       /\ l > 0 /\ ~Mixes(ops) => f.text = Clean(FullMerge(Value(g), SubSeq(ops, 1, l)))
  <2> DEFINE l == n + m
  <2>1. /\ l \in 0..L /\ f.stack = SubSeq(ops, l + 1, L) /\ l # 0
        /\ l > 0 /\ ~Mixes(ops) => f.text = Clean(FullMerge(Value(g), SubSeq(ops, 1, l)))
    BY <1>4, <1>6, <1>8
  <2> HIDE DEF l
  <2> QED BY <2>1
<1>11. StandsFor(f, g)
  BY <1>1, <1>6, <1>9, <1>10 DEF StandsFor
<1> QED BY <1>11 DEF f

\* What an operation makes of a key.
OnKey(d, o) ==
  CASE o.type = "put"   -> [text |-> o.text, stack |-> <<>>]
    [] o.type = "del"   -> NoData
    [] o.type = "merge" -> [d EXCEPT !.stack = Append(@, o.op)]

LEMMA BareStands ==
  ASSUME NEW t PROVE StandsFor([text |-> t, stack |-> <<>>], [text |-> t, stack |-> <<>>])
<1> DEFINE d == [text |-> t, stack |-> <<>>]
<1>1. d.stack = <<>> /\ d = [text |-> d.text, stack |-> d.stack]
  OBVIOUS
<1>2. <<>> \in Seq(Operands) /\ Len(<<>>) = 0 /\ DOMAIN <<>> = {}
  BY EmptySeq
<1>3. SubSeq(<<>>, 0 + 1, 0) = <<>>
  BY SubSeqEmpty
<1> HIDE DEF d
<1>4. StandsFor(d, d)
  BY <1>1, <1>2, <1>3 DEF StandsFor
<1> QED BY <1>4 DEF d

LEMMA OnKeyStands ==
  ASSUME NEW rep \in Repairing, NEW d, NEW g, StandsFor(d, g), NEW o \in Operations(rep),
         o.type = "merge" => Readable(o)
  PROVE  StandsFor(OnKey(d, o), OnKey(g, o))
<1>1. CASE o.type = "put"
  BY <1>1, BareStands DEF OnKey
<1>2. CASE o.type = "del"
  BY <1>2, BareStands DEF OnKey, NoData
<1>3. CASE o.type = "merge"
  <2> DEFINE ops == g.stack
             L == Len(ops)
             op == o.op
             more == Append(ops, op)
  <2>1. /\ d = [text |-> d.text, stack |-> d.stack] /\ g = [text |-> g.text, stack |-> g.stack]
        /\ ops \in Seq(Operands) /\ (\A i \in DOMAIN ops : ops[i].mode # "junk")
        /\ L \in Nat /\ L = Len(ops) /\ DOMAIN ops = 1..L
    BY LenProperties DEF StandsFor
  <2>2. PICK n \in 0..L : /\ d.stack = SubSeq(ops, n + 1, L)
                          /\ n = 0 => d.text = g.text
                          /\ n > 0 /\ ~Mixes(ops) => d.text = Clean(FullMerge(Value(g), SubSeq(ops, 1, n)))
    BY DEF StandsFor
  <2>3. op \in Operands /\ op.mode # "junk"
    BY <1>3, OperationFacts DEF Readable
  <2> HIDE DEF L
  <2>4. OnKey(d, o) = [text |-> d.text, stack |-> Append(d.stack, op)]
    BY <1>3, <2>1 DEF OnKey
  <2>5. OnKey(g, o) = [text |-> g.text, stack |-> more]
    BY <1>3, <2>1 DEF OnKey
  <2>6. /\ more \in Seq(Operands) /\ Len(more) = L + 1 /\ DOMAIN more = 1..(L + 1)
        /\ (\A i \in 1..L : more[i] = ops[i]) /\ more[L + 1] = op
    BY <2>1, <2>3, AppendProperties, LenProperties
  <2>7. /\ SubSeq(more, n + 1, L + 1) = Append(d.stack, op)
        /\ SubSeq(more, 1, n) = SubSeq(ops, 1, n)
    <3>1. n \in 0..Len(ops)
      BY <2>1
    <3>2. SubSeq(more, n + 1, Len(more)) = Append(SubSeq(ops, n + 1, Len(ops)), op)
          /\ SubSeq(more, 1, n) = SubSeq(ops, 1, n)
      BY <2>1, <2>3, <3>1, AppendParts
    <3> HIDE DEF more
    <3> QED BY <2>1, <2>2, <2>6, <3>2
  <2> HIDE DEF more, op
  <2>8. Mixes(ops) => Mixes(more)
    <3> SUFFICES ASSUME Mixes(ops) PROVE Mixes(more)
      OBVIOUS
    <3>1. PICK i \in DOMAIN ops, j \in DOMAIN ops :
            /\ ops[i].mode # ops[j].mode
            /\ \A l \in {i, j} : l = 1 \/ ops[l].mode # "setnx"
      BY DEF Mixes
    <3>2. i \in DOMAIN more /\ j \in DOMAIN more /\ more[i] = ops[i] /\ more[j] = ops[j]
      BY <2>1, <2>6
    <3> QED BY <3>1, <3>2 DEF Mixes
  <2>9. \A i \in DOMAIN more : more[i].mode # "junk"
    BY <2>1, <2>3, <2>6
  <2> DEFINE e == OnKey(d, o)
             h == OnKey(g, o)
  <2>10. /\ e.stack = Append(d.stack, op) /\ e.text = d.text /\ e = [text |-> e.text, stack |-> e.stack]
         /\ h.stack = more /\ h.text = g.text /\ h = [text |-> h.text, stack |-> h.stack]
    BY <2>4, <2>5
  <2> HIDE DEF e, h
  <2>11. Value(h) = Value(g)
    BY <2>10 DEF Value
  <2>12. n \in 0..Len(more) /\ e.stack = SubSeq(more, n + 1, Len(more)) /\ (n = 0 => e.text = h.text)
    <3>1. n \in 0..Len(more) /\ (n = 0 => e.text = h.text)
      BY <2>1, <2>2, <2>6, <2>10
    <3>2. SubSeq(more, n + 1, Len(more)) = SubSeq(more, n + 1, L + 1)
      BY <2>6
    <3> QED BY <2>7, <2>10, <3>1, <3>2
  <2>13. n > 0 /\ ~Mixes(more) => e.text = Clean(FullMerge(Value(h), SubSeq(more, 1, n)))
    BY <2>2, <2>7, <2>8, <2>10, <2>11
  <2>14. StandsFor(e, h)
    BY <2>6, <2>9, <2>10, <2>12, <2>13 DEF StandsFor
  <2> QED BY <2>14 DEF e, h
<1> QED BY <1>1, <1>2, <1>3, OperationFacts

-----------------------------------------------------------------------------
(* Lists of operations and of batches. *)

Applies == INSTANCE LeftFold WITH Op <- Applied
Batched == INSTANCE LeftFold WITH Op <- BatchApplied
Reads == INSTANCE LeftFold WITH Op <- ReadOp
Records == INSTANCE LeftFold WITH Op <- ReadRecord

ApplyAll(b, s) == FoldLeft(Applied, b, s)

LEMMA ApplyAllIsFold == \A b, s : ApplyAll(b, s) = Applies!Fold(b, s)
BY DEF ApplyAll, FoldLeft, MapThenFoldSet, Max, Applies!Fold, Applies!Greatest

LEMMA ApplyAllStep ==
  ASSUME NEW E, NEW b, NEW s \in Seq(E), NEW e \in E
  PROVE  ApplyAll(b, <<>>) = b /\ ApplyAll(b, Append(s, e)) = Applied(ApplyAll(b, s), e)
<1>1. Applies!Fold(b, <<>>) = b
  BY Applies!FoldEmpty, SMT
<1>2. Applies!Fold(b, Append(s, e)) = Applied(Applies!Fold(b, s), e)
  BY Applies!FoldAppend, SMT
<1> QED BY <1>1, <1>2, ApplyAllIsFold, Zenon

ApplyBatches(b, s) == FoldLeft(BatchApplied, b, s)

LEMMA ApplyBatchesIsFold == \A b, s : ApplyBatches(b, s) = Batched!Fold(b, s)
BY DEF ApplyBatches, FoldLeft, MapThenFoldSet, Max, Batched!Fold, Batched!Greatest

LEMMA ApplyBatchesStep ==
  ASSUME NEW E, NEW b, NEW s \in Seq(E), NEW e \in E
  PROVE  ApplyBatches(b, <<>>) = b /\ ApplyBatches(b, Append(s, e)) = BatchApplied(ApplyBatches(b, s), e)
<1>1. Batched!Fold(b, <<>>) = b
  BY Batched!FoldEmpty, SMT
<1>2. Batched!Fold(b, Append(s, e)) = BatchApplied(Batched!Fold(b, s), e)
  BY Batched!FoldAppend, SMT
<1> QED BY <1>1, <1>2, ApplyBatchesIsFold, Zenon

ReadAll(b, s) == FoldLeft(ReadOp, b, s)

LEMMA ReadAllIsFold == \A b, s : ReadAll(b, s) = Reads!Fold(b, s)
BY DEF ReadAll, FoldLeft, MapThenFoldSet, Max, Reads!Fold, Reads!Greatest

LEMMA ReadAllStep ==
  ASSUME NEW E, NEW b, NEW s \in Seq(E), NEW e \in E
  PROVE  ReadAll(b, <<>>) = b /\ ReadAll(b, Append(s, e)) = ReadOp(ReadAll(b, s), e)
<1>1. Reads!Fold(b, <<>>) = b
  BY Reads!FoldEmpty, SMT
<1>2. Reads!Fold(b, Append(s, e)) = ReadOp(Reads!Fold(b, s), e)
  BY Reads!FoldAppend, SMT
<1> QED BY <1>1, <1>2, ReadAllIsFold, Zenon

ReadRecords(b, s) == FoldLeft(ReadRecord, b, s)

LEMMA ReadRecordsIsFold == \A b, s : ReadRecords(b, s) = Records!Fold(b, s)
BY DEF ReadRecords, FoldLeft, MapThenFoldSet, Max, Records!Fold, Records!Greatest

LEMMA ReadRecordsStep ==
  ASSUME NEW E, NEW b, NEW s \in Seq(E), NEW e \in E
  PROVE  ReadRecords(b, <<>>) = b /\ ReadRecords(b, Append(s, e)) = ReadRecord(ReadRecords(b, s), e)
<1>1. Records!Fold(b, <<>>) = b
  BY Records!FoldEmpty, SMT
<1>2. Records!Fold(b, Append(s, e)) = ReadRecord(Records!Fold(b, s), e)
  BY Records!FoldAppend, SMT
<1> QED BY <1>1, <1>2, ReadRecordsIsFold, Zenon

LEMMA ReadRecordsOne == ASSUME NEW b, NEW e PROVE ReadRecords(b, <<e>>) = ReadRecord(b, e)
<1>1. Records!Fold(b, <<e>>) = ReadRecord(b, e)
  BY Records!FoldOne, SMT
<1> QED BY <1>1, ReadRecordsIsFold, Zenon

LEMMA PartGrows ==
  ASSUME NEW S, NEW s \in Seq(S), NEW i \in 1..Len(s), NEW j \in i..Len(s)
  PROVE  /\ SubSeq(s, i, j) = Append(SubSeq(s, i, j - 1), s[j])
         /\ SubSeq(s, i, j - 1) \in Seq(S) /\ s[j] \in S
<1>1. Len(s) \in Nat
  BY LenProperties
<1>2. SubSeq(s, i, j - 1) \in Seq(S)
  <2>1. j - 1 \in Int /\ j - 1 <= Len(s)
    BY <1>1
  <2> QED BY <2>1, PartIs
<1>3. s[j] \in S
  BY <1>1, ElementOfSeq
<1>4. SubSeq(s, i, j) = SubSeq(s, i, j - 1) \o <<s[j]>>
  BY SubSeqRecursiveSecond
<1>5. \A t \in Seq(S) : \A e \in S : Append(t, e) = t \o <<e>>
  BY AppendIsConcat
<1> QED BY <1>2, <1>3, <1>4, <1>5, Zenon

LEMMA AppliedFacts ==
  ASSUME NEW base, NEW o
  PROVE  /\ DOMAIN Applied(base, o) = DOMAIN base
         /\ \A k \in DOMAIN base : Applied(base, o)[k] = IF k = o.key THEN OnKey(base[k], o) ELSE base[k]
<1>1. Applied(base, o) = [base EXCEPT ![o.key] = OnKey(base[o.key], o)]
  BY DEF Applied, OnKey
<1> QED BY <1>1

LEMMA ApplyDomain ==
  ASSUME NEW E, NEW base, NEW s \in Seq(E) PROVE DOMAIN ApplyAll(base, s) = DOMAIN base
<1> DEFINE P == {t \in Seq(E) : DOMAIN ApplyAll(base, t) = DOMAIN base}
<1>1. <<>> \in P
  <2>1. <<>> \in Seq(E) /\ ApplyAll(base, <<>>) = base
    BY EmptySeq, ApplyAllIsFold, Applies!FoldEmpty, SMT
  <2> QED BY <2>1
<1>2. ASSUME NEW t \in Seq(E), t \in P, NEW e \in E PROVE Append(t, e) \in P
  <2>1. ApplyAll(base, Append(t, e)) = Applied(ApplyAll(base, t), e)
    BY ApplyAllStep, SMT
  <2>2. DOMAIN ApplyAll(base, Append(t, e)) = DOMAIN base
    <3>1. \A x : DOMAIN Applied(x, e) = DOMAIN x
      BY AppliedFacts
    <3> QED BY <1>2, <2>1, <3>1, Zenon
  <2>3. Append(t, e) \in Seq(E)
    BY AppendProperties
  <2> QED BY <2>2, <2>3
<1>3. Seq(E) \subseteq P
  <2> HIDE DEF P
  <2> QED BY <1>1, <1>2, Selects!ListInduction
<1> QED BY <1>3

Batch(rep) == [first : Nat, ops : Seq(Operations(rep))]

LEMMA UnfoldedStep ==
  ASSUME NEW rep, NEW l \in Seq(Batch(rep)), NEW b \in Batch(rep)
  PROVE  Unfolded(Append(l, b)) = ApplyAll(Unfolded(l), b.ops)
<1> DEFINE base == [k \in Keys |-> NoData]
<1>1. Unfolded(Append(l, b)) = ApplyBatches(base, Append(l, b)) /\ Unfolded(l) = ApplyBatches(base, l)
  BY DEF Unfolded, ApplyBatches
<1> HIDE DEF base
<1>2. ApplyBatches(base, Append(l, b)) = BatchApplied(ApplyBatches(base, l), b)
  BY ApplyBatchesStep, SMT
<1>3. \A x : BatchApplied(x, b) = ApplyAll(x, b.ops)
  BY DEF BatchApplied, ApplyAll
<1> QED BY <1>1, <1>2, <1>3, Zenon

LEMMA UnfoldedEmpty == Unfolded(<<>>) = [k \in Keys |-> NoData]
<1>1. \A x : ApplyBatches(x, <<>>) = x
  BY ApplyBatchesIsFold, Batched!FoldEmpty, SMT
<1> DEFINE base == [k \in Keys |-> NoData]
<1>2. Unfolded(<<>>) = ApplyBatches(base, <<>>)
  BY DEF Unfolded, ApplyBatches
<1> QED BY <1>1, <1>2, Zenon

LEMMA UnfoldedDomain ==
  ASSUME NEW rep, NEW l \in Seq(Batch(rep)) PROVE DOMAIN Unfolded(l) = Keys
<1> DEFINE P == {t \in Seq(Batch(rep)) : DOMAIN Unfolded(t) = Keys}
<1>1. <<>> \in P
  BY UnfoldedEmpty, EmptySeq
<1>2. ASSUME NEW t \in Seq(Batch(rep)), t \in P, NEW b \in Batch(rep) PROVE Append(t, b) \in P
  <2>1. Unfolded(Append(t, b)) = ApplyAll(Unfolded(t), b.ops)
    BY UnfoldedStep
  <2>2. b.ops \in Seq(Operations(rep))
    BY DEF Batch
  <2>3. DOMAIN ApplyAll(Unfolded(t), b.ops) = DOMAIN Unfolded(t)
    BY <2>2, ApplyDomain
  <2>4. Append(t, b) \in Seq(Batch(rep))
    BY AppendProperties
  <2> QED BY <1>2, <2>1, <2>3, <2>4
<1>3. Seq(Batch(rep)) \subseteq P
  <2> HIDE DEF P
  <2> QED BY <1>1, <1>2, Selects!ListInduction
<1> QED BY <1>3

-----------------------------------------------------------------------------
(* What the slave reads of one batch. *)

Items(rep) == {Item(o) : o \in Operations(rep)}

LEMMA ItemFacts ==
  ASSUME NEW rep \in Repairing, NEW o \in Operations(rep)
  PROVE  /\ Item(o).key = o.key /\ Item(o) \in Items(rep)
         /\ Readable(o) /\ (o.type = "put" => ~o.text.junk) => Item(o) = o
<1>1. CASE o.type = "put"
  <2>1. /\ o = [type |-> "put", key |-> o.key, text |-> o.text]
        /\ o.text = [val |-> o.text.val, junk |-> o.text.junk] /\ o.text.junk \in BOOLEAN
    BY <1>1, OperationFacts
  <2>2. ~o.text.junk => o.text = Clean(o.text.val)
    BY <2>1 DEF Clean
  <2>3. Item(o) = [o EXCEPT !.text = IF Readable(o) THEN Clean(o.text.val) ELSE Blank]
    BY <1>1 DEF Item
  <2>4. Item(o).key = o.key
    BY <2>1, <2>3
  <2>5. Readable(o) /\ ~o.text.junk => Item(o) = o
    BY <2>1, <2>2, <2>3
  <2> QED BY <1>1, <2>4, <2>5 DEF Items
<1>2. CASE o.type # "put"
  BY <1>2 DEF Item, Items
<1> QED BY <1>1, <1>2

LEMMA TakenApplied ==
  ASSUME NEW rep \in Repairing, NEW base, NEW s \in Seq(Items(rep)), NEW o \in Operations(rep)
  PROVE  /\ s \o Taken(o) \in Seq(Items(rep))
         /\ ApplyAll(base, s \o Taken(o))
              = IF o.key \in Hidden THEN ApplyAll(base, s) ELSE Applied(ApplyAll(base, s), Item(o))
<1> DEFINE e == Item(o)
<1>1. e \in Items(rep)
  BY ItemFacts
<1>2. CASE o.key \in Hidden
  <2>1. Taken(o) = <<>>
    BY <1>2 DEF Taken
  <2>2. s \o <<>> = s
    BY ConcatEmptySeq
  <2> QED BY <1>2, <2>1, <2>2
<1>3. CASE o.key \notin Hidden
  <2>1. Taken(o) = <<e>>
    BY <1>3 DEF Taken
  <2> HIDE DEF e
  <2>2. s \o <<e>> = Append(s, e) /\ Append(s, e) \in Seq(Items(rep))
    BY <1>1, AppendIsConcat, AppendProperties
  <2>3. ApplyAll(base, Append(s, e)) = Applied(ApplyAll(base, s), e)
    BY <1>1, ApplyAllStep, SMT
  <2>4. ApplyAll(base, s \o Taken(o)) = Applied(ApplyAll(base, s), e)
    BY <2>1, <2>2, <2>3, Zenon
  <2>5. s \o Taken(o) \in Seq(Items(rep))
    BY <2>1, <2>2, Zenon
  <2> QED BY <1>3, <2>4, <2>5, Zenon DEF e
<1> QED BY <1>2, <1>3

\* What read_record_ knows before it reads a batch, and once it has read i operations.
BeforeBatch(st, b) == [ops |-> st.ops, next |-> st.next, sn |-> b.first, over |-> FALSE]
AfterRead(st, b, i) == ReadAll(BeforeBatch(st, b), SubSeq(b.ops, 1, i))

LEMMA AfterReadStep ==
  ASSUME NEW rep, NEW st, NEW b \in Batch(rep)
  PROVE  /\ AfterRead(st, b, 0) = BeforeBatch(st, b)
         /\ \A i \in 1..Len(b.ops) :
              b.ops[i] \in Operations(rep) /\ AfterRead(st, b, i) = ReadOp(AfterRead(st, b, i - 1), b.ops[i])
         /\ ReadRecord(st, b) = [ops  |-> AfterRead(st, b, Len(b.ops)).ops,
                                 next |-> AfterRead(st, b, Len(b.ops)).sn]
<1> DEFINE s == b.ops
           st0 == BeforeBatch(st, b)
<1>1. s \in Seq(Operations(rep)) /\ Len(s) \in Nat
  BY LenProperties DEF Batch
<1>2. AfterRead(st, b, 0) = st0
  <2>1. SubSeq(s, 1, 0) = <<>>
    BY SubSeqEmpty
  <2>2. ReadAll(st0, <<>>) = st0
    BY <1>1, ReadAllIsFold, Reads!FoldEmpty, SMT
  <2> QED BY <2>1, <2>2, Zenon DEF AfterRead
<1>3. ASSUME NEW i \in 1..Len(s)
      PROVE  s[i] \in Operations(rep) /\ AfterRead(st, b, i) = ReadOp(AfterRead(st, b, i - 1), s[i])
  <2>1. 1 \in 1..Len(s) /\ i \in 1..Len(s)
    BY <1>1
  <2>2. /\ SubSeq(s, 1, i) = Append(SubSeq(s, 1, i - 1), s[i])
        /\ SubSeq(s, 1, i - 1) \in Seq(Operations(rep)) /\ s[i] \in Operations(rep)
    BY <1>1, <2>1, PartGrows
  <2> HIDE DEF s, st0
  <2>3. \A t \in Seq(Operations(rep)) : \A e \in Operations(rep) :
          ReadAll(st0, Append(t, e)) = ReadOp(ReadAll(st0, t), e)
    BY ReadAllStep, SMT
  <2>4. ReadAll(st0, SubSeq(s, 1, i)) = ReadOp(ReadAll(st0, SubSeq(s, 1, i - 1)), s[i])
    BY <2>2, <2>3, Zenon
  <2> QED BY <2>2, <2>4, Zenon DEF AfterRead, s, st0
<1>4. SubSeq(s, 1, Len(s)) = s
  BY <1>1, SubSeqFull
<1>5. AfterRead(st, b, Len(s)) = ReadAll(st0, s)
  BY <1>4, Zenon DEF AfterRead
<1>6. ReadRecord(st, b) = [ops |-> ReadAll(st0, s).ops, next |-> ReadAll(st0, s).sn]
  BY DEF ReadRecord, ReadAll, BeforeBatch
<1> QED BY <1>2, <1>3, <1>5, <1>6

\* What has been read of a batch, when i of its operations are through.
ReadSoFar(rep, st, b, i) ==
  LET r == AfterRead(st, b, i)
  IN  /\ r.next = st.next /\ r.ops \in Seq(Items(rep)) /\ r.over \in BOOLEAN
      /\ ~r.over => r.sn = b.first + i /\ \A y \in 1..i : Readable(b.ops[y])
      /\ r.over => \E x \in 1..i : /\ r.sn = b.first + x /\ ~Readable(b.ops[x])
                                   /\ \A y \in 1..x - 1 : Readable(b.ops[y])

LEMMA ReadSoFarAlways ==
  ASSUME NEW rep \in Repairing, NEW st, st.ops \in Seq(Items(rep)), NEW b \in Batch(rep)
  PROVE  \A i \in 0..Len(b.ops) : ReadSoFar(rep, st, b, i)
<1> DEFINE s == b.ops
           L == Len(s)
           P == {i \in Nat : i <= L => ReadSoFar(rep, st, b, i)}
<1>1. L \in Nat /\ b.first \in Nat
  BY LenProperties DEF Batch
<1>2. 0 \in P
  <2>1. AfterRead(st, b, 0) = [ops |-> st.ops, next |-> st.next, sn |-> b.first, over |-> FALSE]
    BY AfterReadStep DEF BeforeBatch
  <2> DEFINE r == AfterRead(st, b, 0)
  <2>2. /\ r.next = st.next /\ r.ops \in Seq(Items(rep)) /\ r.over = FALSE
        /\ r.sn = b.first + 0
    BY <1>1, <2>1
  <2>3. \A y \in 1..0 : Readable(b.ops[y])
    OBVIOUS
  <2> HIDE DEF r
  <2>4. ReadSoFar(rep, st, b, 0)
    BY <2>2, <2>3 DEF ReadSoFar, r
  <2> QED BY <2>4
<1>3. ASSUME NEW i \in Nat, i \in P, i + 1 <= L PROVE ReadSoFar(rep, st, b, i + 1)
  <2> DEFINE r == AfterRead(st, b, i)
             o == s[i + 1]
             q == AfterRead(st, b, i + 1)
  <2>1. ReadSoFar(rep, st, b, i)
    BY <1>1, <1>3
  <2>2. i + 1 \in 1..L /\ (i + 1) - 1 = i
    BY <1>1, <1>3
  <2>3. o \in Operations(rep) /\ q = ReadOp(r, o)
    <3>1. \A l \in 1..L : /\ s[l] \in Operations(rep)
                          /\ AfterRead(st, b, l) = ReadOp(AfterRead(st, b, l - 1), s[l])
      BY AfterReadStep
    <3> HIDE DEF L, s
    <3> QED BY <2>2, <3>1
  <2>4. /\ r.next = st.next /\ r.ops \in Seq(Items(rep)) /\ r.over \in BOOLEAN
        /\ ~r.over => r.sn = b.first + i /\ \A y \in 1..i : Readable(b.ops[y])
        /\ r.over => \E x \in 1..i : /\ r.sn = b.first + x /\ ~Readable(b.ops[x])
                                     /\ \A y \in 1..x - 1 : Readable(b.ops[y])
    BY <2>1 DEF ReadSoFar
  <2>5. CASE r.over
    <3>1. q = r
      BY <2>3, <2>5 DEF ReadOp
    <3> HIDE DEF q, r, o
    <3>2. PICK x \in 1..i : /\ r.sn = b.first + x /\ ~Readable(b.ops[x])
                            /\ \A y \in 1..x - 1 : Readable(b.ops[y])
      BY <2>4, <2>5
    <3>3. x \in 1..(i + 1)
      BY <1>3
    <3>4. q.over /\ \E z \in 1..(i + 1) : /\ q.sn = b.first + z /\ ~Readable(b.ops[z])
                                          /\ \A y \in 1..z - 1 : Readable(b.ops[y])
      BY <2>5, <3>1, <3>2, <3>3
    <3>5. q.next = st.next /\ q.ops \in Seq(Items(rep)) /\ q.over \in BOOLEAN
      BY <2>4, <3>1
    <3> QED BY <3>4, <3>5 DEF ReadSoFar, q
  <2>6. CASE ~r.over
    <3>1. q = [ops  |-> IF r.sn < r.next THEN r.ops ELSE r.ops \o Taken(o),
               next |-> r.next, sn |-> r.sn + 1, over |-> ~Readable(o)]
      BY <2>3, <2>6 DEF ReadOp
    <3>2. r.ops \o Taken(o) \in Seq(Items(rep))
      BY <2>3, <2>4, TakenApplied
    <3> HIDE DEF q, r
    <3>3. q.next = st.next /\ q.ops \in Seq(Items(rep)) /\ q.over = ~Readable(o) /\ q.sn = r.sn + 1
      BY <2>4, <3>1, <3>2
    <3>4. r.sn = b.first + i /\ \A y \in 1..i : Readable(b.ops[y])
      BY <2>4, <2>6
    <3>5. q.sn = b.first + (i + 1)
      BY <1>1, <3>3, <3>4
    <3>6. ~q.over => \A y \in 1..(i + 1) : Readable(b.ops[y])
      <4> SUFFICES ASSUME ~q.over, NEW y \in 1..(i + 1) PROVE Readable(b.ops[y])
        OBVIOUS
      <4>1. CASE y = i + 1
        BY <3>3, <4>1
      <4>2. CASE y \in 1..i
        BY <3>4, <4>2
      <4> QED BY <1>3, <4>1, <4>2
    <3>7. q.over => ~Readable(b.ops[i + 1])
      BY <3>3
    <3>10. \A y \in 1..((i + 1) - 1) : Readable(b.ops[y])
      <4>1. (i + 1) - 1 = i
        BY <1>3
      <4> QED BY <3>4, <4>1
    <3>8. i + 1 \in 1..(i + 1)
      BY <1>3
    <3>9. q.over => \E x \in 1..(i + 1) : /\ q.sn = b.first + x /\ ~Readable(b.ops[x])
                                          /\ \A y \in 1..x - 1 : Readable(b.ops[y])
      BY <3>5, <3>7, <3>8, <3>10
    <3> QED BY <3>3, <3>5, <3>6, <3>9 DEF ReadSoFar, q
  <2> QED BY <2>4, <2>5, <2>6
<1>4. \A i \in Nat : i \in P => i + 1 \in P
  BY <1>3
<1>5. Nat \subseteq P
  <2> HIDE DEF P
  <2> QED BY <1>2, <1>4, Selects!Induction
<1> QED BY <1>1, <1>5

-----------------------------------------------------------------------------
(* One batch in the slave's parser. *)

\* A batch read from its start, or from before it: what it does not damage is applied.
LEMMA ReadStands ==
  ASSUME NEW rep \in Repairing, NEW st, st.ops \in Seq(Items(rep)), NEW b \in Batch(rep),
         st.next \in Nat, st.next <= b.first,
         NEW base, NEW gb, DOMAIN base = Keys, DOMAIN gb = Keys, NEW k \in Keys \ Hidden,
         ~Damages(b, k), StandsFor(ApplyAll(base, st.ops)[k], gb[k])
  PROVE  StandsFor(ApplyAll(base, ReadRecord(st, b).ops)[k], ApplyAll(gb, b.ops)[k])
<1> DEFINE s == b.ops
           L == Len(s)
           D(i) == ApplyAll(base, AfterRead(st, b, i).ops)
           G(i) == ApplyAll(gb, SubSeq(s, 1, i))
           P == {i \in Nat : i <= L => StandsFor(D(i)[k], G(i)[k])}
<1>1. L \in Nat /\ b.first \in Nat /\ s \in Seq(Operations(rep))
  BY LenProperties DEF Batch
<1>2. 0 \in P
  <2>1. AfterRead(st, b, 0).ops = st.ops
    <3>1. AfterRead(st, b, 0) = BeforeBatch(st, b)
      BY AfterReadStep
    <3> QED BY <3>1 DEF BeforeBatch
  <2>2. SubSeq(s, 1, 0) = <<>>
    BY SubSeqEmpty
  <2>3. ApplyAll(gb, <<>>) = gb
    BY ApplyAllIsFold, Applies!FoldEmpty, SMT
  <2>4. StandsFor(D(0)[k], G(0)[k])
    BY <2>1, <2>2, <2>3, Zenon
  <2> QED BY <2>4
<1>3. ASSUME NEW i \in Nat, i \in P, i + 1 <= L PROVE StandsFor(D(i + 1)[k], G(i + 1)[k])
  <2> DEFINE r == AfterRead(st, b, i)
             o == s[i + 1]
             q == AfterRead(st, b, i + 1)
  <2>1. StandsFor(D(i)[k], G(i)[k])
    BY <1>1, <1>3
  <2>2. i + 1 \in 1..L /\ (i + 1) - 1 = i /\ 1 \in 1..L /\ i + 1 \in 1..L /\ i \in 0..L
    BY <1>1, <1>3
  <2>3. o \in Operations(rep) /\ q = ReadOp(r, o)
    <3>1. \A l \in 1..L : /\ s[l] \in Operations(rep)
                          /\ AfterRead(st, b, l) = ReadOp(AfterRead(st, b, l - 1), s[l])
      BY AfterReadStep
    <3> HIDE DEF L, s
    <3> QED BY <2>2, <3>1
  <2>4. /\ r.next = st.next /\ r.ops \in Seq(Items(rep)) /\ r.over \in BOOLEAN
        /\ ~r.over => r.sn = b.first + i /\ \A y \in 1..i : Readable(b.ops[y])
        /\ r.over => \E x \in 1..i : ~Readable(b.ops[x])
    BY <2>2, ReadSoFarAlways DEF ReadSoFar
  <2>5. G(i + 1) = Applied(G(i), o)
    <3>1. /\ SubSeq(s, 1, i + 1) = Append(SubSeq(s, 1, i), o)
          /\ SubSeq(s, 1, i) \in Seq(Operations(rep))
      BY <1>1, <2>2, PartGrows
    <3> HIDE DEF s, o
    <3>2. \A t \in Seq(Operations(rep)) : \A e \in Operations(rep) :
            ApplyAll(gb, Append(t, e)) = Applied(ApplyAll(gb, t), e)
      BY ApplyAllStep, SMT
    <3> QED BY <2>3, <3>1, <3>2, Zenon
  <2>6. DOMAIN G(i) = Keys /\ DOMAIN D(i) = Keys
    <3>1. SubSeq(s, 1, i) \in Seq(Operations(rep))
      <4>1. 1 \in Int /\ i \in Int /\ 1 <= 1 /\ i <= Len(s)
        BY <1>1, <1>3
      <4> QED BY <1>1, <4>1, PartIs
    <3>2. DOMAIN G(i) = Keys
      BY <3>1, ApplyDomain
    <3>3. DOMAIN D(i) = Keys
      BY <2>4, ApplyDomain
    <3> QED BY <3>2, <3>3
  <2>7. G(i + 1)[k] = IF k = o.key THEN OnKey(G(i)[k], o) ELSE G(i)[k]
    BY <2>5, <2>6, AppliedFacts
  <2>8. o.key = k => ~Spoils(s, i + 1)
    BY <1>1, <2>2 DEF Damages
  <2>9. CASE r.over
    <3>1. PICK x \in 1..i : ~Readable(s[x])
      BY <2>4, <2>9
    <3>2. Spoils(s, i + 1)
      <4>1. x \in 1..(i + 1)
        BY <1>3
      <4> QED BY <3>1, <4>1 DEF Spoils
    <3>3. q = r
      BY <2>3, <2>9 DEF ReadOp
    <3>4. D(i + 1) = D(i)
      BY <3>3
    <3>5. G(i + 1)[k] = G(i)[k]
      BY <2>7, <2>8, <3>2
    <3> QED BY <2>1, <3>4, <3>5
  <2>10. CASE ~r.over
    <3>1. r.sn >= r.next /\ ~(r.sn < r.next)
      BY <1>1, <2>4, <2>10
    <3>2. q.ops = r.ops \o Taken(o)
      <4> HIDE DEF q, r, o
      <4> QED BY <2>3, <2>10, <3>1 DEF ReadOp
    <3>3. D(i + 1) = IF o.key \in Hidden THEN D(i) ELSE Applied(D(i), Item(o))
      <4>1. \A t \in Seq(Items(rep)) : \A e \in Operations(rep) :
              ApplyAll(base, t \o Taken(e))
                = IF e.key \in Hidden THEN ApplyAll(base, t) ELSE Applied(ApplyAll(base, t), Item(e))
        BY TakenApplied
      <4>2. r.ops \in Seq(Items(rep)) /\ o \in Operations(rep)
        BY <2>3, <2>4
      <4>3. ApplyAll(base, q.ops)
              = IF o.key \in Hidden THEN ApplyAll(base, r.ops) ELSE Applied(ApplyAll(base, r.ops), Item(o))
        <5> HIDE DEF q, r, o
        <5> QED BY <3>2, <4>1, <4>2, Zenon
      <4> QED BY <4>3
    <3>4. CASE o.key = k
      <4>1. ~Spoils(s, i + 1)
        BY <2>8, <3>4
      <4>2. Readable(o) /\ (o.type = "put" => ~o.text.junk)
        BY <2>2, <4>1 DEF Spoils
      <4>3. Item(o) = o
        BY <2>3, <4>2, ItemFacts
      <4>4. D(i + 1) = Applied(D(i), o)
        BY <3>3, <3>4, <4>3
      <4>5. D(i + 1)[k] = OnKey(D(i)[k], o)
        BY <2>6, <3>4, <4>4, AppliedFacts
      <4>6. G(i + 1)[k] = OnKey(G(i)[k], o)
        BY <2>7, <3>4
      <4>7. StandsFor(OnKey(D(i)[k], o), OnKey(G(i)[k], o))
        <5> HIDE DEF D, G, o
        <5> QED BY <2>1, <2>3, <4>2, OnKeyStands
      <4> QED BY <4>5, <4>6, <4>7
    <3>5. CASE o.key # k
      <4>1. G(i + 1)[k] = G(i)[k]
        BY <2>7, <3>5
      <4>2. Item(o).key # k
        BY <2>3, <3>5, ItemFacts
      <4>3. Applied(D(i), Item(o))[k] = D(i)[k]
        BY <2>6, <4>2, AppliedFacts
      <4>4. D(i + 1)[k] = D(i)[k]
        BY <3>3, <4>3
      <4> QED BY <2>1, <4>1, <4>4
    <3> QED BY <3>4, <3>5
  <2> QED BY <2>4, <2>9, <2>10
<1>4. Nat \subseteq P
  <2>1. \A i \in Nat : i \in P => i + 1 \in P
    BY <1>3
  <2> HIDE DEF P
  <2> QED BY <1>2, <2>1, Selects!Induction
<1>5. StandsFor(D(L)[k], G(L)[k])
  BY <1>1, <1>4
<1>6. SubSeq(s, 1, L) = s
  BY <1>1, SubSeqFull
<1>7. ReadRecord(st, b).ops = AfterRead(st, b, L).ops
  <2>1. ReadRecord(st, b) = [ops |-> AfterRead(st, b, L).ops, next |-> AfterRead(st, b, L).sn]
    BY AfterReadStep
  <2> QED BY <2>1
<1> QED BY <1>5, <1>6, <1>7, Zenon

\* The same without folding: what the batches of the log write, on both of two databases.
LEMMA ApplyStands ==
  ASSUME NEW rep \in Repairing, NEW b \in Batch(rep),
         NEW base, NEW gb, DOMAIN base = Keys, DOMAIN gb = Keys, NEW k \in Keys \ Hidden,
         ~Damages(b, k), StandsFor(base[k], gb[k])
  PROVE  StandsFor(ApplyAll(base, b.ops)[k], ApplyAll(gb, b.ops)[k])
<1> DEFINE s == b.ops
           L == Len(s)
           D(i) == ApplyAll(base, SubSeq(s, 1, i))
           G(i) == ApplyAll(gb, SubSeq(s, 1, i))
           P == {i \in Nat : i <= L => StandsFor(D(i)[k], G(i)[k])}
<1>1. L \in Nat /\ s \in Seq(Operations(rep))
  BY LenProperties DEF Batch
<1>2. 0 \in P
  <2>2. SubSeq(s, 1, 0) = <<>>
    BY SubSeqEmpty
  <2>3. \A x : ApplyAll(x, <<>>) = x
    BY ApplyAllIsFold, Applies!FoldEmpty, SMT
  <2>4. StandsFor(D(0)[k], G(0)[k])
    BY <2>2, <2>3, Zenon
  <2> QED BY <2>4
<1>3. ASSUME NEW i \in Nat, i \in P, i + 1 <= L PROVE StandsFor(D(i + 1)[k], G(i + 1)[k])
  <2> DEFINE o == s[i + 1]
  <2>1. StandsFor(D(i)[k], G(i)[k])
    BY <1>1, <1>3
  <2>2. i + 1 \in 1..L /\ (i + 1) - 1 = i /\ 1 \in 1..L /\ i \in 0..L
    BY <1>1, <1>3
  <2>3. /\ SubSeq(s, 1, i + 1) = Append(SubSeq(s, 1, i), o)
        /\ SubSeq(s, 1, i) \in Seq(Operations(rep)) /\ o \in Operations(rep)
    BY <1>1, <2>2, PartGrows
  <2>4. D(i + 1) = Applied(D(i), o) /\ G(i + 1) = Applied(G(i), o)
    <3> HIDE DEF s, o
    <3>2. \A x : \A t \in Seq(Operations(rep)) : \A e \in Operations(rep) :
            ApplyAll(x, Append(t, e)) = Applied(ApplyAll(x, t), e)
      BY ApplyAllStep, SMT
    <3> QED BY <2>3, <3>2, Zenon
  <2>5. DOMAIN G(i) = Keys /\ DOMAIN D(i) = Keys
    BY <2>3, ApplyDomain
  <2>6. /\ G(i + 1)[k] = IF k = o.key THEN OnKey(G(i)[k], o) ELSE G(i)[k]
        /\ D(i + 1)[k] = IF k = o.key THEN OnKey(D(i)[k], o) ELSE D(i)[k]
    BY <2>4, <2>5, AppliedFacts
  <2>7. o.key = k => Readable(o)
    <3>1. o.key = k => ~Spoils(s, i + 1)
      BY <1>1, <2>2 DEF Damages
    <3> QED BY <2>2, <3>1 DEF Spoils
  <2>8. o.key = k => StandsFor(OnKey(D(i)[k], o), OnKey(G(i)[k], o))
    <3> HIDE DEF D, G, o
    <3> QED BY <2>1, <2>3, <2>7, OnKeyStands
  <2> HIDE DEF D, G, o
  <2> QED BY <2>1, <2>6, <2>8
<1>4. Nat \subseteq P
  <2>1. \A i \in Nat : i \in P => i + 1 \in P
    BY <1>3
  <2> HIDE DEF P
  <2> QED BY <1>2, <2>1, Selects!Induction
<1>5. StandsFor(D(L)[k], G(L)[k])
  BY <1>1, <1>4
<1>6. SubSeq(s, 1, L) = s
  BY <1>1, SubSeqFull
<1> QED BY <1>5, <1>6, Zenon

-----------------------------------------------------------------------------
(* A batch that is read again. *)

\* A batch read again from its first operation that is not readable: nothing is taken, and
\* the slave stops where it was.
LEMMA ReadAgain ==
  ASSUME NEW rep \in Repairing, NEW st, st = [ops |-> st.ops, next |-> st.next],
         st.ops \in Seq(Items(rep)), NEW b \in Batch(rep), NEW x \in 1..Len(b.ops),
         st.next = b.first + x, ~Readable(b.ops[x]), \A y \in 1..x - 1 : Readable(b.ops[y])
  PROVE  ReadRecord(st, b) = st
<1> DEFINE L == Len(b.ops)
           P == {i \in Nat : i <= L => AfterRead(st, b, i).ops = st.ops}
<1>1. L \in Nat /\ b.first \in Nat /\ x \in Nat
  BY LenProperties DEF Batch
<1>2. 0 \in P
  <2>1. AfterRead(st, b, 0) = BeforeBatch(st, b)
    BY AfterReadStep
  <2> QED BY <2>1 DEF BeforeBatch
<1>3. ASSUME NEW i \in Nat, i \in P, i + 1 <= L PROVE AfterRead(st, b, i + 1).ops = st.ops
  <2> DEFINE r == AfterRead(st, b, i)
             q == AfterRead(st, b, i + 1)
  <2>1. i \in 0..L /\ i + 1 \in 1..L /\ (i + 1) - 1 = i
    <3>1. i \in Nat /\ i + 1 <= L /\ L \in Nat
      BY <1>1, <1>3
    <3> HIDE DEF P, L
    <3> QED BY <3>1
  <2>2. q = ReadOp(r, b.ops[i + 1])
    <3>1. \A l \in 1..L : AfterRead(st, b, l) = ReadOp(AfterRead(st, b, l - 1), b.ops[l])
      BY AfterReadStep
    <3> HIDE DEF L
    <3> QED BY <2>1, <3>1
  <2>3. /\ r.next = st.next /\ r.ops = st.ops
        /\ ~r.over => r.sn = b.first + i /\ \A y \in 1..i : Readable(b.ops[y])
    <3>1. ReadSoFar(rep, st, b, i)
      BY <2>1, ReadSoFarAlways
    <3>2. r.ops = st.ops
      BY <1>3
    <3> QED BY <3>1, <3>2 DEF ReadSoFar
  <2> HIDE DEF r, q
  <2>4. CASE r.over
    BY <2>2, <2>3, <2>4 DEF ReadOp, q
  <2>5. CASE ~r.over
    <3>1. ~(x \in 1..i)
      BY <2>3, <2>5
    <3>2. r.sn < r.next
      BY <1>1, <1>3, <2>3, <2>5, <3>1
    <3> QED BY <2>2, <2>3, <2>5, <3>2 DEF ReadOp, q
  <2> QED BY <2>4, <2>5
<1>4. Nat \subseteq P
  <2>1. \A i \in Nat : i \in P => i + 1 \in P
    BY <1>3
  <2> HIDE DEF P
  <2> QED BY <1>2, <2>1, Selects!Induction
<1> DEFINE r == AfterRead(st, b, L)
<1>5. r.ops = st.ops
  BY <1>1, <1>4
<1>6. /\ r.over \in BOOLEAN
      /\ ~r.over => \A y \in 1..L : Readable(b.ops[y])
      /\ r.over => \E z \in 1..L : /\ r.sn = b.first + z /\ ~Readable(b.ops[z])
                                   /\ \A y \in 1..z - 1 : Readable(b.ops[y])
  <2>1. L \in 0..Len(b.ops)
    BY <1>1
  <2> QED BY <2>1, ReadSoFarAlways DEF ReadSoFar
<1>7. r.over
  BY <1>6
<1>8. PICK z \in 1..L : /\ r.sn = b.first + z /\ ~Readable(b.ops[z])
                        /\ \A y \in 1..z - 1 : Readable(b.ops[y])
  BY <1>6, <1>7
<1>9. z = x
  <2>1. ~(x \in 1..z - 1) /\ ~(z \in 1..x - 1)
    BY <1>8
  <2> QED BY <1>1, <2>1
<1>10. ReadRecord(st, b) = [ops |-> r.ops, next |-> r.sn]
  BY AfterReadStep
<1> QED BY <1>5, <1>8, <1>9, <1>10

\* The slave that has taken st.ops of what follows base is through with the first j batches.
Synced(base, st, j) ==
  /\ st = [ops |-> st.ops, next |-> st.next] /\ st.ops \in Seq(Items(repairs))
  /\ Through(st.next, j) /\ Reflects(ApplyAll(base, st.ops), SubSeq(log, 1, j))

LEMMA LogFacts ==
  ASSUME repairs \in Repairing, LogInv
  PROVE  /\ log \in Seq(Batch(repairs)) /\ Len(log) \in Nat /\ DOMAIN log = 1..Len(log)
         /\ \A i \in 1..Len(log) :
              /\ log[i] \in Batch(repairs) /\ log[i].first \in Nat /\ Len(log[i].ops) \in Nat \ {0}
              /\ EndOf(log[i]) = log[i].first + Len(log[i].ops)
              /\ i = 1 => log[i].first = 1
         /\ \A i, j \in 1..Len(log) :
              i < j => EndOf(log[i]) <= log[j].first /\ (j = i + 1 => EndOf(log[i]) = log[j].first)
<1>1. log \in Seq(Batch(repairs)) /\ Len(log) \in Nat /\ DOMAIN log = 1..Len(log)
  BY LenProperties DEF LogInv, Batch
<1>2. ASSUME NEW i \in 1..Len(log)
      PROVE  /\ log[i] \in Batch(repairs) /\ log[i].first \in Nat /\ Len(log[i].ops) \in Nat \ {0}
             /\ EndOf(log[i]) = log[i].first + Len(log[i].ops)
             /\ i = 1 => log[i].first = 1
  <2>1. log[i] \in Batch(repairs) /\ i \in DOMAIN log
    BY <1>1, ElementOfSeq
  <2>2. log[i].first \in Nat /\ log[i].ops \in Seq(Operations(repairs)) /\ log[i].ops # <<>>
    BY <2>1 DEF Batch, LogInv
  <2>3. Len(log[i].ops) \in Nat \ {0}
    BY <2>2, EmptySeq, LenProperties
  <2> QED BY <2>1, <2>2, <2>3 DEF LogInv, EndOf
<1> QED BY <1>1, <1>2 DEF LogInv

LEMMA ReadNext ==
  ASSUME repairs \in Repairing, LogInv, NEW base, DOMAIN base = Keys, NEW st,
         NEW j \in 0..Len(log), j + 1 \in 1..Len(log), Synced(base, st, j)
  PROVE  Synced(base, ReadRecord(st, log[j + 1]), j + 1)
<1> DEFINE b == log[j + 1]
           L == Len(b.ops)
           r == AfterRead(st, b, L)
           n == ReadRecord(st, b)
           head == SubSeq(log, 1, j)
<1>1. /\ log \in Seq(Batch(repairs)) /\ Len(log) \in Nat /\ DOMAIN log = 1..Len(log)
      /\ b \in Batch(repairs) /\ b.first \in Nat /\ L \in Nat \ {0} /\ EndOf(b) = b.first + L
  BY LogFacts
<1>2. st.ops \in Seq(Items(repairs)) /\ Through(st.next, j) /\ Reflects(ApplyAll(base, st.ops), head)
  BY DEF Synced
<1>3. st.next \in Nat /\ st.next <= b.first
  <2>1. CASE j = 0
    BY <1>2, <2>1, LogFacts DEF Through
  <2>2. CASE j # 0
    <3>1. j \in 1..Len(log) /\ j < j + 1
      BY <1>1, <2>2
    <3>2. EndOf(log[j]) = b.first /\ log[j].first \in Nat /\ Len(log[j].ops) \in Nat
          /\ EndOf(log[j]) = log[j].first + Len(log[j].ops)
      BY <3>1, LogFacts
    <3>3. \/ st.next = EndOf(log[j])
          \/ \E x \in 1..Len(log[j].ops) - 1 : st.next = log[j].first + x
      BY <1>2, <2>2 DEF Through
    <3>4. st.next \in Nat /\ st.next <= EndOf(log[j])
      BY <3>2, <3>3
    <3> HIDE DEF b
    <3> QED BY <3>2, <3>4
  <2> QED BY <2>1, <2>2
<1>4. n = [ops |-> r.ops, next |-> r.sn]
  BY <1>1, AfterReadStep
<1>5. /\ r.ops \in Seq(Items(repairs)) /\ r.over \in BOOLEAN
      /\ ~r.over => r.sn = b.first + L
      /\ r.over => \E x \in 1..L : /\ r.sn = b.first + x /\ ~Readable(b.ops[x])
                                   /\ \A y \in 1..x - 1 : Readable(b.ops[y])
  <2>1. L \in 0..Len(b.ops)
    BY <1>1
  <2>2. ReadSoFar(repairs, st, b, L)
    <3> HIDE DEF b, L
    <3> QED BY <1>1, <1>2, <2>1, ReadSoFarAlways DEF L
  <2> QED BY <2>2 DEF ReadSoFar
<1>6. n = [ops |-> n.ops, next |-> n.next] /\ n.ops \in Seq(Items(repairs)) /\ n.next = r.sn
  BY <1>4, <1>5
<1>7. Through(n.next, j + 1)
  <2>1. CASE ~r.over
    BY <1>1, <1>5, <1>6, <2>1 DEF Through
  <2>2. CASE r.over
    <3>1. PICK x \in 1..L : /\ r.sn = b.first + x /\ ~Readable(b.ops[x])
                            /\ \A y \in 1..x - 1 : Readable(b.ops[y])
      BY <1>5, <2>2
    <3>2. CASE x = L
      BY <1>1, <1>6, <3>1, <3>2 DEF Through
    <3>3. CASE x # L
      <4>1. x \in 1..L - 1
        BY <1>1, <3>3
      <4>2. \E z \in 1..Len(b.ops) - 1 : /\ n.next = b.first + z /\ ~Readable(b.ops[z])
                                         /\ \A y \in 1..z - 1 : Readable(b.ops[y])
        BY <1>6, <3>1, <4>1
      <4> HIDE DEF n, r, L
      <4> QED BY <1>1, <4>2 DEF Through
    <3> QED BY <3>2, <3>3
  <2> QED BY <1>5, <2>1, <2>2
<1>8. SubSeq(log, 1, j + 1) = Append(head, b) /\ head \in Seq(Batch(repairs))
  <2>1. 1 \in 1..Len(log) /\ j + 1 \in 1..Len(log) /\ (j + 1) - 1 = j
    BY <1>1
  <2> QED BY <1>1, <2>1, PartGrows
<1>9. ASSUME NEW k \in Keys \ Hidden, ~Damaged(SubSeq(log, 1, j + 1), k)
      PROVE  StandsFor(ApplyAll(base, n.ops)[k], Unfolded(SubSeq(log, 1, j + 1))[k])
  <2>1. ~Damaged(head, k) /\ ~Damages(b, k)
    <3> HIDE DEF b, head
    <3>1. ~Damaged(Append(head, b), k)
      BY <1>8, <1>9
    <3>2. /\ Len(head) \in Nat /\ DOMAIN head = 1..Len(head)
          /\ DOMAIN Append(head, b) = 1..(Len(head) + 1) /\ Append(head, b)[Len(head) + 1] = b
          /\ \A i \in 1..Len(head) : Append(head, b)[i] = head[i]
      BY <1>1, <1>8, AppendProperties, LenProperties
    <3> QED BY <3>1, <3>2 DEF Damaged
  <2>2. Unfolded(SubSeq(log, 1, j + 1)) = ApplyAll(Unfolded(head), b.ops)
    BY <1>1, <1>8, UnfoldedStep
  <2>3. DOMAIN Unfolded(head) = Keys
    BY <1>8, UnfoldedDomain
  <2>4. StandsFor(ApplyAll(base, st.ops)[k], Unfolded(head)[k])
    BY <1>2, <2>1 DEF Reflects
  <2>5. StandsFor(ApplyAll(base, n.ops)[k], ApplyAll(Unfolded(head), b.ops)[k])
    <3> HIDE DEF b, head
    <3> QED BY <1>1, <1>2, <1>3, <2>1, <2>3, <2>4, ReadStands
  <2> QED BY <2>2, <2>5
<1>10. Reflects(ApplyAll(base, n.ops), SubSeq(log, 1, j + 1))
  BY <1>9 DEF Reflects
<1> HIDE DEF n, r
<1>11. Synced(base, n, j + 1)
  BY <1>6, <1>7, <1>10 DEF Synced
<1> QED BY <1>11 DEF n

-----------------------------------------------------------------------------
(* A response. *)

\* The batches of a response, the first of which is new or read again.
LEMMA ReadResponse ==
  ASSUME repairs \in Repairing, LogInv, NEW base, DOMAIN base = Keys, NEW st,
         NEW f \in 1..Len(log), NEW m \in f..Len(log), Synced(base, ReadRecord(st, log[f]), f)
  PROVE  Synced(base, ReadRecords(st, SubSeq(log, f, m)), m)
<1> DEFINE R(l) == ReadRecords(st, SubSeq(log, f, l))
           P == {t \in Nat : f + t <= Len(log) => Synced(base, R(f + t), f + t)}
<1>1. /\ log \in Seq(Batch(repairs)) /\ Len(log) \in Nat
      /\ \A i \in 1..Len(log) : log[i] \in Batch(repairs)
  BY LogFacts
<1>2. \A l \in f..Len(log) : R(l) = ReadRecord(R(l - 1), log[l])
  <2> TAKE l \in f..Len(log)
  <2>1. /\ SubSeq(log, f, l) = Append(SubSeq(log, f, l - 1), log[l])
        /\ SubSeq(log, f, l - 1) \in Seq(Batch(repairs)) /\ log[l] \in Batch(repairs)
    BY <1>1, PartGrows
  <2>2. \A s \in Seq(Batch(repairs)) : \A e \in Batch(repairs) :
          ReadRecords(st, Append(s, e)) = ReadRecord(ReadRecords(st, s), e)
    BY ReadRecordsStep, SMT
  <2> QED BY <2>1, <2>2, Zenon
<1>3. R(f - 1) = st
  <2>1. SubSeq(log, f, f - 1) = <<>>
    BY <1>1, SubSeqEmpty
  <2>2. ReadRecords(st, <<>>) = st
    BY ReadRecordsIsFold, Records!FoldEmpty, SMT
  <2> QED BY <2>1, <2>2, Zenon
<1> HIDE DEF R
<1>4. 0 \in P
  <2>1. f \in f..Len(log) /\ f + 0 = f
    BY <1>1
  <2>2. R(f) = ReadRecord(st, log[f])
    BY <1>2, <1>3, <2>1
  <2> QED BY <2>1, <2>2
<1>5. ASSUME NEW t \in Nat, t \in P, f + (t + 1) <= Len(log) PROVE Synced(base, R(f + (t + 1)), f + (t + 1))
  <2> DEFINE j == f + t
  <2>1. /\ j \in 0..Len(log) /\ j + 1 \in 1..Len(log) /\ j + 1 \in f..Len(log) /\ (j + 1) - 1 = j
        /\ f + (t + 1) = j + 1
    BY <1>1, <1>5
  <2>2. Synced(base, R(j), j)
    BY <1>5, <2>1
  <2> HIDE DEF j
  <2>3. Synced(base, ReadRecord(R(j), log[j + 1]), j + 1)
    BY <1>1, <2>1, <2>2, ReadNext
  <2>4. R(j + 1) = ReadRecord(R(j), log[j + 1])
    BY <1>2, <2>1
  <2> QED BY <2>1, <2>3, <2>4
<1>6. Nat \subseteq P
  <2>1. \A t \in Nat : t \in P => t + 1 \in P
    BY <1>5
  <2> HIDE DEF P
  <2> QED BY <1>4, <2>1, Selects!Induction
<1>7. m - f \in Nat /\ f + (m - f) = m /\ m <= Len(log)
  BY <1>1
<1>8. Synced(base, R(m), m)
  BY <1>6, <1>7
<1> QED BY <1>8 DEF R

LEMMA FirstBatchIs ==
  ASSUME repairs \in Repairing, LogInv, nextSeq \in Nat, NEW i \in 1..Len(log),
         log[i].first <= nextSeq, nextSeq < EndOf(log[i])
  PROVE  FirstBatch = i
<1>1. /\ DOMAIN log = 1..Len(log) /\ Len(log) \in Nat
      /\ \A j \in 1..Len(log) : log[j].first \in Nat /\ EndOf(log[j]) \in Nat
      /\ \A j, l \in 1..Len(log) : j < l => EndOf(log[j]) <= log[l].first
  <2>1. \A j \in 1..Len(log) : /\ log[j].first \in Nat /\ Len(log[j].ops) \in Nat
                               /\ EndOf(log[j]) = log[j].first + Len(log[j].ops)
    BY LogFacts
  <2>2. \A j \in 1..Len(log) : log[j].first \in Nat /\ EndOf(log[j]) \in Nat
    BY <2>1
  <2> QED BY <2>2, LogFacts
<1>2. ASSUME NEW j \in 1..Len(log), log[j].first <= nextSeq, nextSeq < EndOf(log[j])
      PROVE  j = i
  <2>1. ~(i < j)
    <3> SUFFICES ASSUME i < j PROVE FALSE
      OBVIOUS
    <3>1. EndOf(log[i]) <= log[j].first
      BY <1>1
    <3> QED BY <1>1, <1>2, <3>1
  <2>2. ~(j < i)
    <3> SUFFICES ASSUME j < i PROVE FALSE
      OBVIOUS
    <3>1. EndOf(log[j]) <= log[i].first
      BY <1>1
    <3> QED BY <1>1, <1>2, <3>1
  <2> QED BY <2>1, <2>2
<1> QED BY <1>1, <1>2 DEF FirstBatch

\* Where the slave starts: its first batch is the one after those it is through with, or
\* the last of them again.
LEMMA ResponseStart ==
  ASSUME repairs \in Repairing, LogInv, NEW base, DOMAIN base = Keys,
         NEW n \in 0..Len(log), Through(nextSeq, n), Reflects(base, SubSeq(log, 1, n)),
         nextSeq <= LastSeq
  PROVE  /\ FirstBatch \in 1..Len(log)
         /\ Synced(base, ReadRecord([ops |-> <<>>, next |-> nextSeq], log[FirstBatch]), FirstBatch)
<1> DEFINE st == [ops |-> <<>>, next |-> nextSeq]
<1>1. /\ DOMAIN log = 1..Len(log) /\ Len(log) \in Nat
      /\ \A j \in 1..Len(log) :
           /\ log[j].first \in Nat /\ Len(log[j].ops) \in Nat \ {0}
           /\ EndOf(log[j]) = log[j].first + Len(log[j].ops)
           /\ j = 1 => log[j].first = 1
  BY LogFacts
<1>2. st = [ops |-> st.ops, next |-> st.next] /\ st.ops = <<>> /\ st.next = nextSeq
      /\ st.ops \in Seq(Items(repairs))
  BY EmptySeq
<1>3. ApplyAll(base, st.ops) = base
  <2>1. ApplyAll(base, <<>>) = base
    BY ApplyAllIsFold, Applies!FoldEmpty, SMT
  <2> QED BY <1>2, <2>1, Zenon
<1> HIDE DEF st
<1>7. nextSeq \in Nat
  BY <1>1 DEF Through
<1>4. Synced(base, st, n)
  BY <1>2, <1>3 DEF Synced
<1>5. CASE n \in 1..Len(log) /\ nextSeq # EndOf(log[n])
  <2>1. PICK x \in 1..Len(log[n].ops) - 1 :
          /\ nextSeq = log[n].first + x /\ ~Readable(log[n].ops[x])
          /\ \A y \in 1..x - 1 : Readable(log[n].ops[y])
    BY <1>5 DEF Through
  <2>2. FirstBatch = n
    <3>1. log[n].first <= nextSeq /\ nextSeq < EndOf(log[n])
      BY <1>1, <1>5, <2>1
    <3> QED BY <1>5, <1>7, <3>1, FirstBatchIs
  <2>3. ReadRecord(st, log[n]) = st
    <3>1. log[n] \in Batch(repairs)
      BY <1>5, LogFacts
    <3>2. x \in 1..Len(log[n].ops)
      BY <1>1, <1>5, <2>1
    <3> QED BY <1>2, <2>1, <3>1, <3>2, ReadAgain
  <2> QED BY <1>4, <1>5, <2>2, <2>3 DEF st
<1>6. CASE n = 0 \/ nextSeq = EndOf(log[n])
  <2>1. log # <<>> /\ Len(log) \in 1..Len(log) /\ LastSeq = EndOf(log[Len(log)]) - 1
    <3>1. nextSeq \in Nat \ {0}
      BY <1>1, <1>5, <1>6 DEF Through
    <3>2. log # <<>>
      BY <3>1 DEF LastSeq
    <3>3. Len(log) # 0
      BY <3>2, EmptySeq DEF LogInv
    <3> QED BY <1>1, <3>2, <3>3 DEF LastSeq
  <2>2. nextSeq < EndOf(log[Len(log)])
    <3>1. nextSeq \in Int
      BY <1>1, <1>6 DEF Through
    <3> QED BY <1>1, <2>1, <3>1
  <2>3. n + 1 \in 1..Len(log)
    <3>1. n # Len(log)
      BY <1>1, <1>6, <2>1, <2>2
    <3>2. Len(log) \in Nat
      BY <1>1
    <3> QED BY <3>1, <3>2
  <2>4. log[n + 1].first = nextSeq
    <3>1. CASE n = 0
      <4>1. nextSeq = 1
        BY <1>1, <3>1 DEF Through
      <4> QED BY <1>1, <2>3, <3>1, <4>1
    <3>2. CASE n # 0
      <4>1. n \in 1..Len(log) /\ n < n + 1 /\ n + 1 = n + 1
        BY <1>1, <3>2
      <4>2. EndOf(log[n]) = log[n + 1].first
        BY <2>3, <4>1, LogFacts
      <4> QED BY <1>6, <3>2, <4>2
    <3> QED BY <3>1, <3>2
  <2>5. FirstBatch = n + 1
    <3>1. log[n + 1].first <= nextSeq /\ nextSeq < EndOf(log[n + 1])
      BY <1>1, <2>3, <2>4
    <3> QED BY <1>7, <2>3, <3>1, FirstBatchIs
  <2>6. Synced(base, ReadRecord(st, log[n + 1]), n + 1)
    BY <1>4, <2>3, ReadNext
  <2> QED BY <2>3, <2>5, <2>6 DEF st
<1> QED BY <1>1, <1>5, <1>6

-----------------------------------------------------------------------------
(* The master's log. *)

\* A batch of requests is a list of operations.
LEMMA BatchWritten ==
  ASSUME repairs \in Repairing, NEW b \in Batches
  PROVE  LET ops == [i \in DOMAIN b |-> Logged(repairs, b[i])]
         IN  ops \in Seq(Operations(repairs)) /\ Len(ops) \in Nat \ {0}
<1> DEFINE ops == [i \in DOMAIN b |-> Logged(repairs, b[i])]
<1>1. Len(b) \in Nat \ {0} /\ DOMAIN b = 1..Len(b)
  BY BatchesAssumption
<1>2. ops = [i \in 1..Len(b) |-> Logged(repairs, b[i])]
  BY <1>1
<1>3. \A i \in 1..Len(b) : Logged(repairs, b[i]) \in Operations(repairs)
  BY DEF Operations
<1>4. ops \in Seq(Operations(repairs)) /\ Len(ops) = Len(b)
  BY <1>1, <1>2, <1>3
<1> QED BY <1>1, <1>4

\* A batch written leaves the log gapless, and what was in it as it was.
LEMMA LogGrows ==
  ASSUME repairs \in Repairing, LogInv, NEW ops \in Seq(Operations(repairs)), Len(ops) # 0,
         log' = Append(log, [first |-> LastSeq + 1, ops |-> ops]), repairs' = repairs
  PROVE  /\ LogInv' /\ [first |-> LastSeq + 1, ops |-> ops] \in Batch(repairs)
         /\ Len(log') = Len(log) + 1 /\ DOMAIN log' = 1..(Len(log) + 1)
         /\ \A i \in 1..Len(log) : log'[i] = log[i]
         /\ \A n \in 0..Len(log) : SubSeq(log', 1, n) = SubSeq(log, 1, n)
<1> DEFINE e == [first |-> LastSeq + 1, ops |-> ops]
           L == Len(log)
<1>1. /\ log \in Seq(Batch(repairs)) /\ L \in Nat /\ DOMAIN log = 1..L
      /\ \A i \in 1..L :
           /\ log[i].first \in Nat /\ Len(log[i].ops) \in Nat \ {0}
           /\ EndOf(log[i]) = log[i].first + Len(log[i].ops)
           /\ i = 1 => log[i].first = 1
      /\ \A i, j \in 1..L : i < j => EndOf(log[i]) <= log[j].first /\ (j = i + 1 => EndOf(log[i]) = log[j].first)
  BY LogFacts
<1>2. /\ LastSeq + 1 \in Nat /\ (L = 0 => LastSeq + 1 = 1) /\ (L # 0 => LastSeq + 1 = EndOf(log[L]))
      /\ ops # <<>>
  <2>1. log = <<>> <=> L = 0
    BY <1>1, EmptySeq
  <2>2. ops # <<>>
    BY EmptySeq
  <2>3. CASE L = 0
    BY <2>1, <2>2, <2>3 DEF LastSeq
  <2>4. CASE L # 0
    <3>1. LastSeq = EndOf(log[L]) - 1 /\ L \in 1..L
      BY <1>1, <2>1, <2>4 DEF LastSeq
    <3>2. EndOf(log[L]) \in Nat
      BY <1>1, <3>1
    <3> QED BY <2>2, <2>4, <3>1, <3>2
  <2> QED BY <2>3, <2>4
<1>3. e \in Batch(repairs) /\ e.first = LastSeq + 1 /\ e.ops = ops
  BY <1>2 DEF Batch
<1> HIDE DEF e, L
<1>4. /\ log' \in Seq(Batch(repairs)) /\ Len(log') = L + 1 /\ DOMAIN log' = 1..(L + 1)
      /\ (\A i \in 1..L : log'[i] = log[i]) /\ log'[L + 1] = e
  <2>1. log' = Append(log, e)
    BY DEF e
  <2> QED BY <1>1, <1>3, <2>1, AppendProperties, LenProperties DEF L
<1>5. \A n \in 0..L : SubSeq(log', 1, n) = SubSeq(log, 1, n)
  <2>1. log' = Append(log, e)
    BY DEF e
  <2> TAKE n \in 0..L
  <2>2. SubSeq(Append(log, e), 1, n) = SubSeq(log, 1, n)
    BY <1>1, <1>3, AppendParts DEF L
  <2> QED BY <2>1, <2>2
<1>6. LogInv'
  <2>1. (log \in Seq([first : Nat, ops : Seq(Operations(repairs))]))'
    BY <1>4 DEF Batch
  <2>2. ASSUME NEW i \in DOMAIN log' PROVE log'[i].ops # <<>> /\ (i = 1 => log'[i].first = 1)
    <3>1. CASE i \in 1..L
      BY <1>1, <1>4, <3>1 DEF LogInv
    <3>2. CASE i = L + 1
      BY <1>1, <1>2, <1>3, <1>4, <3>2
    <3> QED BY <1>1, <1>4, <3>1, <3>2
  <2>3. ASSUME NEW i \in DOMAIN log', NEW j \in DOMAIN log', i < j
        PROVE  EndOf(log'[i]) <= log'[j].first /\ (j = i + 1 => EndOf(log'[i]) = log'[j].first)
    <3>1. i \in 1..L /\ i \in Nat
      BY <1>1, <1>4, <2>3
    <3>2. CASE j \in 1..L
      BY <1>1, <1>4, <2>3, <3>1, <3>2
    <3>3. CASE j = L + 1
      <4>1. EndOf(log'[i]) = EndOf(log[i]) /\ log'[j].first = EndOf(log[L]) /\ L \in 1..L
        BY <1>1, <1>2, <1>3, <1>4, <3>1, <3>3
      <4>2. CASE i = L
        <5>1. EndOf(log[L]) \in Nat
          BY <1>1, <4>1
        <5> QED BY <4>1, <4>2, <5>1
      <4>3. CASE i # L
        <5>1. i < L /\ j # i + 1
          BY <1>1, <3>1, <3>3, <4>3
        <5>2. EndOf(log[i]) <= log[L].first
          BY <1>1, <3>1, <4>1, <5>1
        <5>3. /\ EndOf(log[i]) \in Nat /\ log[L].first \in Nat /\ log[L].first <= EndOf(log[L])
              /\ EndOf(log[L]) \in Nat
          <6>1. \A x \in 1..L : /\ log[x].first \in Nat /\ Len(log[x].ops) \in Nat
                                /\ EndOf(log[x]) = log[x].first + Len(log[x].ops)
            BY <1>1
          <6>2. \A x \in 1..L : log[x].first \in Nat /\ EndOf(log[x]) \in Nat /\ log[x].first <= EndOf(log[x])
            BY <6>1
          <6> QED BY <3>1, <4>1, <6>2
        <5> QED BY <4>1, <5>1, <5>2, <5>3
      <4> QED BY <4>2, <4>3
    <3> QED BY <1>1, <1>4, <3>2, <3>3
  <2> QED BY <2>1, <2>2, <2>3 DEF LogInv
<1> QED BY <1>3, <1>4, <1>5, <1>6 DEF e, L

LEMMA WriteKeepsAgreed ==
  ASSUME ReplicaInv, Write
  PROVE  ReplicaInv'
<1>1. PICK b \in Batches :
        LET ops == [i \in DOMAIN b |-> Logged(repairs, b[i])]
        IN  /\ log' = Append(log, [first |-> LastSeq + 1, ops |-> ops])
            /\ data' = [data EXCEPT !["master"] = FoldLeft(Applied, @, ops)]
  BY DEF Write
<1> DEFINE ops == [i \in DOMAIN b |-> Logged(repairs, b[i])]
           e == [first |-> LastSeq + 1, ops |-> ops]
           md == data["master"]
           sd == data["slave"]
<1>2. /\ repairs' = repairs /\ nextSeq' = nextSeq /\ repairs \in Repairing /\ LogInv
      /\ DOMAIN data = Sides /\ DOMAIN md = Keys /\ DOMAIN sd = Keys
      /\ Reflects(md, log)
  BY DEF Write, ReplicaInv, Sides
<1>3. ops \in Seq(Operations(repairs)) /\ Len(ops) \in Nat \ {0}
  BY <1>2, BatchWritten
<1>4. log' = Append(log, e) /\ data' = [data EXCEPT !["master"] = ApplyAll(md, ops)]
  BY <1>1 DEF ApplyAll
<1>5. /\ LogInv' /\ e \in Batch(repairs)
      /\ Len(log') = Len(log) + 1 /\ DOMAIN log' = 1..(Len(log) + 1)
      /\ \A i \in 1..Len(log) : log'[i] = log[i]
      /\ \A n \in 0..Len(log) : SubSeq(log', 1, n) = SubSeq(log, 1, n)
  <2> HIDE DEF ops
  <2> QED BY <1>2, <1>3, <1>4, LogGrows
<1>6. e.ops = ops
  OBVIOUS
<1> HIDE DEF ops, e
<1>7. /\ DOMAIN data' = Sides /\ data'["master"] = ApplyAll(md, ops) /\ data'["slave"] = sd
  BY <1>2, <1>4 DEF Sides
<1>8. DOMAIN ApplyAll(md, ops) = Keys
  BY <1>2, <1>3, ApplyDomain
<1>9. log \in Seq(Batch(repairs)) /\ Len(log) \in Nat /\ DOMAIN log = 1..Len(log)
  BY <1>2, LogFacts
<1>10. Reflects(ApplyAll(md, ops), log')
  <2> SUFFICES ASSUME NEW k \in Keys \ Hidden, ~Damaged(log', k)
               PROVE  StandsFor(ApplyAll(md, ops)[k], Unfolded(log')[k])
    BY DEF Reflects
  <2>1. ~Damaged(log, k) /\ ~Damages(e, k)
    <3>1. log'[Len(log) + 1] = e
      BY <1>4, <1>5, <1>9, AppendProperties
    <3> QED BY <1>5, <1>9, <3>1 DEF Damaged
  <2>2. StandsFor(md[k], Unfolded(log)[k])
    BY <1>2, <2>1 DEF Reflects
  <2>3. DOMAIN Unfolded(log) = Keys
    BY <1>9, UnfoldedDomain
  <2>4. StandsFor(ApplyAll(md, e.ops)[k], ApplyAll(Unfolded(log), e.ops)[k])
    BY <1>2, <1>5, <2>1, <2>2, <2>3, ApplyStands
  <2>5. Unfolded(Append(log, e)) = ApplyAll(Unfolded(log), e.ops)
    BY <1>5, <1>9, UnfoldedStep
  <2> QED BY <1>4, <1>6, <2>4, <2>5, Zenon
<1>11. PICK n \in 0..Len(log) : Through(nextSeq, n) /\ Reflects(sd, SubSeq(log, 1, n))
  BY DEF ReplicaInv
<1>12. n \in 0..Len(log') /\ SubSeq(log', 1, n) = SubSeq(log, 1, n)
  BY <1>5, <1>9
<1>13. Through(nextSeq, n)'
  <2>1. CASE n = 0
    BY <1>2, <1>9, <1>11, <2>1 DEF Through
  <2>2. CASE n # 0
    <3>1. n \in 1..Len(log) /\ n \in DOMAIN log' /\ log'[n] = log[n]
      BY <1>5, <1>9, <2>2
    <3> QED BY <1>2, <1>11, <2>2, <3>1 DEF Through
  <2> QED BY <2>1, <2>2
<1>14. (\A s \in Sides : DOMAIN data[s] = Keys)'
  BY <1>2, <1>7, <1>8 DEF Sides
<1>15. Reflects(data["slave"], SubSeq(log, 1, n))'
  BY <1>7, <1>11, <1>12
<1>16. Reflects(data["master"], log)'
  BY <1>7, <1>10
<1> QED BY <1>2, <1>5, <1>7, <1>12, <1>13, <1>14, <1>15, <1>16 DEF ReplicaInv

\* Folding a key of a database keeps what it stands for.
LEMMA FoldReflects ==
  ASSUME NEW base, DOMAIN base = Keys, NEW bs, NEW k \in Keys, NEW n \in 1..Len(base[k].stack),
         Reflects(base, bs)
  PROVE  /\ DOMAIN [base EXCEPT ![k] = Folded(@, n)] = Keys
         /\ Reflects([base EXCEPT ![k] = Folded(@, n)], bs)
<1> DEFINE new == [base EXCEPT ![k] = Folded(@, n)]
<1>1. DOMAIN new = Keys /\ new[k] = Folded(base[k], n) /\ \A j \in Keys \ {k} : new[j] = base[j]
  OBVIOUS
<1> HIDE DEF new
<1>2. ASSUME NEW j \in Keys \ Hidden, ~Damaged(bs, j) PROVE StandsFor(new[j], Unfolded(bs)[j])
  <2>1. StandsFor(base[j], Unfolded(bs)[j])
    BY <1>2 DEF Reflects
  <2>2. CASE j = k
    <3>1. StandsFor(Folded(base[k], n), Unfolded(bs)[j])
      BY <2>1, <2>2, FoldedStands
    <3> QED BY <1>1, <2>2, <3>1
  <2>3. CASE j # k
    BY <1>1, <2>1, <2>3
  <2> QED BY <2>2, <2>3
<1>3. Reflects(new, bs)
  BY <1>2 DEF Reflects
<1> QED BY <1>1, <1>3 DEF new

LEMMA FoldKeepsInv ==
  ASSUME ReplicaInv, Fold
  PROVE  ReplicaInv'
<1>1. PICK s \in Sides, k \in Keys : \E n \in 1..Len(data[s][k].stack) :
        data' = [data EXCEPT ![s][k] = Folded(@, n)]
  BY DEF Fold
<1>2. PICK n \in 1..Len(data[s][k].stack) : data' = [data EXCEPT ![s][k] = Folded(@, n)]
  BY <1>1
<1>3. repairs' = repairs /\ log' = log /\ nextSeq' = nextSeq
  BY DEF Fold
<1>4. DOMAIN data = Sides /\ \A x \in Sides : DOMAIN data[x] = Keys
  BY DEF ReplicaInv
<1> DEFINE new == [data[s] EXCEPT ![k] = Folded(@, n)]
<1>5. data' = [data EXCEPT ![s] = new]
  BY <1>2
<1>6. DOMAIN data' = Sides /\ \A x \in Sides : data'[x] = IF x = s THEN new ELSE data[x]
  <2> HIDE DEF new
  <2> QED BY <1>4, <1>5
<1>7. \A bs : Reflects(data[s], bs) => Reflects(new, bs)
  BY <1>4, FoldReflects
<1>8. DOMAIN new = Keys
  BY <1>4
<1> HIDE DEF new
<1>9. \A bs : \A x \in Sides : Reflects(data[x], bs) => Reflects(data'[x], bs)
  BY <1>6, <1>7
<1>10. Reflects(data["master"], log)'
  BY <1>3, <1>9 DEF ReplicaInv, Sides
<1>11. PICK m \in 0..Len(log) : Through(nextSeq, m) /\ Reflects(data["slave"], SubSeq(log, 1, m))
  BY DEF ReplicaInv
<1>12. Reflects(data["slave"], SubSeq(log, 1, m))'
  BY <1>3, <1>9, <1>11 DEF Sides
<1>13. Through(nextSeq, m)'
  BY <1>3, <1>11 DEF Through
<1>14. LogInv' /\ (repairs \in Repairing)'
  BY <1>3 DEF LogInv, ReplicaInv
<1>15. (\A x \in Sides : DOMAIN data[x] = Keys)'
  BY <1>4, <1>6, <1>8
<1> QED BY <1>3, <1>6, <1>10, <1>11, <1>12, <1>13, <1>14, <1>15 DEF ReplicaInv

LEMMA ReplicateKeeps ==
  ASSUME ReplicaInv, Replicate
  PROVE  ReplicaInv'
<1> DEFINE sd == data["slave"]
           st == [ops |-> <<>>, next |-> nextSeq]
           f == FirstBatch
<1>1. PICK c \in 1..MaxBatches :
        LET last == f + c - 1
            read == ReadLogs(nextSeq, SubSeq(log, f, last))
        IN  /\ last <= Len(log)
            /\ data' = [data EXCEPT !["slave"] = FoldLeft(Applied, @, read.ops)]
            /\ nextSeq' = read.next
  BY DEF Replicate
<1> DEFINE m == f + c - 1
           read == ReadRecords(st, SubSeq(log, f, m))
<1>2. nextSeq <= LastSeq /\ repairs' = repairs /\ log' = log
  BY DEF Replicate
<1>3. /\ repairs \in Repairing /\ LogInv /\ DOMAIN data = Sides
      /\ DOMAIN data["master"] = Keys /\ DOMAIN sd = Keys
      /\ Reflects(data["master"], log)
  BY DEF ReplicaInv, Sides
<1>4. PICK n \in 0..Len(log) : Through(nextSeq, n) /\ Reflects(sd, SubSeq(log, 1, n))
  BY DEF ReplicaInv
<1>5. f \in 1..Len(log) /\ Synced(sd, ReadRecord(st, log[f]), f)
  BY <1>2, <1>3, <1>4, ResponseStart
<1>6. m \in f..Len(log) /\ m \in 0..Len(log)
  <2>1. Len(log) \in Nat /\ c \in Nat \ {0} /\ m <= Len(log)
    BY <1>1, <1>3, LogFacts
  <2> HIDE DEF f
  <2> QED BY <1>5, <2>1
<1>7. /\ data' = [data EXCEPT !["slave"] = ApplyAll(sd, read.ops)] /\ nextSeq' = read.next
  BY <1>1 DEF ApplyAll, ReadLogs, ReadRecords
<1> HIDE DEF f, m, st
<1>8. Synced(sd, read, m)
  BY <1>3, <1>5, <1>6, ReadResponse
<1>16. PICK l \in 0..Len(log) : l = m
  BY <1>6
<1> HIDE DEF read
<1>9. /\ read.ops \in Seq(Items(repairs)) /\ Through(read.next, l)
      /\ Reflects(ApplyAll(sd, read.ops), SubSeq(log, 1, l))
  BY <1>8, <1>16 DEF Synced
<1>10. /\ DOMAIN data' = Sides /\ data'["slave"] = ApplyAll(sd, read.ops)
       /\ data'["master"] = data["master"]
  BY <1>3, <1>7 DEF Sides
<1>11. DOMAIN ApplyAll(sd, read.ops) = Keys
  BY <1>3, <1>9, ApplyDomain
<1>12. (\A x \in Sides : DOMAIN data[x] = Keys)'
  BY <1>3, <1>10, <1>11 DEF Sides
<1>13. Through(nextSeq, l)'
  BY <1>2, <1>7, <1>9 DEF Through
<1>14. Reflects(data["slave"], SubSeq(log, 1, l))' /\ Reflects(data["master"], log)'
  BY <1>2, <1>3, <1>9, <1>10
<1>15. LogInv' /\ (repairs \in Repairing)'
  BY <1>2, <1>3 DEF LogInv
<1> QED BY <1>2, <1>10, <1>12, <1>13, <1>14, <1>15 DEF ReplicaInv

LEMMA ReplicaStart == InitReplica => ReplicaInv
<1> SUFFICES ASSUME InitReplica PROVE ReplicaInv
  OBVIOUS
<1>1. /\ repairs \in Repairing /\ data = [s \in Sides |-> [k \in Keys |-> NoData]]
      /\ log = <<>> /\ nextSeq = 1
  BY DEF InitReplica
<1>2. Len(log) = 0 /\ DOMAIN log = {} /\ SubSeq(log, 1, 0) = <<>>
  BY <1>1, SubSeqEmpty
<1>3. LogInv
  BY <1>1, <1>2 DEF LogInv
<1>4. Reflects([k \in Keys |-> NoData], <<>>)
  <2>1. StandsFor(NoData, NoData)
    BY BareStands DEF NoData
  <2> QED BY <2>1, UnfoldedEmpty DEF Reflects
<1>5. /\ DOMAIN data = Sides /\ \A s \in Sides : DOMAIN data[s] = Keys
      /\ data["master"] = [k \in Keys |-> NoData] /\ data["slave"] = [k \in Keys |-> NoData]
  BY <1>1 DEF Sides
<1>6. Through(nextSeq, 0) /\ 0 \in 0..Len(log)
  BY <1>1, <1>2 DEF Through
<1> QED BY <1>1, <1>2, <1>3, <1>4, <1>5, <1>6 DEF ReplicaInv

-----------------------------------------------------------------------------
(* Every step keeps what both sides hold, and what follows. *)

\* The log is gapless, and what master and slave hold is what the batches write that they
\* are through with, except for the damaged keys, however much of it is folded.
THEOREM ReplicaAlways == SpecReplica => []ReplicaInv
<1>1. ASSUME ReplicaInv, [NextReplica]_replicaVars PROVE ReplicaInv'
  <2>1. CASE Write
    BY <1>1, <2>1, WriteKeepsAgreed
  <2>2. CASE Fold
    BY <1>1, <2>2, FoldKeepsInv
  <2>3. CASE Replicate
    BY <1>1, <2>3, ReplicateKeeps
  <2>4. CASE UNCHANGED replicaVars
    BY <1>1, <2>4 DEF replicaVars, ReplicaInv, LogInv, Through
  <2> QED BY <1>1, <2>1, <2>2, <2>3, <2>4 DEF NextReplica
<1> QED BY <1>1, ReplicaStart, PTL DEF SpecReplica

LEMMA RepairedWhole ==
  ASSUME repairs \in Repairing, LogInv, repairs, NEW k PROVE ~Damaged(log, k)
<1> SUFFICES ASSUME NEW i \in DOMAIN log, NEW m \in DOMAIN log[i].ops, Spoils(log[i].ops, m)
             PROVE  FALSE
  BY DEF Damaged, Damages
<1>1. log[i].ops \in Seq(Operations(repairs))
  BY LogFacts DEF Batch
<1>2. DOMAIN log[i].ops = 1..Len(log[i].ops) /\ Len(log[i].ops) \in Nat
  BY <1>1, LenProperties
<1>3. \A l \in 1..m : log[i].ops[l] \in Operations(repairs)
  <2> TAKE l \in 1..m
  <2>1. l \in 1..Len(log[i].ops)
    BY <1>2
  <2> QED BY <1>1, <2>1, ElementOfSeq
<1>4. m \in 1..m
  BY <1>2
<1>5. \A o \in Operations(repairs) : Readable(o) /\ (o.type = "put" => ~o.text.junk)
  BY OperationFacts
<1> QED BY <1>3, <1>4, <1>5 DEF Spoils

LEMMA ReplicaInvAgrees == ReplicaInv => ReplicasAgree
<1> SUFFICES ASSUME ReplicaInv, CaughtUp, NEW k \in Keys \ Hidden, ~Mixed(k), repairs \/ ~Damaged(log, k)
             PROVE  Read("slave", k) = Read("master", k)
  BY DEF ReplicasAgree
<1>1. repairs \in Repairing /\ LogInv /\ Reflects(data["master"], log)
  BY DEF ReplicaInv
<1>2. PICK n \in 0..Len(log) : Through(nextSeq, n) /\ Reflects(data["slave"], SubSeq(log, 1, n))
  BY DEF ReplicaInv
<1>3. log \in Seq(Batch(repairs)) /\ Len(log) \in Nat /\ DOMAIN log = 1..Len(log)
  BY <1>1, LogFacts
<1>10. \A i \in 1..Len(log) : /\ log[i].first \in Nat /\ Len(log[i].ops) \in Nat \ {0}
                              /\ EndOf(log[i]) = log[i].first + Len(log[i].ops)
  BY <1>1, LogFacts
<1>11. \A i \in 1..Len(log) : i = 1 => log[i].first = 1
  BY <1>1, LogFacts
<1>12. \A i, j \in 1..Len(log) : i < j => EndOf(log[i]) <= log[j].first
  BY <1>1, LogFacts
<1>4. n = Len(log)
  <2> SUFFICES ASSUME n # Len(log) PROVE FALSE
    OBVIOUS
  <2>0. Len(log) \in Nat /\ n \in 0..Len(log) /\ (log = <<>> => Len(log) = 0)
    BY <1>3, EmptySeq
  <2>1. Len(log) \in 1..Len(log) /\ n < Len(log) /\ log # <<>>
    BY <2>0
  <2>5. \A i \in 1..Len(log) : /\ log[i].first \in Nat /\ EndOf(log[i]) \in Nat
                               /\ log[i].first < EndOf(log[i])
    BY <1>10
  <2>6. \A i \in 1..Len(log) : i < Len(log) => EndOf(log[i]) <= log[Len(log)].first
    BY <1>12, <2>1
  <2>2. nextSeq > log[Len(log)].first
    BY <2>1 DEF CaughtUp
  <2>3. CASE n = 0
    <3>1. nextSeq = 1
      BY <1>2, <1>3, <2>3 DEF Through
    <3>2. CASE Len(log) = 1
      BY <1>11, <2>1, <2>2, <3>1, <3>2
    <3>3. CASE Len(log) # 1
      <4>1. 1 \in 1..Len(log) /\ 1 < Len(log)
        <5>1. \A x \in Nat : x >= 1 /\ x # 1 => 1 \in 1..x /\ 1 < x
          OBVIOUS
        <5>2. Len(log) \in Nat /\ Len(log) >= 1 /\ Len(log) # 1
          BY <2>0, <2>1, <3>3
        <5> QED BY <5>1, <5>2, Zenon
      <4>2. log[1].first = 1
        BY <1>11, <4>1
      <4>3. EndOf(log[1]) <= log[Len(log)].first /\ 1 < EndOf(log[1])
            /\ log[Len(log)].first \in Nat /\ EndOf(log[1]) \in Nat
        BY <2>1, <2>5, <2>6, <4>1, <4>2
      <4> QED BY <2>2, <3>1, <4>3
    <3> QED BY <3>2, <3>3
  <2>4. CASE n # 0
    <3>1. n \in 1..Len(log)
      BY <2>0, <2>4
    <3>2. nextSeq \in Nat /\ nextSeq <= EndOf(log[n])
      <4>1. /\ log[n].first \in Nat /\ Len(log[n].ops) \in Nat
            /\ EndOf(log[n]) = log[n].first + Len(log[n].ops)
        BY <1>10, <3>1
      <4>2. \/ nextSeq = EndOf(log[n])
            \/ \E x \in 1..Len(log[n].ops) - 1 : nextSeq = log[n].first + x
        BY <1>2, <2>4 DEF Through
      <4> QED BY <4>1, <4>2
    <3>3. EndOf(log[n]) <= log[Len(log)].first /\ EndOf(log[n]) \in Nat /\ log[Len(log)].first \in Nat
      BY <2>1, <2>5, <2>6, <3>1
    <3> QED BY <2>2, <3>2, <3>3
  <2> QED BY <2>3, <2>4
<1>5. SubSeq(log, 1, n) = log
  BY <1>3, <1>4, SubSeqFull
<1>6. ~Damaged(log, k)
  BY <1>1, RepairedWhole
<1> DEFINE g == Unfolded(log)[k]
<1>7. StandsFor(data["master"][k], g) /\ StandsFor(data["slave"][k], g)
  BY <1>1, <1>2, <1>5, <1>6 DEF Reflects
<1>8. ~Mixes(g.stack)
  BY DEF Mixed
<1> HIDE DEF g
<1>9. Current(data["master"][k]) = Whole(g) /\ Current(data["slave"][k]) = Whole(g)
  BY <1>7, <1>8, StandsForReads
<1> QED BY <1>9 DEF Read

\* A slave that has read the last batch reads as the master does: every key that no damaged
\* value was written to, with operands of one method at a time; with repair_json_values
\* nothing is damaged.  For all requests, batches, keys and responses, and any folding.
THEOREM ReplicasAlwaysAgree == SpecReplica => []ReplicasAgree
BY ReplicaAlways, ReplicaInvAgrees, PTL

\* A key stands for itself as it is.
LEMMA SelfStands == ASSUME NEW d, NEW g, StandsFor(d, g) PROVE StandsFor(d, d)
<1> DEFINE ops == g.stack
           L == Len(ops)
<1>1. /\ ops \in Seq(Operands) /\ (\A i \in DOMAIN ops : ops[i].mode # "junk") /\ L \in Nat /\ DOMAIN ops = 1..L
      /\ d = [text |-> d.text, stack |-> d.stack]
  BY LenProperties DEF StandsFor
<1>2. PICK n \in 0..L : d.stack = SubSeq(ops, n + 1, L)
  BY DEF StandsFor
<1>3. /\ d.stack \in Seq(Operands) /\ Len(d.stack) = L - n
      /\ \A l \in 1..(L - n) : d.stack[l] = ops[n + l]
  <2>1. n + 1 \in Int /\ L \in Int /\ 1 <= n + 1 /\ L <= Len(ops)
    BY <1>1
  <2>2. /\ SubSeq(ops, n + 1, L) \in Seq(Operands)
        /\ Len(SubSeq(ops, n + 1, L)) = IF n + 1 <= L THEN L - (n + 1) + 1 ELSE 0
        /\ \A l \in 1..(L - (n + 1) + 1) : SubSeq(ops, n + 1, L)[l] = ops[n + 1 + l - 1]
    BY <1>1, <2>1, PartIs
  <2> HIDE DEF L, ops
  <2>3. L - (n + 1) + 1 = L - n /\ \A l \in 1..(L - n) : n + 1 + l - 1 = n + l
    BY <1>1
  <2>4. d.stack \in Seq(Operands) /\ Len(d.stack) = L - n
    BY <1>1, <1>2, <2>2, <2>3
  <2> QED BY <1>2, <2>2, <2>3, <2>4
<1>4. \A i \in DOMAIN d.stack : d.stack[i].mode # "junk"
  <2> HIDE DEF L, ops
  <2>1. DOMAIN d.stack = 1..(L - n)
    BY <1>3, LenProperties
  <2>2. \A l \in 1..(L - n) : n + l \in 1..L
    BY <1>1
  <2> QED BY <1>1, <1>3, <2>1, <2>2
<1>5. SubSeq(d.stack, 0 + 1, Len(d.stack)) = d.stack /\ 0 \in 0..Len(d.stack)
  BY <1>3, SubSeqFull, LenProperties
<1>6. \E l \in 0..Len(d.stack) :
        /\ d.stack = SubSeq(d.stack, l + 1, Len(d.stack))
        /\ l = 0 => d.text = d.text
        /\ l > 0 /\ ~Mixes(d.stack) => d.text = Clean(FullMerge(Value(d), SubSeq(d.stack, 1, l)))
  BY <1>5
<1> HIDE DEF ops, L
<1>7. d.stack \in Seq(Operands) /\ \A x \in {d, d} : x = [text |-> x.text, stack |-> x.stack]
  BY <1>1, <1>3
<1> QED BY <1>1, <1>4, <1>6, <1>7 DEF StandsFor

LEMMA ReplicaInvFolds == ReplicaInv => FoldsUnseen
<1> SUFFICES ASSUME ReplicaInv, NEW s \in Sides, NEW k \in Keys \ Hidden,
                    NEW m \in 1..Len(data[s][k].stack),
                    ~Mixes(data[s][k].stack), repairs \/ ~Damaged(log, k)
             PROVE  Current(Folded(data[s][k], m)) = Read(s, k)
  BY DEF FoldsUnseen
<1> DEFINE d == data[s][k]
<1>1. repairs \in Repairing /\ LogInv
  BY DEF ReplicaInv
<1>2. \E g : StandsFor(d, g)
  <2>1. ~Damaged(log, k)
    BY <1>1, RepairedWhole
  <2>2. CASE s = "master"
    BY <2>1, <2>2 DEF ReplicaInv, Reflects
  <2>3. CASE s = "slave"
    <3>1. PICK n \in 0..Len(log) : Reflects(data["slave"], SubSeq(log, 1, n))
      BY DEF ReplicaInv
    <3>2. ~Damaged(SubSeq(log, 1, n), k)
      <4>1. log \in Seq(Batch(repairs)) /\ Len(log) \in Nat /\ DOMAIN log = 1..Len(log)
        BY <1>1, LogFacts
      <4>2. /\ SubSeq(log, 1, n) \in Seq(Batch(repairs))
            /\ Len(SubSeq(log, 1, n)) = IF 1 <= n THEN n - 1 + 1 ELSE 0
            /\ \A l \in 1..(n - 1 + 1) : SubSeq(log, 1, n)[l] = log[1 + l - 1]
        <5>1. 1 \in Int /\ n \in Int /\ 1 <= 1 /\ n <= Len(log)
          BY <4>1
        <5> QED BY <4>1, <5>1, PartIs
      <4>3. \A l \in DOMAIN SubSeq(log, 1, n) : l \in DOMAIN log /\ SubSeq(log, 1, n)[l] = log[l]
        <5>1. DOMAIN SubSeq(log, 1, n) = 1..n
          BY <4>1, <4>2, LenProperties
        <5>2. \A l \in 1..n : l \in 1..Len(log) /\ l \in 1..(n - 1 + 1) /\ 1 + l - 1 = l
          BY <4>1
        <5> QED BY <4>1, <4>2, <5>1, <5>2
      <4> QED BY <2>1, <4>3 DEF Damaged
    <3> QED BY <2>3, <3>1, <3>2 DEF Reflects
  <2> QED BY <2>2, <2>3 DEF Sides
<1> HIDE DEF d
<1>3. m \in 1..Len(d.stack) /\ ~Mixes(d.stack)
  BY DEF d
<1>4. StandsFor(d, d)
  BY <1>2, SelfStands
<1>5. StandsFor(Folded(d, m), d)
  BY <1>3, <1>4, FoldedStands
<1>6. Current(Folded(d, m)) = Whole(d) /\ Current(d) = Whole(d)
  BY <1>3, <1>4, <1>5, StandsForReads
<1> QED BY <1>6 DEF Read, d

\* When RocksDB flushes or compacts, and how many of the operands it gives to FullMergeV2
\* then, is not seen by a client, on the master or on the slave.
THEOREM FoldsAlwaysUnseen == SpecReplica => []FoldsUnseen
BY ReplicaAlways, ReplicaInvFolds, PTL
-----------------------------------------------------------------------------
(* The sequence numbers of the operations (SlaveReplication). *)

USE BoundsAssumption, ConfigAssumption, FaultsAssumption

\* A reply has the type of a response; with logs it starts and ends with
\* batches of the log and its first batch reaches the position asked for.
LEMMA ReplyFacts ==
  ASSUME TypeOK, BatchShape, NEW q \in Nat, NEW r \in Replies(q)
  PROVE  /\ r \in Response
         /\ ~r.empty => /\ 1 <= r.first /\ r.first <= r.cut /\ r.cut <= r.end
                        /\ r.end <= MaxSeq /\ q <= r.cut
<1>1. latest \in Nat /\ latest <= MaxSeq
  BY DEF TypeOK
<1>2. CASE q > latest \/ From(q) = {}
  <2>1. PICK st \in {"OK", "InvalidSeqNumber"} : r = NoLogs(st)
    BY <1>2 DEF Replies
  <2> QED BY <1>1, <2>1 DEF NoLogs, Response
<1>3. CASE ~(q > latest) /\ From(q) # {}
  <2>1. PICK b \in Page(From(q)), e \in Page(From(q)) :
           r = Logs(b, e) /\ b.first <= e.first
    BY <1>3 DEF Replies
  <2>2. b \in batches /\ e \in batches /\ b.last >= q
    BY <2>1 DEF Page, From
  <2>3. /\ b.first \in 1..latest /\ b.last \in 1..latest
        /\ e.first \in 1..latest /\ e.last \in 1..latest
    BY <2>2 DEF TypeOK
  <2>4. b.first <= b.last /\ b.last <= e.last
    BY <2>1, <2>2, <2>3 DEF BatchShape
  <2> QED BY <1>1, <2>1, <2>2, <2>3, <2>4 DEF Logs, Response
<1> QED BY <1>2, <1>3

\* Nothing is stored, requested or parsed at first.
LEMMA InitIndInv == Init => IndInv
<1> SUFFICES ASSUME Init PROVE IndInv
  OBVIOUS
<1>1. TypeOK
  <2>1. NoReply \in Response
    BY DEF Init, NoReply, NoLogs, Response
  <2> QED BY <2>1 DEF Init, TypeOK, Absent, Database, SnFile, NoFile, Inst, Seqs
<1>2. BatchShape /\ DataShape /\ ReplyShape /\ TodoShape /\ Unborn
  BY DEF Init, Unborn, BatchShape, DataShape, ReplyShape, TodoShape, Absent, NoReply, NoLogs
<1>3. Accounted /\ ParsedAccounted /\ ParserAtRequest
  BY DEF Init, Accounted, ParsedAccounted, ParserAtRequest, NoFile, Seqs
<1> QED BY <1>1, <1>2, <1>3 DEF IndInv

\* The master's steps touch nothing the slave accounts for.
LEMMA MasterStep ==
  ASSUME IndInv, (\E n \in 1..MaxBatch : MasterWrite(n)) \/ MasterPurge
  PROVE  IndInv'
<1> USE DEF IndInv
<1>1. UNCHANGED <<diskVars, instVars, auxVars>>
  BY DEF MasterWrite, MasterPurge
<1>2. TypeOK' /\ BatchShape'
  <2>1. CASE MasterPurge
    BY <2>1, <1>1 DEF MasterPurge, TypeOK, BatchShape, diskVars, instVars, auxVars
  <2>2. ASSUME NEW n \in 1..MaxBatch, MasterWrite(n) PROVE TypeOK' /\ BatchShape'
    <3>1. /\ latest \in Nat /\ latest' = latest + n /\ latest' <= MaxSeq /\ wal' = wal
          /\ batches' = batches \cup {[first |-> latest + 1, last |-> latest + n]}
      BY <2>2 DEF MasterWrite, TypeOK
    <3>2. \A b \in batches : b.first \in 1..latest /\ b.last \in 1..latest
      BY DEF TypeOK
    <3>3. batches' \subseteq [first : 1..latest', last : 1..latest']
      BY <3>1, <3>2 DEF TypeOK
    <3>4. BatchShape'
      BY <3>1, <3>2 DEF BatchShape
    <3> QED BY <1>1, <3>1, <3>3, <3>4 DEF TypeOK, diskVars, instVars, auxVars
  <2> QED BY <2>1, <2>2
<1>3. DataShape' /\ ReplyShape' /\ TodoShape' /\ ParserAtRequest' /\ Unborn'
  BY <1>1 DEF Unborn, DataShape, ReplyShape, TodoShape, ParserAtRequest, diskVars, instVars
<1>4. Accounted' /\ ParsedAccounted'
  BY <1>1 DEF Accounted, ParsedAccounted, Known, diskVars, instVars, auxVars
<1> QED BY <1>2, <1>3, <1>4
\* A step of a slave object's life that leaves the generators where they are or
\* ends them, and keeps what is known, keeps the invariant: what Start, Started,
\* Stop, Detach and Attach share.
LEMMA LifeFrame ==
  ASSUME IndInv, TypeOK', DataShape', Unborn', UNCHANGED <<masterVars, next, res, todo>>,
         \A s \in Seqs : Known(s) => Known(s)',
         \A s \in Seqs : s < file' \/ s < dfile' => Known(s)',
         \A i \in Inst : preq'[i] = preq[i] \/
            (next[i] = 0 /\ pc[i] = "idle" /\ \A s \in Seqs : s < preq'[i] => Known(s)'),
         \A i \in Inst : pc'[i] = pc[i] \/ pc'[i] = "gone"
  PROVE  IndInv'
<1> USE DEF IndInv
<1>1. BatchShape' /\ ReplyShape' /\ TodoShape'
  BY DEF BatchShape, ReplyShape, TodoShape, masterVars
<1>2. Accounted'
  BY DEF Accounted
<1>3. ParsedAccounted'
  BY DEF ParsedAccounted
<1>4. ParserAtRequest'
  BY DEF ParserAtRequest
<1> QED BY <1>1, <1>2, <1>3, <1>4

\* A new instance reads its position from a file that is accounted for, or
\* resumes after its own last number and passes over what it does not hold.
LEMMA StartStep == ASSUME IndInv, Start PROVE IndInv'
<1> USE DEF IndInv
<1> DEFINE k == cur + 1
           d == IF db.exists THEN db ELSE Fresh
<1>1. /\ k \in Inst /\ cur \in Nat /\ cur < MaxInst
      /\ cur' = k /\ db' = d
      /\ life' = [life EXCEPT ![k] = "starting"]
      /\ preq' = [preq EXCEPT ![k] = FirstSeq(ReadSn, d.seq)]
      /\ chance' = [chance EXCEPT ![k] = file = NoFile /\ dfile # NoFile]
      /\ unseen' = unseen \cup (IF ReadSn \in {0, NoFile} THEN (1..d.seq) \ d.ops ELSE {})
      /\ astray' \subseteq astray \cup {k}
      /\ UNCHANGED <<masterVars, file, dfile, shelf, pc, next, res, todo, lost>>
  BY DEF Start, TypeOK, Inst
<1>2. /\ d \in Database /\ d.ops = db.ops /\ d.exists
      /\ ReadSn \in SnFile
  BY DEF TypeOK, DataShape, Fresh, Database, ReadSn, Seqs
<1>3. FirstSeq(ReadSn, d.seq) \in Nat
  BY <1>2 DEF FirstSeq, SnFile, Database, Invalid, NoFile
<1>4. TypeOK'
  <2>1. unseen' \subseteq Nat \ {0}
    <3>1. d.seq \in Nat
      BY <1>2 DEF Database
    <3>2. \A x \in 1..d.seq : x \in Nat \ {0}
      BY <3>1
    <3>3. unseen' \subseteq unseen \cup 1..d.seq
      BY <1>1
    <3>4. unseen \subseteq Nat \ {0}
      BY DEF TypeOK
    <3> QED BY <3>2, <3>3, <3>4
  <2>2. preq' \in [Inst -> Nat] /\ chance' \in [Inst -> BOOLEAN]
    BY <1>1, <1>3 DEF TypeOK
  <2>3. life' \in [Inst -> {"none", "starting", "up", "stopped"}] /\ cur' \in 0..MaxInst
    BY <1>1 DEF TypeOK
  <2>4. db' \in Database
    BY <1>1, <1>2
  <2> HIDE DEF k, d
  <2> QED BY <1>1, <2>1, <2>2, <2>3, <2>4 DEF TypeOK, masterVars
<1>5. DataShape' /\ Unborn'
  <2>1. \A i \in Inst : life'[i] \in {"starting", "up"} => i = cur'
    BY <1>1 DEF DataShape, TypeOK, Start, Inst
  <2>2. shelf' = shelf /\ db'.exists
    BY <1>1, <1>2
  <2>3. Unborn'
    <3>1. /\ k \in Inst /\ cur' = k /\ life' = [life EXCEPT ![k] = "starting"] /\ cur < k
          /\ UNCHANGED <<pc, next>> /\ cur \in Nat /\ life \in [Inst -> {"none", "starting", "up", "stopped"}]
      BY <1>1 DEF TypeOK
    <3> HIDE DEF k, d
    <3> QED BY <3>1 DEF Unborn, Inst
  <2> HIDE DEF k, d
  <2> QED BY <2>1, <2>2, <2>3 DEF DataShape
<1>6. \A s \in Seqs : Known(s) => Known(s)'
  BY <1>1, <1>2 DEF Known
<1>7. \A s \in Seqs : s < file' \/ s < dfile' => Known(s)'
  BY <1>1, <1>6 DEF Accounted
<1>8. \A s \in Seqs : s < FirstSeq(ReadSn, d.seq) => Known(s)'
  <2> SUFFICES ASSUME NEW s \in Seqs, s < FirstSeq(ReadSn, d.seq) PROVE Known(s)'
    OBVIOUS
  <2>1. CASE ReadSn \in {0, NoFile}
    <3>1. s \in 1..d.seq
      BY <1>2, <2>1 DEF FirstSeq, Database, Seqs, Invalid, NoFile
    <3> QED BY <1>1, <2>1, <3>1 DEF Known
  <2>2. CASE ReadSn = Invalid
    BY <2>2 DEF FirstSeq, Seqs
  <2>3. CASE ReadSn \notin {0, NoFile, Invalid}
    <3>1. s < file \/ s < dfile
      BY <2>3 DEF FirstSeq, ReadSn
    <3> QED BY <1>1, <1>7, <3>1
  <2> QED BY <2>1, <2>2, <2>3
<1>9. \A i \in Inst : preq'[i] = preq[i] \/
         (next[i] = 0 /\ pc[i] = "idle" /\ \A s \in Seqs : s < preq'[i] => Known(s)')
  <2>1. k > cur
    BY <1>1
  <2> HIDE DEF k, d
  <2> QED BY <1>1, <1>3, <1>8, <2>1 DEF TypeOK, Unborn
<1>10. \A i \in Inst : pc'[i] = pc[i] \/ pc'[i] = "gone"
  BY <1>1
<1>11. UNCHANGED <<masterVars, next, res, todo>>
  BY <1>1
<1> HIDE DEF k, d, IndInv
<1> QED BY <1>4, <1>5, <1>6, <1>7, <1>9, <1>10, <1>11, LifeFrame

LEMMA StartedStep == ASSUME IndInv, Started PROVE IndInv'
<1> USE DEF IndInv
<1>1. TypeOK'
  BY DEF Started, TypeOK, masterVars, diskVars, auxVars
<1>2. DataShape' /\ Unborn'
  BY DEF Started, DataShape, Unborn, TypeOK, diskVars
<1>3. \A s \in Seqs : Known(s) => Known(s)'
  BY DEF Started, Known, diskVars, auxVars
<1>4. \A s \in Seqs : s < file' \/ s < dfile' => Known(s)'
  BY <1>3 DEF Started, Accounted, diskVars
<1>5. UNCHANGED <<masterVars, next, res, todo, preq, pc>>
  BY DEF Started
<1> HIDE DEF IndInv
<1> QED BY <1>1, <1>2, <1>3, <1>4, <1>5, LifeFrame

LEMMA StopStep == ASSUME IndInv, Stop PROVE IndInv'
<1> USE DEF IndInv
<1>1. TypeOK'
  BY DEF Stop, TypeOK, masterVars, diskVars, auxVars
<1>2. DataShape' /\ Unborn'
  BY DEF Stop, DataShape, Unborn, TypeOK, diskVars
<1>3. \A s \in Seqs : Known(s) => Known(s)'
  BY DEF Stop, Known, diskVars, auxVars
<1>4. \A s \in Seqs : s < file' \/ s < dfile' => Known(s)'
  BY <1>3 DEF Stop, Accounted, diskVars
<1>5. UNCHANGED <<masterVars, next, res, todo, preq>>
  BY DEF Stop
<1>6. \A i \in Inst : pc'[i] = pc[i] \/ pc'[i] = "gone"
  BY DEF Stop, TypeOK
<1> HIDE DEF IndInv
<1> QED BY <1>1, <1>2, <1>3, <1>4, <1>5, <1>6, LifeFrame

\* The database moves to the shelf as a whole, or stays.
LEMMA DetachStep == ASSUME IndInv, Detach PROVE IndInv'
<1> USE DEF IndInv
<1>1. TypeOK'
  <2>1. unseen' \subseteq Nat \ {0}
    <3>1. shelf.ops \subseteq Seqs /\ Seqs \subseteq Nat \ {0}
      BY DEF TypeOK, Database, Seqs
    <3>2. unseen' = unseen \cup (shelf.ops \ db.ops) /\ unseen \subseteq Nat \ {0}
      BY DEF Detach, TypeOK
    <3> HIDE DEF IndInv
    <3> QED BY <3>1, <3>2
  <2>2. dfile' \in SnFile /\ file' \in SnFile /\ db' \in Database /\ shelf' \in Database
    BY DEF Detach, TypeOK, Absent, Database, SnFile
  <2> QED BY <2>1, <2>2 DEF Detach, TypeOK, masterVars
<1>2. DataShape' /\ Unborn'
  BY DEF Detach, DataShape, Unborn, TypeOK, Absent
<1>3. \A s \in Seqs : Known(s) => Known(s)'
  BY DEF Detach, Known, DataShape, Absent, TypeOK, Database
<1>4. \A s \in Seqs : s < file' \/ s < dfile' => Known(s)'
  BY <1>3 DEF Detach, Accounted, NoFile, Seqs
<1>5. UNCHANGED <<masterVars, next, res, todo, preq>>
  BY DEF Detach
<1>6. \A i \in Inst : pc'[i] = pc[i] \/ pc'[i] = "gone"
  BY DEF Detach, TypeOK
<1> HIDE DEF IndInv
<1> QED BY <1>1, <1>2, <1>3, <1>4, <1>5, <1>6, LifeFrame

\* The database moves back as a whole.
LEMMA AttachStep == ASSUME IndInv, Attach PROVE IndInv'
<1> USE DEF IndInv
<1>1. TypeOK'
  BY DEF Attach, TypeOK, masterVars, instVars, auxVars, Absent, Database, Seqs
<1>2. DataShape' /\ Unborn'
  BY DEF Attach, DataShape, Unborn, TypeOK, Absent, instVars
<1>3. \A s \in Seqs : Known(s) => Known(s)'
  BY DEF Attach, Known, DataShape, Absent, auxVars
<1>4. \A s \in Seqs : s < file' \/ s < dfile' => Known(s)'
  BY <1>3 DEF Attach, Accounted
<1>5. UNCHANGED <<masterVars, next, res, todo, preq, pc>>
  BY DEF Attach, instVars
<1> HIDE DEF IndInv
<1> QED BY <1>1, <1>2, <1>3, <1>4, <1>5, LifeFrame

\* A crash leaves the file as it was or empty, and nothing in memory.
LEMMA CrashStep == ASSUME IndInv, Crash PROVE IndInv'
<1> USE DEF IndInv
<1>1. /\ file' = file \/ file' = 0
      /\ life' = [i \in Inst |-> IF i <= cur THEN "stopped" ELSE life[i]]
      /\ pc' = [i \in Inst |-> IF i <= cur THEN "gone" ELSE pc[i]]
      /\ UNCHANGED <<masterVars, dfile, db, shelf, cur, auxVars>>
  BY DEF Crash
<1>2. /\ preq' = [i \in Inst |-> 0] /\ chance' = [i \in Inst |-> FALSE]
      /\ next' = [i \in Inst |-> 0] /\ res' = [i \in Inst |-> NoReply]
      /\ todo' = [i \in Inst |-> [lo |-> 1, hi |-> 0]]
  BY DEF Crash, ForgetAll
<1>3. TypeOK'
  <2>1. NoReply \in Response
    BY DEF NoReply, NoLogs, Response, TypeOK
  <2>2. life' \in [Inst -> {"none", "starting", "up", "stopped"}]
    BY <1>1 DEF TypeOK
  <2>3. pc' \in [Inst -> {"idle", "wait", "reply", "marked", "written", "gone"}]
    BY <1>1 DEF TypeOK
  <2> QED BY <1>1, <1>2, <2>1, <2>2, <2>3 DEF TypeOK, masterVars, auxVars, SnFile
<1>4. \A i \in Inst : pc'[i] \in {"idle", "gone"}
  BY <1>1 DEF Unborn, TypeOK, Inst
<1>5. BatchShape' /\ ReplyShape' /\ TodoShape' /\ ParserAtRequest'
  BY <1>1, <1>2, <1>4 DEF BatchShape, ReplyShape, TodoShape, ParserAtRequest, masterVars
<1>6. DataShape' /\ Unborn'
  BY <1>1, <1>2 DEF DataShape, Unborn, TypeOK, Inst
<1>7. Accounted' /\ ParsedAccounted'
  BY <1>1, <1>2 DEF Accounted, ParsedAccounted, Known, Seqs, auxVars
<1> QED BY <1>3, <1>5, <1>6, <1>7

-----------------------------------------------------------------------------
\* The steps of a generator that only wait, give up or ask again.
LEMMA WaitStep ==
  ASSUME IndInv, NEW i \in Inst, Tick(i) \/ ServeNotFound(i) \/ RetryFromZero(i) \/ GiveUp(i)
  PROVE  IndInv'
<1> USE DEF IndInv
<1>1. /\ UNCHANGED <<masterVars, diskVars, cur, life, next, todo, lost, unseen>>
      /\ astray' \subseteq astray \cup {i}
      /\ pc[i] \in {"idle", "wait", "reply"}
      /\ \A j \in Inst : j # i => res'[j] = res[j]
  BY DEF Tick, ServeNotFound, RetryFromZero, GiveUp, TypeOK, auxVars
<1>2. TypeOK'
  <2>0. NoReply \in Response
    BY DEF NoReply, NoLogs, Response, TypeOK
  <2>4. res' \in [Inst -> Response]
    BY <2>0 DEF TypeOK, Tick, ServeNotFound, RetryFromZero, GiveUp
  <2>1. preq' \in [Inst -> Nat]
    BY DEF TypeOK, Tick, ServeNotFound, RetryFromZero, GiveUp
  <2>2. chance' \in [Inst -> BOOLEAN]
    BY DEF TypeOK, Tick, ServeNotFound, RetryFromZero, GiveUp
  <2>3. pc' \in [Inst -> {"idle", "wait", "reply", "marked", "written", "gone"}]
    BY DEF TypeOK, Tick, ServeNotFound, RetryFromZero, GiveUp, Rest
  <2> QED BY <1>1, <2>1, <2>2, <2>3, <2>4 DEF TypeOK, masterVars, diskVars, auxVars
<1>3. BatchShape' /\ DataShape'
  BY <1>1 DEF BatchShape, DataShape, masterVars, diskVars
<1>4. \A j \in Inst : /\ j # i => pc'[j] = pc[j] /\ preq'[j] = preq[j]
                      /\ pc'[i] \in {"idle", "wait", "gone"}
                      /\ preq'[i] \in {0, preq[i]}
  BY DEF TypeOK, Tick, ServeNotFound, RetryFromZero, GiveUp, Rest
<1>5. ReplyShape' /\ TodoShape' /\ ParserAtRequest'
  BY <1>1, <1>4 DEF ReplyShape, TodoShape, ParserAtRequest
<1>6. \A s \in Seqs : Known(s) => Known(s)'
  BY <1>1 DEF Known, diskVars, auxVars
<1>7. Accounted'
  BY <1>1, <1>4, <1>6 DEF Accounted, Seqs, diskVars
<1>8. ParsedAccounted'
  BY <1>1, <1>4, <1>6 DEF ParsedAccounted
<1>9. Unborn'
  <2>1. i <= cur
    BY DEF Tick, ServeNotFound, RetryFromZero, GiveUp, Running, Unborn, TypeOK, Inst
  <2>2. \A j \in Inst : j > cur => j # i
    BY <2>1 DEF TypeOK, Inst
  <2>3. UNCHANGED <<cur, life, next>>
    BY <1>1
  <2> QED BY <1>4, <2>2, <2>3 DEF Unborn
<1> QED BY <1>2, <1>3, <1>5, <1>7, <1>8, <1>9

\* The answer has the shape of the log it is read from.
LEMMA ServeStep == ASSUME IndInv, NEW i \in Inst, Serve(i) PROVE IndInv'
<1> USE DEF IndInv
<1>1. PICK r \in Replies(preq[i]) : res' = [res EXCEPT ![i] = r]
  BY DEF Serve
<1>2. /\ pc[i] = "wait" /\ pc' = [pc EXCEPT ![i] = "reply"]
      /\ UNCHANGED <<masterVars, diskVars, cur, life, preq, chance, next, todo, auxVars>>
  BY DEF Serve
<1>3. /\ r \in Response
      /\ ~r.empty => /\ 1 <= r.first /\ r.first <= r.cut /\ r.cut <= r.end
                     /\ r.end <= MaxSeq /\ preq[i] <= r.cut
  <2>1. preq[i] \in Nat
    BY DEF TypeOK
  <2> QED BY <1>1, <2>1, ReplyFacts
<1>4. TypeOK'
  BY <1>1, <1>2, <1>3 DEF TypeOK, masterVars, diskVars, auxVars
<1>5. BatchShape' /\ DataShape'
  BY <1>2 DEF BatchShape, DataShape, masterVars, diskVars
<1>6. ReplyShape'
  BY <1>1, <1>2, <1>3 DEF ReplyShape, TypeOK
<1>7. TodoShape' /\ ParserAtRequest'
  BY <1>2 DEF TodoShape, ParserAtRequest, TypeOK
<1>8. Accounted' /\ ParsedAccounted'
  BY <1>2 DEF Accounted, ParsedAccounted, Known, TypeOK, diskVars, auxVars
<1>9. Unborn'
  BY <1>2 DEF Unborn, TypeOK, Inst
<1> QED BY <1>4, <1>5, <1>6, <1>7, <1>8, <1>9

\* The gap before the first batch is counted or passed over; within the logs the
\* parser keeps what it did not parse before.
LEMMA AcceptStep == ASSUME IndInv, NEW i \in Inst, Accept(i) PROVE IndInv'
<1> USE DEF IndInv
<1> DEFINE r == res[i]
           lo == FirstKept(r, next[i])
<1>1. /\ pc[i] = "reply" /\ ~r.empty
      /\ pc' = [pc EXCEPT ![i] = "marked"]
      /\ todo' = [todo EXCEPT ![i] = [lo |-> lo, hi |-> r.end]]
      /\ next' = [next EXCEPT ![i] = r.end + 1]
      /\ file' = Invalid
      /\ UNCHANGED <<masterVars, dfile, db, shelf, cur, life, preq, chance, res, astray>>
  BY DEF Accept, MarkFile
<1>2. IF preq[i] # 0
        THEN lost' = lost \cup (preq[i]..(r.first - 1)) /\ unseen' = unseen
        ELSE lost' = lost /\ unseen' = unseen \cup ((1..(r.first - 1)) \ db.ops)
  BY DEF Accept, MarkFile
<1>3. /\ r.first \in Nat /\ r.cut \in Nat /\ r.end \in Nat
      /\ next[i] \in Nat /\ preq[i] \in Nat /\ MaxSeq \in Nat
      /\ 1 <= r.first /\ r.first <= r.cut /\ r.cut <= r.end /\ r.end <= MaxSeq
  BY <1>1 DEF ReplyShape, TypeOK, Response
<1>4. lo \in Nat \ {0} /\ (lo <= next[i] \/ lo = r.first) /\ r.first <= lo
  BY <1>3 DEF FirstKept
<1> HIDE DEF lo, r
<1>5. lost' \subseteq Seqs /\ lost \subseteq lost' /\ unseen \subseteq unseen'
      /\ unseen' \subseteq Nat \ {0}
  <2>1. preq[i] # 0 => preq[i]..(r.first - 1) \subseteq Seqs
    BY <1>3 DEF Seqs
  <2>2. 1..(r.first - 1) \subseteq Nat \ {0}
    BY <1>3
  <2> QED BY <1>2, <2>1, <2>2 DEF TypeOK
<1>6. TypeOK'
  <2>1. todo' \in [Inst -> [lo : Nat \ {0}, hi : Nat]] /\ next' \in [Inst -> Nat]
    BY <1>1, <1>3, <1>4 DEF TypeOK
  <2> QED BY <1>1, <1>5, <2>1 DEF TypeOK, masterVars, SnFile
<1>7. BatchShape' /\ DataShape' /\ ReplyShape' /\ ParserAtRequest'
  BY <1>1 DEF BatchShape, DataShape, ReplyShape, ParserAtRequest, masterVars, TypeOK
<1>8. TodoShape'
  BY <1>1, <1>3 DEF TodoShape, TypeOK
<1>9. \A s \in Seqs : Known(s) => Known(s)'
  BY <1>1, <1>5 DEF Known
<1>10. Accounted'
  BY <1>1, <1>9 DEF Accounted, Invalid, Seqs
<1>11. \A s \in Seqs : s < r.first => Known(s)'
  <2> SUFFICES ASSUME NEW s \in Seqs, s < r.first PROVE Known(s)'
    OBVIOUS
  <2>1. CASE preq[i] # 0 /\ s >= preq[i]
    BY <1>2, <1>3, <2>1 DEF Known, Seqs
  <2>2. CASE preq[i] # 0 /\ s < preq[i]
    BY <1>9, <2>2 DEF Accounted
  <2>3. CASE preq[i] = 0
    <3>1. s \in 1..(r.first - 1)
      BY <1>3 DEF Seqs
    <3> QED BY <1>1, <1>2, <2>3, <3>1 DEF Known
  <2> QED BY <1>3, <2>1, <2>2, <2>3 DEF Seqs
<1>12. ParsedAccounted'
  <2> SUFFICES ASSUME NEW j \in Inst, NEW s \in Seqs, pc'[j] # "gone", s < next'[j]
               PROVE  Known(s)' \/ (pc'[j] = "marked" /\ s \in todo'[j].lo..todo'[j].hi)
    BY DEF ParsedAccounted
  <2>1. CASE j # i
    BY <1>1, <1>9, <2>1 DEF ParsedAccounted, TypeOK
  <2>2. CASE j = i
    <3>1. s <= r.end /\ pc'[i] = "marked" /\ todo'[i].lo = lo /\ todo'[i].hi = r.end
      BY <1>1, <1>3, <2>2 DEF TypeOK, Seqs
    <3>2. CASE s >= lo
      BY <1>4, <2>2, <3>1, <3>2 DEF Seqs
    <3>3. CASE s < lo /\ s < next[i]
      BY <1>1, <1>9, <3>3 DEF ParsedAccounted
    <3>4. CASE s < lo /\ lo = r.first
      BY <1>11, <3>4
    <3> QED BY <1>3, <1>4, <3>2, <3>3, <3>4 DEF Seqs
  <2> QED BY <2>1, <2>2
<1>13. Unborn'
  BY <1>1 DEF Unborn, TypeOK, Inst
<1> QED BY <1>6, <1>7, <1>8, <1>10, <1>12, <1>13

\* The batch reaches the database, or is recorded as passed over.
LEMMA WriteStep == ASSUME IndInv, NEW i \in Inst, WriteBatch(i) PROVE IndInv'
<1> USE DEF IndInv
<1> DEFINE T == todo[i].lo..todo[i].hi
<1>1. /\ pc[i] = "marked" /\ pc' = [pc EXCEPT ![i] = "written"]
      /\ UNCHANGED <<masterVars, file, dfile, shelf, cur, life, preq, chance, next, res, todo, lost,
                     astray>>
  BY DEF WriteBatch
<1>2. \/ life[i] = "up" /\ db' = Written(db, todo[i].lo, todo[i].hi) /\ unseen' = unseen
      \/ db' = db /\ unseen' = unseen \cup (T \ db.ops)
  BY DEF WriteBatch
<1>3. /\ T \subseteq Seqs /\ todo[i].lo \in Nat \ {0} /\ todo[i].hi \in Nat
  BY <1>1 DEF TodoShape, TypeOK, Seqs
<1>4. db' \in Database /\ unseen' \subseteq Nat \ {0}
  <2>1. CASE db' = Written(db, todo[i].lo, todo[i].hi) /\ unseen' = unseen
    <3>1. Size(todo[i].lo, todo[i].hi) \in Nat
      BY <1>3 DEF Size
    <3> QED BY <1>3, <2>1, <3>1 DEF Written, Database, TypeOK
  <2>2. CASE db' = db /\ unseen' = unseen \cup (T \ db.ops)
    <3>1. T \subseteq Nat \ {0}
      BY <1>3 DEF Seqs
    <3> HIDE DEF T
    <3> QED BY <2>2, <3>1 DEF TypeOK
  <2> QED BY <1>2, <2>1, <2>2
<1>5. /\ db.ops \subseteq db'.ops /\ unseen \subseteq unseen' /\ db'.exists = db.exists
      /\ T \subseteq db'.ops \cup unseen'
      /\ db'.ops = db.ops \/ life[i] = "up"
  BY <1>2 DEF Written
<1>6. TypeOK'
  BY <1>1, <1>4 DEF TypeOK, masterVars
<1>7. BatchShape' /\ ReplyShape' /\ TodoShape' /\ ParserAtRequest'
  BY <1>1 DEF BatchShape, ReplyShape, TodoShape, ParserAtRequest, masterVars, TypeOK
<1>8. DataShape'
  BY <1>1, <1>5 DEF DataShape, TypeOK
<1>9. \A s \in Seqs : Known(s) \/ s \in T => Known(s)'
  BY <1>1, <1>5 DEF Known
<1>10. Accounted'
  BY <1>1, <1>9 DEF Accounted
<1>11. ParsedAccounted'
  BY <1>1, <1>9 DEF ParsedAccounted, TypeOK
<1>12. Unborn'
  BY <1>1 DEF Unborn, TypeOK, Inst
<1> QED BY <1>6, <1>7, <1>8, <1>10, <1>11, <1>12

\* The number stored is the parser's position, and the batch is written.
LEMMA SaveStep == ASSUME IndInv, NEW i \in Inst, SaveSn(i) PROVE IndInv'
<1> USE DEF IndInv
<1>1. /\ pc[i] = "written" /\ file' = todo[i].hi + 1
      /\ preq' = [preq EXCEPT ![i] = todo[i].hi + 1]
      /\ res' = [res EXCEPT ![i] = NoReply]
      /\ UNCHANGED <<masterVars, dfile, db, shelf, cur, life, chance, next, todo, auxVars>>
  BY DEF SaveSn, NextSn
<1>2. PICK v \in {"idle", "wait", "gone"} : pc' = [pc EXCEPT ![i] = v]
  BY DEF SaveSn, Rest
<1>3. todo[i].hi \in Nat /\ todo[i].hi + 1 = next[i] /\ next[i] \in Nat
  BY <1>1 DEF TodoShape, TypeOK
<1>4. TypeOK'
  <2>1. pc' \in [Inst -> {"idle", "wait", "reply", "marked", "written", "gone"}]
    BY <1>2 DEF TypeOK
  <2>2. NoReply \in Response
    BY DEF NoReply, NoLogs, Response, TypeOK
  <2>3. res' \in [Inst -> Response]
    BY <1>1, <2>2 DEF TypeOK
  <2> QED BY <1>1, <1>3, <2>1, <2>3 DEF TypeOK, masterVars, auxVars, SnFile
<1>5. \A j \in Inst : /\ j # i => pc'[j] = pc[j] /\ preq'[j] = preq[j]
                      /\ pc'[i] \in {"idle", "wait", "gone"}
                      /\ preq'[i] = next[i] /\ (j # i => res'[j] = res[j])
  BY <1>1, <1>2, <1>3 DEF TypeOK
<1>6. BatchShape' /\ DataShape'
  BY <1>1 DEF BatchShape, DataShape, masterVars
<1>7. ReplyShape' /\ TodoShape' /\ ParserAtRequest'
  BY <1>1, <1>5 DEF ReplyShape, TodoShape, ParserAtRequest
<1>8. \A s \in Seqs : Known(s) => Known(s)'
  BY <1>1 DEF Known, auxVars
<1>9. \A s \in Seqs : s < next[i] => Known(s)
  BY <1>1 DEF ParsedAccounted
<1>10. Accounted'
  BY <1>1, <1>3, <1>5, <1>8, <1>9 DEF Accounted
<1>11. ParsedAccounted'
  BY <1>1, <1>5, <1>8, <1>9 DEF ParsedAccounted
<1>12. Unborn'
  <2>1. i <= cur
    BY <1>1 DEF Unborn, TypeOK, Inst
  <2> QED BY <1>1, <1>5, <2>1 DEF Unborn, TypeOK, Inst
<1> QED BY <1>4, <1>6, <1>7, <1>10, <1>11, <1>12

-----------------------------------------------------------------------------
\* No step breaks the invariant.
LEMMA NextIndInv == IndInv /\ [Next]_vars => IndInv'
<1> SUFFICES ASSUME IndInv, [Next]_vars PROVE IndInv'
  OBVIOUS
<1>1. CASE (\E n \in 1..MaxBatch : MasterWrite(n)) \/ MasterPurge
  BY <1>1, MasterStep
<1>2. CASE Start
  BY <1>2, StartStep
<1>3. CASE Started
  BY <1>3, StartedStep
<1>4. CASE Stop
  BY <1>4, StopStep
<1>5. CASE Detach
  BY <1>5, DetachStep
<1>6. CASE Attach
  BY <1>6, AttachStep
<1>7. CASE Crash
  BY <1>7, CrashStep
<1>8. ASSUME NEW i \in Inst, Generator(i) PROVE IndInv'
  <2>1. CASE Tick(i) \/ ServeNotFound(i) \/ RetryFromZero(i) \/ GiveUp(i)
    BY <2>1, WaitStep
  <2>2. CASE Serve(i)
    BY <2>2, ServeStep
  <2>3. CASE Accept(i)
    BY <2>3, AcceptStep
  <2>4. CASE WriteBatch(i)
    BY <2>4, WriteStep
  <2>5. CASE SaveSn(i)
    BY <2>5, SaveStep
  <2> QED BY <1>8, <2>1, <2>2, <2>3, <2>4, <2>5 DEF Generator
<1>9. CASE UNCHANGED vars
  BY <1>9 DEF vars, masterVars, diskVars, instVars, auxVars, IndInv, TypeOK, Unborn,
              BatchShape, DataShape, ReplyShape, TodoShape, Accounted, ParsedAccounted,
              ParserAtRequest, Known
<1> QED BY <1>1, <1>2, <1>3, <1>4, <1>5, <1>6, <1>7, <1>8, <1>9 DEF Next

\* The inductive invariant holds in every reachable state.
THEOREM Invariance == Spec => []IndInv
<1> QED BY InitIndInv, NextIndInv, PTL DEF Spec

\* Every variable keeps its type.
THEOREM TypeCorrect == Spec => []TypeOK
<1>1. IndInv => TypeOK
  BY DEF IndInv
<1> QED BY <1>1, Invariance, PTL

\* Whatever stops, crashes, detaches, purges or fails, the slave passes over an
\* operation only in the ways Accounted lists.
THEOREM NothingPassedOverSilently == Spec => []Accounted
<1>1. IndInv => Accounted
  BY DEF IndInv
<1> QED BY <1>1, Invariance, PTL

\* Within one session the generator never parses an operation again, unless it
\* asked for sequence number 0.
THEOREM SessionParsesForward == Spec => ParsesForward
<1> DEFINE Step == \A i \in Inst : pc[i] = "reply" /\ pc'[i] = "marked" /\ preq[i] # 0
                     => todo'[i].lo >= next[i]
<1>1. ASSUME IndInv, [Next]_vars PROVE [Step]_vars
  <2> SUFFICES ASSUME Next, NEW i \in Inst, pc[i] = "reply", pc'[i] = "marked", preq[i] # 0
               PROVE  todo'[i].lo >= next[i]
    BY <1>1
  <2>1. Accept(i)
    <3>1. ASSUME NEW j \in Inst, Generator(j) PROVE Accept(i)
      <4>1. j = i
        BY <3>1, <1>1 DEF Generator, Tick, Serve, ServeNotFound, RetryFromZero, GiveUp, Accept,
                   WriteBatch, SaveSn, IndInv, TypeOK
      <4> QED BY <3>1, <4>1, <1>1 DEF Generator, Tick, Serve, ServeNotFound, RetryFromZero,
                   GiveUp, Rest, WriteBatch, SaveSn, IndInv, TypeOK
    <3>2. CASE ~\E j \in Inst : Generator(j)
      BY <3>2, <1>1 DEF Next, MasterWrite, MasterPurge, Start, Started, Stop, Detach, Attach,
                Crash, ForgetAll, instVars, IndInv, TypeOK
    <3> QED BY <3>1, <3>2
  <2>2. /\ preq[i] \in Nat /\ next[i] \in Nat /\ res[i].first \in Nat /\ res[i].cut \in Nat
        /\ todo'[i].lo = FirstKept(res[i], next[i])
        /\ preq[i] <= res[i].cut /\ (next[i] = 0 \/ next[i] = preq[i])
    BY <2>1, <1>1 DEF Accept, IndInv, TypeOK, Response, ReplyShape, ParserAtRequest
  <2> QED BY <2>2 DEF FirstKept
<1>2. Spec => [][Step]_vars
  BY <1>1, Invariance, PTL DEF Spec
<1> QED BY <1>2 DEF ParsesForward
-----------------------------------------------------------------------------
(* A session that nothing stops. *)

Undisturbed == Faults \subseteq {"purge"}

\* What both lemmas about steps say: the session goes on, and the step is one of ReplicaLog.
Kept == Session' /\ [Promise!Next]_(Promise!vars)

LEMMA InitSession == Init => Session /\ Promise!Init
<1> SUFFICES ASSUME Init PROVE Session /\ Promise!Init
  OBVIOUS
<1>1. Session
  BY DEF Init, Session, Contiguous, OneSession, InStep, Absent, Inst
<1> QED BY <1>1 DEF Init, Promise!Init, Absent

\* The first object is in the set of instances, and nothing runs of another.
LEMMA OnlyOne ==
  ASSUME IndInv, OneSession, Undisturbed, NEW i \in Inst, Generator(i)
  PROVE  i = 1 /\ cur = 1 /\ life[1] = "up"
<1>1. pc[i] = "idle" => Running(i)
  BY DEF Generator, Tick, Serve, ServeNotFound, RetryFromZero, GiveUp, Accept, WriteBatch, SaveSn
<1>2. i > cur => pc[i] = "idle" /\ life[i] = "none"
  BY DEF IndInv, Unborn
<1>3. Running(i) => life[i] = "up"
  BY DEF Running, Undisturbed
<1>4. i \in Nat \ {0} /\ cur \in {0, 1} /\ ~(i > cur)
  BY <1>1, <1>2, <1>3 DEF Inst, OneSession
<1> QED BY <1>1, <1>3, <1>4 DEF OneSession

\* A reply starts with a batch of the log and ends with one.
LEMMA ReplyEnds ==
  ASSUME NEW q, NEW r \in Replies(q), ~r.empty
  PROVE  /\ \E b \in batches : r.first = b.first
         /\ \E e \in batches : r.end = e.last
<1>1. PICK b \in Page(From(q)), e \in Page(From(q)) : r = Logs(b, e)
  BY DEF Replies, NoLogs
<1> QED BY <1>1 DEF Page, From, Logs

\* A step that changes neither the log of batches nor what the slave has or counts.
LEMMA Stutters ==
  ASSUME UNCHANGED <<batches, db, lost>> PROVE UNCHANGED Promise!vars
BY DEF Promise!vars

\* Without a gap, whatever the master writes next.
LEMMA ContiguousGrows ==
  ASSUME TypeOK, Contiguous, NEW n \in 1..MaxBatch, MasterWrite(n) PROVE Contiguous'
<1> DEFINE b == [first |-> latest + 1, last |-> latest + n]
<1>1. /\ latest \in Nat /\ latest' = latest + n /\ n \in Nat
      /\ batches' = batches \cup {b} /\ b.first = latest + 1 /\ b.last = latest + n
  BY DEF MasterWrite, TypeOK
<1>2. \A c \in batches : c.first = 1 \/ \E a \in batches' : a.last = c.first - 1
  BY <1>1 DEF Contiguous
<1>3. b.first = 1 \/ \E a \in batches' : a.last = b.first - 1
  <2>1. CASE latest = 0
    BY <2>1, <1>1
  <2>2. CASE latest # 0
    <3>1. PICK a \in batches : a.last = latest
      BY <2>2 DEF Contiguous
    <3>2. b.first - 1 = latest
      BY <1>1
    <3> QED BY <1>1, <3>1, <3>2
  <2> QED BY <2>1, <2>2
<1>4. b \in batches' /\ b.last = latest' /\ \A c \in batches' : c \in batches \/ c = b
  BY <1>1
<1> HIDE DEF b
<1> QED BY <1>2, <1>3, <1>4 DEF Contiguous

LEMMA WriteKeeps ==
  ASSUME IndInv, Session, NEW n \in 1..MaxBatch, MasterWrite(n)
  PROVE  Kept
<1> DEFINE b == [first |-> latest + 1, last |-> latest + n]
<1>1. /\ latest \in Nat /\ latest' = latest + n /\ latest + n <= MaxSeq /\ n \in Nat /\ n >= 1
      /\ batches' = batches \cup {b} /\ b.first = latest + 1 /\ b.last = latest + n
      /\ UNCHANGED <<wal, diskVars, instVars, auxVars>>
  BY DEF MasterWrite, IndInv, TypeOK
<1>2. \A c \in batches : c.last \in Nat /\ c.last <= latest
  BY <1>1 DEF IndInv, TypeOK
<1>3. Contiguous'
  BY ContiguousGrows DEF IndInv, Session
<1>4. OneSession' /\ InStep'
  BY <1>1 DEF Session, OneSession, InStep, Position, diskVars, instVars, auxVars
<1>5. Promise!MasterBatch
  <2>1. latest + n \in Seqs
    BY <1>1 DEF Seqs
  <2>2. {c.last : c \in batches'} = {c.last : c \in batches} \cup {latest + n}
    BY <1>1
  <2>3. \A f \in {c.last : c \in batches} : f < latest + n
    BY <1>1, <1>2
  <2>4. UNCHANGED <<db, lost>>
    BY <1>1 DEF diskVars, auxVars
  <2> QED BY <2>1, <2>2, <2>3, <2>4 DEF Promise!MasterBatch
<1> QED BY <1>3, <1>4, <1>5 DEF Kept, Session, Promise!Next

LEMMA PurgeKeeps ==
  ASSUME Session, MasterPurge PROVE Kept
<1>1. UNCHANGED <<latest, batches, diskVars, instVars, auxVars>>
  BY DEF MasterPurge
<1>2. Session'
  BY <1>1 DEF Session, Contiguous, OneSession, InStep, Position, diskVars, instVars, auxVars
<1> QED BY <1>1, <1>2, Stutters DEF Kept, diskVars, auxVars

\* The database that a session starts with is empty.
LEMMA StartKeeps ==
  ASSUME IndInv, Session, Start PROVE Kept
<1>1. cur = 0 /\ 1 \in Inst
  BY DEF Start, Session, OneSession, Inst
<1>2. /\ db = Absent /\ file = NoFile /\ dfile = NoFile /\ lost = {} /\ unseen = {}
  BY <1>1 DEF Session, OneSession, InStep
<1>3. ReadSn = NoFile /\ FirstSeq(NoFile, 0) = 1
  BY <1>2 DEF ReadSn, FirstSeq, NoFile, Invalid
<1>f. (IF db.exists THEN db ELSE Fresh) = Fresh /\ Fresh.seq = 0
      /\ (1..0) \ Fresh.ops = {} /\ cur + 1 = 1
  BY <1>1, <1>2 DEF Absent, Fresh
<1>4. /\ cur' = 1 /\ db' = Fresh
      /\ life' = [life EXCEPT ![1] = "starting"]
      /\ preq' = [preq EXCEPT ![1] = 1]
      /\ chance' = [chance EXCEPT ![1] = FALSE]
      /\ unseen' = unseen
      /\ UNCHANGED <<masterVars, file, dfile, shelf, pc, next, res, todo, lost>>
  BY <1>2, <1>3, <1>f DEF Start
<1>5. pc[1] = "idle" /\ next[1] = 0
  BY <1>1 DEF IndInv, Unborn
<1>6. /\ life \in [Inst -> {"none", "starting", "up", "stopped"}]
      /\ preq \in [Inst -> Nat] /\ chance \in [Inst -> BOOLEAN]
  BY DEF IndInv, TypeOK
<1>7. Contiguous' /\ OneSession'
  BY <1>1, <1>2, <1>4, <1>5, <1>6 DEF Session, Contiguous, OneSession, masterVars
<1>8. InStep'
  <2>1. preq'[1] = 1 /\ Position' = 1
    BY <1>1, <1>4, <1>5, <1>6 DEF Position
  <2>2. db'.ops = {} /\ db'.twice = {} /\ lost' = {}
    BY <1>2, <1>4 DEF Fresh
  <2>3. \A s \in Seqs : ~(s < 1)
    BY DEF Seqs
  <2> QED BY <1>2, <1>4, <1>5, <2>1, <2>2, <2>3 DEF InStep
<1>9. UNCHANGED Promise!vars
  BY <1>2, <1>4 DEF Promise!vars, masterVars, Absent, Fresh
<1> QED BY <1>7, <1>8, <1>9 DEF Kept, Session

LEMMA StartedKeeps ==
  ASSUME IndInv, Session, Started PROVE Kept
<1>0. cur = 1 /\ 1 \in Inst
  BY DEF Started, Session, OneSession, Inst
<1>1. /\ life \in [Inst -> {"none", "starting", "up", "stopped"}]
      /\ life' = [life EXCEPT ![1] = "up"]
      /\ UNCHANGED <<masterVars, diskVars, cur, pc, preq, chance, next, res, todo, auxVars>>
  BY <1>0 DEF Started, IndInv, TypeOK
<1>2. Contiguous' /\ OneSession' /\ InStep'
  BY <1>0, <1>1 DEF Session, Contiguous, OneSession, InStep, Position, masterVars, diskVars, auxVars
<1> QED BY <1>1, <1>2, Stutters DEF Kept, Session, masterVars, diskVars, auxVars

\* Steps that ask, are answered, or give up.
LEMMA AskKeeps ==
  ASSUME IndInv, Session, Undisturbed, NEW i \in Inst, Generator(i),
         Tick(i) \/ Serve(i) \/ ServeNotFound(i) \/ RetryFromZero(i) \/ GiveUp(i)
  PROVE  Kept
<1>1. i = 1 /\ cur = 1 /\ life[1] = "up" /\ ~chance[1]
  BY OnlyOne DEF Session, OneSession
<1>2. /\ pc \in [Inst -> {"idle", "wait", "reply", "marked", "written", "gone"}]
      /\ res \in [Inst -> Response] /\ preq \in [Inst -> Nat]
  BY DEF IndInv, TypeOK
<1>3. /\ UNCHANGED <<masterVars, diskVars, cur, life, preq, chance, next, todo, auxVars>>
      /\ pc[1] \in {"idle", "wait", "reply"} /\ pc'[1] \in {"idle", "wait", "reply"}
  BY <1>1, <1>2 DEF Tick, Serve, ServeNotFound, RetryFromZero, GiveUp, Rest, Undisturbed
<1>4. pc'[1] = "reply" => res'[1] \in Replies(preq[1])
  BY <1>1, <1>2 DEF Tick, Serve, ServeNotFound, RetryFromZero, GiveUp, Rest, Undisturbed
<1>5. pc'[1] = "reply" /\ ~res'[1].empty =>
        /\ \E b \in batches : res'[1].first = b.first
        /\ \E e \in batches : res'[1].end = e.last
  BY <1>4, ReplyEnds
<1>6. Position' = Position
  BY <1>3 DEF Position
<1>7. Contiguous' /\ OneSession'
  BY <1>1, <1>3 DEF Session, Contiguous, OneSession, masterVars, diskVars, auxVars
<1>8. InStep'
  BY <1>1, <1>3, <1>5, <1>6 DEF Session, InStep, masterVars, diskVars, auxVars
<1> QED BY <1>3, <1>7, <1>8, Stutters DEF Kept, Session, masterVars, diskVars, auxVars

\* The operations from p to q come next when the slave stands at p, and pass if they end
\* with a batch.
LEMMA NextOnes ==
  ASSUME NEW p \in Nat \ {0}, NEW q \in Nat, p <= q, q <= MaxSeq,
         NEW known, known \subseteq Seqs, \A s \in Seqs : s < p <=> s \in known
  PROVE  /\ p..q # {} /\ p..q \subseteq Seqs /\ (p..q) \cap known = {}
         /\ \A s \in Seqs : s <= q <=> s \in known \cup (p..q)
<1>1. p..q # {} /\ p..q \subseteq Seqs
  <2>1. p \in p..q
    OBVIOUS
  <2> QED BY <2>1 DEF Seqs
<1>2. ASSUME NEW s \in p..q PROVE s \notin known
  <2>1. s \in Seqs /\ ~(s < p)
    BY <1>1
  <2> QED BY <2>1
<1>3. ASSUME NEW s \in Seqs PROVE s <= q <=> s \in known \cup (p..q)
  <2>1. s \in Nat /\ (s < p <=> s \in known)
    BY DEF Seqs
  <2>2. s \in p..q <=> p <= s /\ s <= q
    BY <2>1
  <2> QED BY <2>1, <2>2
<1> QED BY <1>1, <1>2, <1>3

LEMMA PassesNext ==
  ASSUME NEW p \in Nat \ {0}, NEW q \in Nat, p <= q, q <= MaxSeq,
         db.ops \subseteq Seqs, lost \subseteq Seqs,
         \A s \in Seqs : s < p <=> s \in db.ops \cup lost,
         NEW e \in batches, e.last = q
  PROVE  /\ Promise!Passes(p..q)
         /\ (p..q) \cap db.ops = {} /\ (p..q) \cap lost = {}
         /\ \A s \in Seqs : s < q + 1 <=> s \in db.ops \/ s \in lost \/ s \in p..q
<1> DEFINE S == p..q
           known == db.ops \cup lost
<1>1. /\ S # {} /\ S \subseteq Seqs /\ S \cap known = {}
      /\ \A s \in Seqs : s <= q <=> s \in known \cup S
  <2> HIDE DEF S
  <2>1. known \subseteq Seqs /\ \A s \in Seqs : s < p <=> s \in known
    OBVIOUS
  <2> HIDE DEF known
  <2> QED BY <2>1, NextOnes DEF S
<1>2. Promise!Beginning(known \cup S)
  <2> SUFFICES ASSUME NEW n \in Seqs, n \in known \cup S, NEW m \in Seqs, m < n
               PROVE  m \in known \cup S
    BY DEF Promise!Beginning
  <2>1. n <= q /\ n \in Nat /\ m \in Nat
    BY <1>1 DEF Seqs
  <2> QED BY <1>1, <2>1
<1>3. \E f \in {b.last : b \in batches} : f \in S /\ \A n \in S : n <= f
  <2>1. e.last \in {b.last : b \in batches} /\ e.last \in S /\ \A n \in S : n <= e.last
    OBVIOUS
  <2> HIDE DEF S
  <2> QED BY <2>1
<1>4. Promise!Passes(S)
  <2> HIDE DEF S
  <2>1. S # {} /\ S \cap (db.ops \cup lost) = {} /\ Promise!Beginning(db.ops \cup lost \cup S)
    BY <1>1, <1>2
  <2> QED BY <2>1, <1>3, Zenon DEF Promise!Passes
<1>5. \A s \in Seqs : s < q + 1 <=> s <= q
  BY DEF Seqs
<1> HIDE DEF S
<1>6. S \cap db.ops = {} /\ S \cap lost = {}
      /\ \A s \in Seqs : s < q + 1 <=> s \in db.ops \/ s \in lost \/ s \in S
  BY <1>1, <1>5
<1> QED BY <1>4, <1>6 DEF S

\* What is missing before the first batch of an answer is counted, and is not more than
\* acceptable_loss_seq.
LEMMA AcceptKeeps ==
  ASSUME IndInv, Session, Undisturbed, NEW i \in Inst, Generator(i), Accept(i)
  PROVE  Kept
<1> DEFINE r == res[1]
           p == preq[1]
           lo == FirstKept(r, next[1])
           gap == p..(r.first - 1)
<1>1. i = 1 /\ 1 \in Inst /\ cur = 1 /\ life[1] = "up"
  BY OnlyOne DEF Session
<1>2. /\ pc \in [Inst -> {"idle", "wait", "reply", "marked", "written", "gone"}]
      /\ res \in [Inst -> Response] /\ preq \in [Inst -> Nat] /\ next \in [Inst -> Nat]
      /\ todo \in [Inst -> [lo : Nat \ {0}, hi : Nat]]
      /\ db.ops \subseteq Seqs /\ lost \subseteq Seqs
  BY DEF IndInv, TypeOK, Database
<1>3. /\ pc[1] = "reply" /\ ~r.empty /\ ~TooMuchLost(1)
      /\ pc' = [pc EXCEPT ![1] = "marked"]
      /\ todo' = [todo EXCEPT ![1] = [lo |-> lo, hi |-> r.end]]
      /\ next' = [next EXCEPT ![1] = r.end + 1]
      /\ UNCHANGED <<masterVars, dfile, db, shelf, cur, life, preq, chance, res>>
  BY <1>1 DEF Accept
<1>4. /\ p \in Nat \ {0} /\ \A s \in Seqs : s < p <=> s \in db.ops \cup lost
      /\ next[1] = 0 => p = 1
      /\ unseen = {} /\ db.twice = {}
  BY <1>1, <1>2, <1>3 DEF Session, InStep, Position
<1>5. lost' = lost \cup gap /\ unseen' = unseen
  BY <1>1, <1>4 DEF Accept
<1>6. /\ r.first \in Nat /\ r.cut \in Nat /\ r.end \in Nat
      /\ 1 <= r.first /\ r.first <= r.cut /\ r.cut <= r.end /\ r.end <= MaxSeq /\ p <= r.cut
  BY <1>1, <1>2, <1>3 DEF IndInv, ReplyShape, Response
<1>7. next[1] = 0 \/ next[1] = p
  BY <1>1, <1>3, <1>4 DEF IndInv, ParserAtRequest
<1>8. lo = IF p <= r.first THEN r.first ELSE p
  BY <1>2, <1>4, <1>6, <1>7 DEF FirstKept
<1>9. PICK b \in batches, e \in batches : r.first = b.first /\ r.end = e.last
  BY <1>1, <1>3 DEF Session, InStep
<1>10. /\ todo'[1].lo = lo /\ todo'[1].hi = r.end /\ next'[1] = r.end + 1 /\ pc'[1] = "marked"
       /\ Position' = lo
  BY <1>1, <1>2, <1>3 DEF Position
<1>11. Contiguous' /\ OneSession'
  BY <1>1, <1>3, <1>10 DEF Session, Contiguous, OneSession, masterVars
<1>12. lo >= 1 /\ lo <= r.end /\ r.end + 1 # 0
  BY <1>4, <1>6, <1>8
<1>13. CASE p < r.first
  <2>1. PICK c \in batches : c.last = r.first - 1
    BY <1>4, <1>6, <1>9, <1>13 DEF Session, Contiguous
  <2>2. r.first - 1 \in Nat /\ p <= r.first - 1 /\ r.first - 1 <= MaxSeq
        /\ lo = (r.first - 1) + 1 /\ p \in gap
    BY <1>4, <1>6, <1>8, <1>13
  <2>3. /\ Promise!Passes(gap) /\ gap \cap db.ops = {} /\ gap \cap lost = {}
        /\ \A s \in Seqs : s < lo <=> s \in db.ops \/ s \in lost \/ s \in gap
    <3>1. PICK q \in Nat : q = r.first - 1
      BY <2>2
    <3>2. /\ Promise!Passes(p..q) /\ (p..q) \cap db.ops = {} /\ (p..q) \cap lost = {}
          /\ \A s \in Seqs : s < q + 1 <=> s \in db.ops \/ s \in lost \/ s \in p..q
      <4>1. p <= q /\ q <= MaxSeq /\ c.last = q
        BY <3>1, <2>1, <2>2
      <4> HIDE DEF p
      <4> QED BY <4>1, <1>2, <1>4, PassesNext
    <3>3. gap = p..q /\ lo = q + 1
      BY <3>1, <2>2
    <3> HIDE DEF gap, lo
    <3> QED BY <3>2, <3>3
  <2> HIDE DEF gap
  <2>4. InStep'
    BY <2>3, <1>1, <1>3, <1>4, <1>5, <1>9, <1>10, <1>12 DEF InStep, masterVars
  <2>5. lost' \ lost = gap
    BY <2>3, <1>5
  <2>6. \A n, m \in gap : m < n + AcceptableLoss
    <3>1. r.first - p <= AcceptableLoss
      BY <1>3, <1>4, <1>6 DEF TooMuchLost
    <3> QED BY <3>1, <1>4, <1>6 DEF gap
  <2>7. Promise!Miss
    BY <2>3, <2>5, <2>6, <1>3, <1>5 DEF Promise!Miss, masterVars
  <2> QED BY <2>4, <2>7, <1>11 DEF Kept, Session, Promise!Next
<1>14. CASE ~(p < r.first)
  <2>1. lost' = lost /\ lo = p
    BY <1>4, <1>5, <1>6, <1>8, <1>14
  <2>2. InStep'
    BY <2>1, <1>1, <1>3, <1>4, <1>5, <1>9, <1>10, <1>12 DEF InStep, masterVars
  <2> QED BY <2>1, <2>2, <1>3, <1>11, Stutters DEF Kept, Session, masterVars
<1> QED BY <1>13, <1>14

\* The parsed batch is the next one for the slave's data.
LEMMA ApplyKeeps ==
  ASSUME IndInv, Session, Undisturbed, NEW i \in Inst, Generator(i), WriteBatch(i)
  PROVE  Kept
<1> DEFINE lo == todo[1].lo
           hi == todo[1].hi
<1>1. i = 1 /\ 1 \in Inst /\ cur = 1 /\ life[1] = "up"
  BY OnlyOne DEF Session
<1>2. /\ pc \in [Inst -> {"idle", "wait", "reply", "marked", "written", "gone"}]
      /\ lo \in Nat \ {0} /\ hi \in Nat
      /\ db.ops \subseteq Seqs /\ lost \subseteq Seqs
  BY <1>1 DEF IndInv, TypeOK, Database
<1>3. /\ pc[1] = "marked" /\ pc' = [pc EXCEPT ![1] = "written"]
      /\ db' = Written(db, lo, hi) /\ unseen' = unseen
      /\ UNCHANGED <<masterVars, file, dfile, shelf, cur, life, preq, chance, next, res, todo, lost>>
  BY <1>1 DEF WriteBatch, Undisturbed
<1>4. /\ hi <= MaxSeq /\ hi + 1 = next[1]
  BY <1>1, <1>3 DEF IndInv, TodoShape
<1>5. /\ \A s \in Seqs : s < lo <=> s \in db.ops \cup lost
      /\ lo <= hi /\ unseen = {} /\ db.twice = {}
  BY <1>1, <1>3 DEF Session, InStep, Position
<1>6. PICK e \in batches : hi = e.last
  BY <1>1, <1>3 DEF Session, InStep
<1>8. /\ Promise!Passes(lo..hi) /\ (lo..hi) \cap db.ops = {} /\ (lo..hi) \cap lost = {}
      /\ \A s \in Seqs : s < hi + 1 <=> s \in db.ops \/ s \in lost \/ s \in lo..hi
  BY <1>2, <1>4, <1>5, <1>6, PassesNext
<1>9. db'.ops = db.ops \cup (lo..hi) /\ db'.twice = {}
  BY <1>3, <1>5, <1>8 DEF Written
<1>10. pc'[1] = "written" /\ Position' = hi + 1
  BY <1>1, <1>2, <1>3 DEF Position
<1>11. Contiguous' /\ OneSession'
  BY <1>1, <1>3, <1>10 DEF Session, Contiguous, OneSession, masterVars
<1>12. InStep'
  <2>1. \A s \in Seqs : s < Position' <=> s \in db'.ops \cup lost'
    BY <1>3, <1>8, <1>9, <1>10
  <2>2. Position' >= 1 /\ next'[1] # 0
    BY <1>2, <1>3, <1>4, <1>10
  <2> QED BY <2>1, <2>2, <1>3, <1>5, <1>6, <1>9, <1>10 DEF InStep, masterVars
<1>14. db'.ops \ db.ops = lo..hi
  BY <1>8, <1>9
<1>15. Promise!Apply
  BY <1>3, <1>8, <1>9, <1>14 DEF Promise!Apply, masterVars
<1> QED BY <1>11, <1>12, <1>15 DEF Kept, Session, Promise!Next

LEMMA SaveKeeps ==
  ASSUME IndInv, Session, Undisturbed, NEW i \in Inst, Generator(i), SaveSn(i)
  PROVE  Kept
<1>1. i = 1 /\ 1 \in Inst /\ cur = 1 /\ life[1] = "up"
  BY OnlyOne DEF Session
<1>2. /\ pc \in [Inst -> {"idle", "wait", "reply", "marked", "written", "gone"}]
      /\ preq \in [Inst -> Nat] /\ todo[1].hi \in Nat
  BY <1>1 DEF IndInv, TypeOK
<1>3. /\ pc[1] = "written" /\ preq' = [preq EXCEPT ![1] = todo[1].hi + 1]
      /\ pc'[1] \in {"idle", "wait"}
      /\ UNCHANGED <<masterVars, dfile, db, shelf, cur, life, chance, next, todo, auxVars>>
  BY <1>1, <1>2 DEF SaveSn, NextSn, Rest
<1>4. next[1] = todo[1].hi + 1
  BY <1>1, <1>3 DEF IndInv, TodoShape
<1>5. Position' = Position /\ next'[1] # 0
  BY <1>1, <1>2, <1>3, <1>4 DEF Position
<1>6. Contiguous' /\ OneSession'
  BY <1>1, <1>3 DEF Session, Contiguous, OneSession, masterVars, auxVars
<1>7. InStep'
  BY <1>1, <1>3, <1>5 DEF Session, InStep, masterVars, auxVars
<1> QED BY <1>3, <1>6, <1>7, Stutters DEF Kept, Session, masterVars, auxVars

LEMMA StepKeeps ==
  ASSUME IndInv, Session, Undisturbed, [Next]_vars PROVE Kept
<1>1. CASE UNCHANGED vars
  <2>1. Session'
    BY <1>1 DEF Session, Contiguous, OneSession, InStep, Position, vars, masterVars, diskVars,
                instVars, auxVars
  <2> QED BY <1>1, <2>1, Stutters DEF Kept, vars, masterVars, diskVars, auxVars
<1>2. CASE \E n \in 1..MaxBatch : MasterWrite(n)
  BY <1>2, WriteKeeps
<1>3. CASE MasterPurge
  BY <1>3, PurgeKeeps
<1>4. CASE Start
  BY <1>4, StartKeeps
<1>5. CASE Started
  BY <1>5, StartedKeeps
<1>6. ~Stop /\ ~Detach /\ ~Crash /\ ~Attach
  BY DEF Stop, Detach, Crash, Attach, Undisturbed, Session, OneSession, Absent
<1>7. ASSUME NEW i \in Inst, Generator(i) PROVE Kept
  BY <1>7, AskKeeps, AcceptKeeps, ApplyKeeps, SaveKeeps DEF Generator
<1> QED BY <1>1, <1>2, <1>3, <1>4, <1>5, <1>6, <1>7 DEF Next

\* wrocksdb_slave.cpp:151-236: the updates generator of a session that nothing stops
\* takes the master's batches in their order, each once, and counts what it misses,
\* within acceptable_loss_seq at a time.
THEOREM SessionImplementsLog ==
  ASSUME Undisturbed PROVE Spec => ImplementsReplicaLog
<1>1. IndInv /\ Session /\ [Next]_vars => Session' /\ [Promise!Next]_(Promise!vars)
  BY StepKeeps DEF Kept
<1>2. Init => Session /\ Promise!Init
  BY InitSession
<1> QED BY <1>1, <1>2, Invariance, PTL DEF Spec, ImplementsReplicaLog, Promise!Spec

\* Its data is exactly the operations below its position, each applied once, less
\* those counted as lost.
THEOREM SessionAppliesOnce ==
  ASSUME Undisturbed PROVE Spec => []ExactlyOnce
<1>1. IndInv /\ Session /\ [Next]_vars => Session'
  BY StepKeeps DEF Kept
<1>2. Session => ExactlyOnce
  BY DEF Session, OneSession, InStep, ExactlyOnce, Position, Inst
<1> QED BY <1>1, <1>2, InitSession, Invariance, PTL DEF Spec
-----------------------------------------------------------------------------
(* Where a restart resumes. *)

\* n begins a batch, or follows them all.
Bound(n) == n <= latest + 1 /\ \A b \in batches : n <= b.first \/ b.last < n

\* The newest data, where it stands.
Data == IF db.exists THEN db ELSE shelf

\* Every operation of the data, and every one counted as lost, is below n.
Done(n) == \A s \in Data.ops \cup lost : s < n

\* The batches are finitely many, without a gap, and purged whole.
LogShape == IsFiniteSet(batches) /\ Contiguous /\ Bound(wal)

\* No object asked from 0 or met another's generator, and nothing was passed over.
Straight == astray = {} /\ unseen = {}

\* The data has whole batches, each operation once, and nothing it lacks can come back.
DataIs ==
  /\ Data.twice = {} /\ Data.seq = Cardinality(Data.ops) /\ \A s \in Data.ops : s <= latest
  /\ \A b \in batches : \A s, t \in b.first..b.last : s \in Data.ops => t \in Data.ops
  /\ \A s \in lost : s < wal

\* A number the next object would resume at.
FileIs == ReadSn > 0 => Bound(ReadSn) /\ Done(ReadSn)

\* Where generator i asks from, or will.
Asks(i) == preq[i] > 0 /\ Bound(preq[i]) /\ \A s \in Data.ops : s < preq[i]

\* What the logs it was answered with begin and end with.
Answered(i) ==
  /\ \E b \in batches : b.first = res[i].first /\ b.last = res[i].cut
  /\ \E e \in batches : e.last = res[i].end
  /\ \A s \in lost : s < res[i].first
  /\ preq[i] < res[i].first => res[i].first <= wal

\* What it is about to write, and the file says so.
Holds(i) ==
  /\ ReadSn = Invalid
  /\ todo[i].lo <= todo[i].hi /\ Bound(todo[i].lo) /\ Bound(todo[i].hi + 1)
  /\ Done(todo[i].lo)

\* Only the newest object has a generator.
Stands(i) ==
  /\ i = cur
  /\ pc[i] \in {"idle", "wait", "reply"} => Asks(i)
  /\ pc[i] = "reply" /\ ~res[i].empty => Answered(i)
  /\ pc[i] = "marked" => Holds(i)
  /\ pc[i] = "written" => Done(todo[i].hi + 1) /\ Bound(todo[i].hi + 1)

GeneratorIs == \A i \in Inst : i <= cur /\ pc[i] # "gone" => Stands(i)

Agreed == DataIs /\ FileIs /\ GeneratorIs
Resumable == LogShape /\ (Straight => Agreed)

LEMMA InitResumable == Init => Resumable
<1> SUFFICES ASSUME Init PROVE Resumable
  OBVIOUS
<1> USE DEF Init
<1>1. LogShape
  BY FS_EmptySet DEF LogShape, Contiguous, Bound
<1>2. DataIs
  BY FS_EmptySet DEF DataIs, Data, Absent
<1>3. FileIs /\ GeneratorIs
  BY DEF FileIs, ReadSn, NoFile, GeneratorIs, Inst
<1> QED BY <1>1, <1>2, <1>3 DEF Resumable, Agreed

\* Once astray, always astray.
LEMMA StraightBefore ==
  ASSUME TypeOK, [Next]_vars, Straight' PROVE Straight
<1>1. astray \subseteq astray' /\ unseen \subseteq unseen'
  BY DEF Next, Generator, MasterWrite, MasterPurge, Start, Started, Stop, Detach, Attach, Crash, Tick,
         Serve, ServeNotFound, RetryFromZero, GiveUp, Accept, WriteBatch, SaveSn, auxVars, vars
<1> QED BY <1>1 DEF Straight

\* What the data, the master's log and the file tell, when nothing touches them.
LEMMA SameData ==
  ASSUME UNCHANGED <<masterVars, lost>>, Data' = Data, ReadSn' = ReadSn \/ ReadSn' = 0
  PROVE  /\ LogShape => LogShape'
         /\ DataIs => DataIs'
         /\ FileIs => FileIs'
         /\ \A n : Bound(n)' <=> Bound(n)
         /\ \A n : Done(n)' <=> Done(n)
<1>1. \A n : (Bound(n)' <=> Bound(n)) /\ (Done(n)' <=> Done(n))
  BY DEF Bound, Done, masterVars
<1>2. LogShape => LogShape'
  BY <1>1 DEF LogShape, Contiguous, masterVars
<1>3. DataIs => DataIs'
  BY DEF DataIs, masterVars
<1>4. FileIs => FileIs'
  BY <1>1 DEF FileIs
<1> QED BY <1>1, <1>2, <1>3, <1>4

\* An object that does not move stands where it stood.
LEMMA SameStand ==
  ASSUME UNCHANGED <<masterVars, lost>>, Data' = Data, ReadSn' = ReadSn,
         NEW i \in Inst, Stands(i), cur' = cur,
         preq'[i] = preq[i], res'[i] = res[i], todo'[i] = todo[i],
         pc'[i] = pc[i] \/ pc'[i] = "gone"
  PROVE  Stands(i)'
<1>1. \A n : (Bound(n)' <=> Bound(n)) /\ (Done(n)' <=> Done(n))
  BY DEF Bound, Done, masterVars
<1>2. (Asks(i) => Asks(i)') /\ (Holds(i) => Holds(i)')
  BY <1>1 DEF Asks, Holds
<1>3. Answered(i) => Answered(i)'
  BY DEF Answered, masterVars
<1>4. (Done(todo[i].hi + 1) /\ Bound(todo[i].hi + 1) => (Done(todo[i].hi + 1) /\ Bound(todo[i].hi + 1))')
  BY <1>1
<1> QED BY <1>2, <1>3, <1>4 DEF Stands

\* The steps that leave the data and the file's number alone, or spoil it.
LEMMA SameSteps ==
  ASSUME IndInv, Resumable, Straight', Straight,
         Started \/ Stop \/ Detach \/ Attach \/ Crash \/ UNCHANGED vars
         \/ \E i \in Inst : Tick(i) \/ ServeNotFound(i) \/ GiveUp(i)
  PROVE  Resumable'
<1> USE DEF IndInv
<1>1. Agreed /\ LogShape
  BY DEF Resumable
<1>2. UNCHANGED <<masterVars, lost, cur>>
  BY DEF Started, Stop, Detach, Attach, Crash, Tick, ServeNotFound, GiveUp, auxVars, instVars, vars
<1>3. Data' = Data
  <2>1. CASE Detach
    <3>1. life[cur] = "up" /\ cur \in Inst /\ db' = Absent /\ shelf' = db
      BY <2>1 DEF Detach, TypeOK, Inst
    <3>2. db.exists
      BY <3>1 DEF DataShape
    <3> QED BY <3>1, <3>2 DEF Data, Absent
  <2>2. CASE Attach
    BY <2>2 DEF Data, Attach
  <2>3. CASE ~Detach /\ ~Attach
    <3>1. UNCHANGED <<db, shelf>>
      BY <2>3 DEF Started, Stop, Crash, Tick, ServeNotFound, GiveUp, diskVars, vars
    <3> QED BY <3>1 DEF Data
  <2> QED BY <2>1, <2>2, <2>3
<1>4. ReadSn' = ReadSn \/ ReadSn' = 0
  BY DEF ReadSn, Started, Stop, Detach, Attach, Crash, Tick, ServeNotFound, GiveUp, diskVars, vars, NoFile
<1>5. LogShape' /\ DataIs' /\ FileIs'
  BY <1>1, <1>2, <1>3, <1>4, SameData DEF Agreed
<1>6. ASSUME NEW i \in Inst, i <= cur', pc'[i] # "gone" PROVE Stands(i)'
  <2>1. ~Crash
    BY <1>2, <1>6 DEF Crash
  <2>2. preq'[i] = preq[i] /\ todo'[i] = todo[i] /\ ReadSn' = ReadSn
    BY <2>1 DEF ReadSn, Started, Stop, Detach, Attach, Tick, ServeNotFound, GiveUp, diskVars, instVars,
                vars, NoFile
  <2>3. CASE pc'[i] = pc[i] /\ res'[i] = res[i]
    <3>1. Stands(i)
      BY <1>1, <1>2, <1>6, <2>3 DEF Agreed, GeneratorIs
    <3> QED BY <1>2, <1>3, <2>2, <2>3, <3>1, SameStand
  <2>4. CASE ~(pc'[i] = pc[i] /\ res'[i] = res[i])
    <3>1. /\ pc[i] \in {"idle", "wait", "reply"}
          /\ pc'[i] \in {"idle", "wait"}
      BY <1>6, <2>1, <2>4 DEF Started, Stop, Detach, Attach, Tick, ServeNotFound, GiveUp, Rest, instVars, vars,
                              TypeOK
    <3>2. Stands(i)
      BY <1>1, <1>2, <1>6, <3>1 DEF Agreed, GeneratorIs
    <3>3. i = cur /\ Asks(i)
      BY <3>1, <3>2 DEF Stands
    <3>4. Asks(i)'
      BY <1>2, <1>3, <2>2, <3>3 DEF Asks, Bound, masterVars
    <3> QED BY <1>2, <3>1, <3>3, <3>4 DEF Stands
  <2> QED BY <2>3, <2>4
<1> QED BY <1>5, <1>6 DEF Resumable, Agreed, GeneratorIs

\* The bounds of old batches stay bounds, and the data has nothing of a new one.
LEMMA WriteResumable ==
  ASSUME IndInv, Resumable, NEW n \in 1..MaxBatch, MasterWrite(n) PROVE Resumable'
<1> DEFINE b == [first |-> latest + 1, last |-> latest + n]
<1>1. /\ latest \in Nat /\ latest' = latest + n /\ n \in Nat /\ n >= 1
      /\ batches' = batches \cup {b} /\ b.first = latest + 1 /\ b.last = latest + n
      /\ UNCHANGED <<wal, diskVars, instVars, auxVars>>
  BY DEF MasterWrite, IndInv, TypeOK
<1>2. \A c \in batches : c.first \in 1..latest /\ c.last \in 1..latest
  BY DEF IndInv, TypeOK
<1>3. \A m \in Int : Bound(m) => Bound(m)'
  <2> SUFFICES ASSUME NEW m \in Int, Bound(m) PROVE Bound(m)'
    OBVIOUS
  <2>1. m <= latest + 1 /\ \A c \in batches : m <= c.first \/ c.last < m
    BY DEF Bound
  <2>2. m <= latest' + 1
    BY <1>1, <2>1
  <2>3. ASSUME NEW c \in batches' PROVE m <= c.first \/ c.last < m
    <3>1. c \in batches \/ c = b
      BY <1>1
    <3>2. m <= b.first
      BY <1>1, <2>1
    <3> QED BY <2>1, <3>1, <3>2
  <2> HIDE DEF b
  <2> QED BY <2>2, <2>3 DEF Bound
<1>4. LogShape'
  <2>1. wal \in Int /\ wal' = wal
    BY <1>1 DEF IndInv, TypeOK
  <2>2. IsFiniteSet(batches')
    BY <1>1, FS_AddElement DEF Resumable, LogShape
  <2> QED BY <1>3, <2>1, <2>2, ContiguousGrows DEF Resumable, LogShape, IndInv
<1>5. ASSUME Straight' PROVE Agreed'
  <2>1. Straight /\ Agreed
    BY <1>1, <1>5 DEF Straight, auxVars, Resumable
  <2>2. /\ Data' = Data /\ ReadSn' = ReadSn /\ lost' = lost
        /\ \A m : Done(m)' <=> Done(m)
    BY <1>1 DEF Data, ReadSn, Done, diskVars, auxVars
  <2>3. DataIs'
    <3>1. \A s \in Data.ops : s <= latest /\ s \in Nat
      BY <2>1 DEF Agreed, DataIs, IndInv, TypeOK, Database, Seqs, Data
    <3>2. \A s \in Data'.ops : s <= latest'
      BY <1>1, <2>2, <3>1
    <3>3. ASSUME NEW c \in batches', NEW s \in c.first..c.last, NEW t \in c.first..c.last, s \in Data'.ops
          PROVE  t \in Data'.ops
      <4>1. c \in batches \/ c = b
        BY <1>1
      <4>2. CASE c \in batches
        BY <4>2, <3>3, <2>1, <2>2 DEF Agreed, DataIs
      <4>3. CASE c = b
        BY <4>3, <3>1, <3>3, <2>2, <1>1
      <4> QED BY <4>1, <4>2, <4>3
    <3> QED BY <1>1, <2>1, <2>2, <3>2, <3>3 DEF Agreed, DataIs
  <2>4. FileIs'
    <3>1. ReadSn \in Int
      BY DEF ReadSn, IndInv, TypeOK, SnFile, Invalid, NoFile
    <3> QED BY <1>3, <2>1, <2>2, <3>1 DEF FileIs, Agreed
  <2>5. ASSUME NEW i \in Inst, i <= cur', pc'[i] # "gone" PROVE Stands(i)'
    <3>1. Stands(i) /\ UNCHANGED <<cur, pc, preq, res, todo, wal, lost>>
      BY <1>1, <2>1, <2>5 DEF Agreed, GeneratorIs, instVars, auxVars
    <3>2. preq[i] \in Nat /\ todo[i].lo \in Nat /\ todo[i].hi \in Nat
      BY DEF IndInv, TypeOK
    <3>3. (Asks(i) => Asks(i)') /\ (Holds(i) => Holds(i)')
      BY <1>3, <2>2, <3>1, <3>2 DEF Asks, Holds
    <3>4. Answered(i) => Answered(i)'
      BY <1>1, <3>1 DEF Answered
    <3>5. Bound(todo[i].hi + 1) => Bound(todo[i].hi + 1)'
      BY <1>3, <3>1, <3>2
    <3>6. Done(todo[i].hi + 1) => Done(todo[i].hi + 1)'
      BY <2>2, <3>1
    <3> QED BY <3>1, <3>3, <3>4, <3>5, <3>6 DEF Stands
  <2> QED BY <2>3, <2>4, <2>5 DEF Agreed, GeneratorIs
<1> QED BY <1>4, <1>5 DEF Resumable

\* The log is purged by whole batches.
LEMMA PurgeResumable ==
  ASSUME IndInv, Resumable, MasterPurge PROVE Resumable'
<1>1. /\ UNCHANGED <<latest, batches, diskVars, instVars, auxVars>>
      /\ wal' > wal /\ wal' \in {b.first : b \in batches} \cup {latest + 1}
  BY DEF MasterPurge
<1>2. /\ latest \in Nat /\ wal \in Nat
      /\ \A b \in batches : b.first \in 1..latest /\ b.last \in 1..latest /\ b.first <= b.last
      /\ \A b, c \in batches : b = c \/ b.last < c.first \/ c.last < b.first
  BY DEF IndInv, TypeOK, BatchShape
<1>3. \A m : (Bound(m)' <=> Bound(m)) /\ (Done(m)' <=> Done(m))
  BY <1>1 DEF Bound, Done, Data, diskVars, auxVars
<1>4. Bound(wal')
  <2>1. CASE wal' = latest + 1
    BY <2>1, <1>2 DEF Bound
  <2>2. ASSUME NEW c \in batches, wal' = c.first PROVE Bound(wal')
    BY <2>2, <1>2 DEF Bound
  <2> QED BY <1>1, <2>1, <2>2
<1>5. LogShape'
  BY <1>1, <1>3, <1>4 DEF Resumable, LogShape, Contiguous
<1>6. ASSUME Straight' PROVE Agreed'
  <2>1. Straight /\ Agreed
    BY <1>1, <1>6 DEF Straight, auxVars, Resumable
  <2>2. Data' = Data /\ ReadSn' = ReadSn /\ lost' = lost /\ lost \subseteq Nat
    BY <1>1 DEF Data, ReadSn, diskVars, auxVars, IndInv, TypeOK, Seqs
  <2>3. wal' \in Nat
    BY <1>1, <1>2
  <2>4. DataIs' /\ FileIs'
    BY <1>1, <1>2, <1>3, <2>1, <2>2, <2>3 DEF Agreed, DataIs, FileIs
  <2>5. ASSUME NEW i \in Inst, i <= cur', pc'[i] # "gone" PROVE Stands(i)'
    <3>1. Stands(i) /\ UNCHANGED <<cur, pc, preq, res, todo, lost>>
      BY <1>1, <2>1, <2>5 DEF Agreed, GeneratorIs, instVars, auxVars
    <3>2. res[i].first \in Nat
      BY DEF IndInv, TypeOK, Response
    <3>3. (Asks(i) => Asks(i)') /\ (Holds(i) => Holds(i)')
      BY <1>3, <2>2, <3>1 DEF Asks, Holds
    <3>4. Answered(i) => Answered(i)'
      BY <1>1, <1>2, <2>3, <3>1, <3>2 DEF Answered
    <3> QED BY <1>3, <3>1, <3>3, <3>4 DEF Stands
  <2> QED BY <2>4, <2>5 DEF Agreed, GeneratorIs
<1> QED BY <1>5, <1>6 DEF Resumable

\* Data that has the first operations, each once, ends where a batch does.
LEMMA OwnNumber ==
  ASSUME IndInv, DataIs, (1..Data.seq) \ Data.ops = {}
  PROVE  Bound(Data.seq + 1) /\ \A s \in Data.ops : s < Data.seq + 1
<1>1. /\ Data.seq \in Nat /\ Data.ops \subseteq Seqs /\ IsFiniteSet(Seqs) /\ MaxSeq \in Nat
      /\ latest \in Nat
  <2>1. Data \in Database /\ MaxSeq \in Nat /\ latest \in Nat
    BY DEF IndInv, TypeOK, Data
  <2>2. IsFiniteSet(Seqs)
    BY <2>1, FS_Interval DEF Seqs
  <2> QED BY <2>1, <2>2 DEF Database
<1>2. IsFiniteSet(Data.ops) /\ 1..Data.seq \in SUBSET Data.ops
  BY <1>1, FS_Subset
<1>3. Cardinality(1..Data.seq) = Data.seq
  BY <1>1, FS_Interval
<1>4. Data.ops = 1..Data.seq
  BY <1>2, <1>3, FS_Subset DEF DataIs
<1>5. \A s \in Data.ops : s < Data.seq + 1
  BY <1>1, <1>4
<1>6. Data.seq + 1 <= latest + 1
  <2>1. Data.seq = 0 \/ Data.seq \in Data.ops
    BY <1>1, <1>4
  <2> QED BY <2>1, <1>1 DEF DataIs
<1>7. ASSUME NEW b \in batches PROVE Data.seq + 1 <= b.first \/ b.last < Data.seq + 1
  <2>1. b.first \in Nat /\ b.last \in Nat /\ 1 <= b.first /\ b.first <= b.last
    BY <1>1 DEF IndInv, TypeOK, BatchShape
  <2>2. b.first \in b.first..b.last /\ b.last \in b.first..b.last
    BY <2>1
  <2>3. b.first \in Data.ops => b.last \in Data.ops
    BY <2>2 DEF DataIs
  <2> QED BY <1>1, <1>4, <2>1, <2>3
<1> QED BY <1>5, <1>6, <1>7 DEF Bound

\* A new object asks from the number of the file, or after its own.
LEMMA StartResumable ==
  ASSUME IndInv, Resumable, Start PROVE Resumable'
<1> DEFINE k == cur + 1
           d == IF db.exists THEN db ELSE Fresh
<1>1. /\ k \in Inst /\ cur \in Nat
      /\ cur' = k /\ db' = d
      /\ preq' = [preq EXCEPT ![k] = FirstSeq(ReadSn, d.seq)]
      /\ unseen' = unseen \cup (IF ReadSn \in {0, NoFile} THEN (1..d.seq) \ d.ops ELSE {})
      /\ astray' = astray \cup {i \in {k} : ReadSn = Invalid \/ \E j \in 1..cur : pc[j] # "gone"}
      /\ UNCHANGED <<masterVars, file, dfile, shelf, pc, next, res, todo, lost>>
  BY DEF Start, IndInv, TypeOK, Inst
<1>2. \A m : Bound(m)' <=> Bound(m)
  BY <1>1 DEF Bound, masterVars
<1>3. LogShape'
  BY <1>1, <1>2 DEF Resumable, LogShape, Contiguous, masterVars
<1>4. ASSUME Straight' PROVE Agreed'
  <2>1. Straight /\ Agreed
    BY <1>1, <1>4 DEF Straight, Resumable
  <2>2. ReadSn # Invalid /\ \A j \in 1..cur : pc[j] = "gone"
    BY <1>1, <1>4 DEF Straight
  <2>3. ReadSn \in {0, NoFile} => (1..d.seq) \ d.ops = {}
    BY <1>1, <1>4 DEF Straight
  <2>4. Data' = d /\ ReadSn' = ReadSn
    BY <1>1 DEF Data, ReadSn, Fresh
  <2>5. d = Data \/ d = Fresh
    BY DEF Data
  <2>6. DataIs'
    <3>1. latest \in Nat
      BY DEF IndInv, TypeOK
    <3>2. CASE d = Data
      BY <3>2, <1>1, <2>1, <2>4 DEF Agreed, DataIs, masterVars
    <3>3. CASE d = Fresh
      <4>1. Data'.ops = {} /\ Data'.twice = {} /\ Data'.seq = 0
        BY <3>3, <2>4 DEF Fresh
      <4>2. Cardinality({}) = 0
        BY FS_EmptySet
      <4> HIDE DEF d
      <4> QED BY <4>1, <4>2, <1>1, <2>1 DEF Agreed, DataIs, masterVars
    <3> QED BY <2>5, <3>2, <3>3
  <2>7. Data'.ops = {} \/ Data'.ops = Data.ops
    BY <2>4, <2>5 DEF Fresh
  <2>8. FileIs'
    BY <1>1, <1>2, <2>1, <2>4, <2>7 DEF Agreed, FileIs, Done
  <2>9. FirstSeq(ReadSn, d.seq) > 0 /\ Bound(FirstSeq(ReadSn, d.seq))
        /\ \A s \in Data'.ops : s < FirstSeq(ReadSn, d.seq)
    <3>1. d.seq \in Nat /\ ReadSn \in SnFile
      BY DEF IndInv, TypeOK, Database, Fresh, ReadSn
    <3>2. CASE ReadSn \in {0, NoFile}
      <4>1. FirstSeq(ReadSn, d.seq) = d.seq + 1
        BY <3>2 DEF FirstSeq, Invalid, NoFile
      <4>2. Bound(d.seq + 1) /\ \A s \in d.ops : s < d.seq + 1
        <5>1. CASE d = Data
          BY <5>1, <2>1, <2>3, <3>2, OwnNumber DEF Agreed
        <5>2. CASE d = Fresh
          <6>1. /\ latest \in Nat /\ \A b \in batches : b.first \in 1..latest
            BY DEF IndInv, TypeOK
          <6> QED BY <5>2, <6>1 DEF Fresh, Bound
        <5> QED BY <2>5, <5>1, <5>2
      <4> QED BY <3>1, <4>1, <4>2, <2>4
    <3>3. CASE ReadSn \notin {0, NoFile}
      <4>1. FirstSeq(ReadSn, d.seq) = ReadSn /\ ReadSn > 0
        BY <3>1, <3>3, <2>2 DEF FirstSeq, SnFile
      <4>2. Bound(ReadSn) /\ Done(ReadSn)
        BY <4>1, <2>1 DEF Agreed, FileIs
      <4> QED BY <4>1, <4>2, <2>7 DEF Done
    <3> QED BY <3>2, <3>3
  <2>10. ASSUME NEW i \in Inst, i <= cur', pc'[i] # "gone" PROVE Stands(i)'
    <3>1. i = k
      BY <1>1, <2>2, <2>10 DEF Inst
    <3>2. pc'[i] = "idle" /\ i = cur'
      BY <1>1, <3>1 DEF IndInv, Unborn
    <3>3. preq'[i] = FirstSeq(ReadSn, d.seq)
      BY <1>1, <3>1 DEF IndInv, TypeOK
    <3>4. Asks(i)'
      BY <1>2, <2>9, <3>3 DEF Asks
    <3> QED BY <3>2, <3>4 DEF Stands
  <2> QED BY <2>6, <2>8, <2>10 DEF Agreed, GeneratorIs
<1> QED BY <1>3, <1>4 DEF Resumable

\* The logs begin and end with batches; a gap before them is purged.
LEMMA ReplyBegins ==
  ASSUME TypeOK, BatchShape, LogShape, NEW q \in Nat \ {0}, NEW r \in Replies(q), ~r.empty
  PROVE  /\ \E b \in batches : b.first = r.first /\ b.last = r.cut /\ wal <= b.first
         /\ \E e \in batches : e.last = r.end
         /\ q < r.first => r.first <= wal
<1> DEFINE P == Page(From(q))
<1>1. PICK b \in P, e \in P : r = Logs(b, e) /\ \A t \in P : b.first <= t.first
  BY DEF Replies, NoLogs
<1>2. b \in batches /\ e \in batches /\ wal <= b.first
      /\ r.first = b.first /\ r.cut = b.last /\ r.end = e.last
  BY <1>1 DEF Page, From, Logs
<1>3. /\ latest \in Nat /\ wal \in Nat
      /\ \A c \in batches : c.first \in 1..latest /\ c.last \in 1..latest /\ c.first <= c.last
  BY DEF TypeOK, BatchShape
<1>4. ASSUME q < b.first, wal < b.first PROVE FALSE
  <2>1. PICK c \in batches : c.last = b.first - 1
    BY <1>2, <1>3, <1>4 DEF LogShape, Contiguous
  <2>2. wal <= c.first
    BY <1>2, <1>3, <1>4, <2>1 DEF LogShape, Bound
  <2>3. c \in From(q) /\ c.first < b.first
    BY <1>2, <1>3, <1>4, <2>1, <2>2 DEF From
  <2>4. {t \in From(q) : t.first < c.first} \in SUBSET {t \in From(q) : t.first < b.first}
    BY <1>2, <1>3, <2>3 DEF From
  <2>5. {t \in From(q) : t.first < b.first} \in SUBSET batches
    BY DEF From
  <2>6. IsFiniteSet({t \in From(q) : t.first < b.first})
    BY <2>5, FS_Subset DEF LogShape
  <2>7. /\ Cardinality({t \in From(q) : t.first < c.first}) <= Cardinality({t \in From(q) : t.first < b.first})
        /\ Cardinality({t \in From(q) : t.first < c.first}) \in Nat
        /\ Cardinality({t \in From(q) : t.first < b.first}) \in Nat
    BY <2>4, <2>6, FS_Subset, FS_CardinalityType
  <2>8. Cardinality({t \in From(q) : t.first < b.first}) < Limit
    BY <1>1 DEF Page
  <2>9. c \in P
    BY <2>3, <2>7, <2>8 DEF Page
  <2>10. b.first <= c.first
    BY <1>1, <2>9
  <2> QED BY <1>2, <1>3, <2>1, <2>3, <2>10
<1> QED BY <1>2, <1>3, <1>4

\* What a lost operation was in is purged, so it is before what is answered.
LEMMA ServeResumable ==
  ASSUME IndInv, Resumable, NEW i \in Inst, Serve(i) PROVE Resumable'
<1>1. /\ pc[i] = "wait" /\ pc' = [pc EXCEPT ![i] = "reply"]
      /\ UNCHANGED <<masterVars, diskVars, cur, life, preq, chance, next, todo, auxVars>>
  BY DEF Serve
<1>2. PICK r \in Replies(preq[i]) : res' = [res EXCEPT ![i] = r]
  BY DEF Serve
<1>3. /\ Data' = Data /\ ReadSn' = ReadSn /\ UNCHANGED <<masterVars, lost>>
      /\ Straight' = Straight
  BY <1>1 DEF Data, ReadSn, Straight, diskVars, auxVars
<1>4. LogShape'
  BY <1>3, SameData DEF Resumable
<1>5. ASSUME Straight' PROVE Agreed'
  <2>1. Straight /\ Agreed
    BY <1>3, <1>5 DEF Resumable
  <2>2. ASSUME NEW j \in Inst, j <= cur', pc'[j] # "gone" PROVE Stands(j)'
    <3>1. Stands(j)
      BY <1>1, <2>1, <2>2 DEF Agreed, GeneratorIs
    <3>2. CASE j # i
      BY <1>1, <1>2, <1>3, <3>1, <3>2, SameStand DEF auxVars
    <3>3. CASE j = i
      <4>1. /\ pc'[i] = "reply" /\ res'[i] = r /\ preq'[i] = preq[i] /\ i = cur /\ cur' = cur
            /\ Asks(i) /\ preq[i] \in Nat
        BY <1>1, <1>2, <3>1, <3>3 DEF Stands, IndInv, TypeOK
      <4>2. Asks(i)'
        BY <1>3, <4>1 DEF Asks, Bound, masterVars
      <4>3. ASSUME ~r.empty PROVE Answered(i)'
        <5>1. preq[i] \in Nat \ {0}
          BY <4>1 DEF Asks
        <5>2. /\ \E b \in batches : b.first = r.first /\ b.last = r.cut /\ wal <= b.first
              /\ \E e \in batches : e.last = r.end
              /\ preq[i] < r.first => r.first <= wal
          BY <4>3, <5>1, ReplyBegins DEF IndInv, Resumable
        <5>3. \A s \in lost : s < r.first
          <6>1. \A s \in lost : s < wal /\ s \in Int
            BY <2>1 DEF Agreed, DataIs, IndInv, TypeOK, Seqs
          <6>2. wal \in Int /\ r.first \in Int /\ wal <= r.first
            BY <5>2 DEF IndInv, TypeOK
          <6> QED BY <6>1, <6>2
        <5> QED BY <1>3, <4>1, <5>2, <5>3 DEF Answered, masterVars
      <4> QED BY <3>3, <4>1, <4>2, <4>3 DEF Stands
    <3> QED BY <3>2, <3>3
  <2> QED BY <1>3, <2>1, <2>2, SameData DEF Agreed, GeneratorIs
<1> QED BY <1>4, <1>5 DEF Resumable

\* Where a batch begins, and what follows one, are bounds.
LEMMA BatchBounds ==
  ASSUME TypeOK, BatchShape, NEW b \in batches
  PROVE  Bound(b.first) /\ Bound(b.last + 1)
<1>1. /\ latest \in Nat
      /\ \A c \in batches : c.first \in 1..latest /\ c.last \in 1..latest /\ c.first <= c.last
      /\ \A c \in batches : b = c \/ b.last < c.first \/ c.last < b.first
  BY DEF TypeOK, BatchShape
<1> QED BY <1>1 DEF Bound

\* An instance that may act and is not gone is the newest.
LEMMA ActsNow ==
  ASSUME IndInv, Resumable, Straight, NEW i \in Inst, pc[i] \in {"reply", "marked", "written"}
  PROVE  i = cur /\ Stands(i) /\ \A j \in Inst : j <= cur /\ pc[j] # "gone" => j = i
<1>1. ~(i > cur)
  BY DEF IndInv, Unborn
<1>2. i <= cur
  BY <1>1 DEF IndInv, TypeOK, Inst
<1> QED BY <1>2 DEF Resumable, Agreed, GeneratorIs, Stands

\* The batch to write begins where the answer does, after all the data.
LEMMA AcceptResumable ==
  ASSUME IndInv, Resumable, Straight, Straight', NEW i \in Inst, Accept(i) PROVE Resumable'
<1> DEFINE r == res[i]
           lo == FirstKept(r, next[i])
<1>1. /\ pc[i] = "reply" /\ ~r.empty
      /\ pc' = [pc EXCEPT ![i] = "marked"]
      /\ todo' = [todo EXCEPT ![i] = [lo |-> lo, hi |-> r.end]]
      /\ file' = Invalid
      /\ UNCHANGED <<masterVars, dfile, db, shelf, cur, life, preq, chance, res, astray>>
  BY DEF Accept, MarkFile
<1>2. i = cur /\ Asks(i) /\ Answered(i) /\ \A j \in Inst : j <= cur /\ pc[j] # "gone" => j = i
  BY <1>1, ActsNow DEF Stands
<1>3. lost' = lost \cup (preq[i]..(r.first - 1))
  BY <1>2 DEF Accept, Asks
<1>4. /\ r.first \in Nat /\ r.cut \in Nat /\ r.end \in Nat /\ next[i] \in Nat /\ preq[i] \in Nat
      /\ 1 <= r.first /\ r.first <= r.cut /\ r.cut <= r.end /\ preq[i] <= r.cut
      /\ next[i] = 0 \/ next[i] = preq[i]
      /\ wal \in Nat /\ Data.ops \subseteq Nat /\ lost \subseteq Nat
  BY <1>1, <1>2 DEF IndInv, TypeOK, ReplyShape, ParserAtRequest, Response, Asks, Database, Data, Seqs
<1>5. PICK b \in batches, e \in batches : b.first = r.first /\ b.last = r.cut /\ e.last = r.end
  BY <1>2 DEF Answered
<1>6. preq[i] <= r.first
  BY <1>2, <1>4, <1>5 DEF Asks, Bound
<1>7. lo = r.first
  BY <1>4, <1>6 DEF FirstKept
<1>8. \A m : Bound(m)' <=> Bound(m)
  BY <1>1 DEF Bound, masterVars
<1>9. Data' = Data
  BY <1>1 DEF Data
<1>10. \A s \in lost' : s < r.first
  BY <1>2, <1>3, <1>4 DEF Answered
<1>11. LogShape'
  BY <1>1, <1>8 DEF Resumable, LogShape, Contiguous, masterVars
<1>12. DataIs'
  <2>1. DataIs
    BY DEF Resumable, Agreed
  <2>2. \A s \in lost' : s < wal
    <3>1. \A s \in preq[i]..(r.first - 1) : preq[i] < r.first /\ s < r.first
      BY <1>4
    <3>2. \A s \in preq[i]..(r.first - 1) : s < wal
      BY <3>1, <1>2, <1>4 DEF Answered
    <3> QED BY <3>2, <2>1, <1>3 DEF DataIs
  <2> QED BY <2>1, <2>2, <1>1, <1>9 DEF DataIs, masterVars
<1>13. FileIs'
  BY <1>1 DEF FileIs, ReadSn, Invalid, NoFile
<1>14. ASSUME NEW j \in Inst, j <= cur', pc'[j] # "gone" PROVE Stands(j)'
  <2>1. j = i /\ j = cur'
    BY <1>1, <1>2, <1>14
  <2>2. pc'[i] = "marked" /\ todo'[i].lo = r.first /\ todo'[i].hi = r.end
    BY <1>1, <1>7 DEF IndInv, TypeOK
  <2>3. Bound(r.first) /\ Bound(r.end + 1)
    BY <1>5, BatchBounds DEF IndInv
  <2>4. \A s \in Data'.ops \cup lost' : s < r.first
    <3>1. \A s \in Data.ops : s \in Nat /\ s < preq[i]
      BY <1>2, <1>4 DEF Asks
    <3>2. \A s \in Data'.ops : s < r.first
      BY <3>1, <1>4, <1>6, <1>9
    <3> QED BY <3>2, <1>10
  <2>5. Holds(i)'
    <3>1. Bound(r.first)' /\ Bound(r.end + 1)' /\ res' = res
      BY <1>1, <1>8, <2>3 DEF Bound, masterVars
    <3>2. ReadSn' = Invalid
      BY <1>1 DEF ReadSn, Invalid, NoFile
    <3> HIDE DEF r
    <3>3. (todo[i].lo <= todo[i].hi)'
      BY <1>4, <2>2
    <3>4. Bound(todo[i].lo)' /\ Bound(todo[i].hi + 1)'
      BY <1>1, <1>4, <2>2, <2>3 DEF Bound, masterVars
    <3>5. Done(todo[i].lo)'
      BY <2>2, <2>4 DEF Done
    <3> QED BY <3>2, <3>3, <3>4, <3>5 DEF Holds
  <2> QED BY <2>1, <2>2, <2>5 DEF Stands
<1> QED BY <1>11, <1>12, <1>13, <1>14 DEF Resumable, Agreed, GeneratorIs

\* The batch goes after all the data; one that is not written is passed over.
LEMMA BatchResumable ==
  ASSUME IndInv, Resumable, Straight, Straight', NEW i \in Inst, WriteBatch(i) PROVE Resumable'
<1> DEFINE lo == todo[i].lo
           hi == todo[i].hi
           B == lo..hi
<1>1. /\ pc[i] = "marked" /\ pc' = [pc EXCEPT ![i] = "written"]
      /\ UNCHANGED <<masterVars, file, dfile, shelf, cur, life, preq, chance, next, res, todo, lost,
                     astray>>
  BY DEF WriteBatch
<1>2. i = cur /\ Holds(i) /\ \A j \in Inst : j <= cur /\ pc[j] # "gone" => j = i
  BY <1>1, ActsNow DEF Stands
<1>3. /\ lo \in Nat /\ hi \in Nat /\ lo <= hi /\ latest \in Nat
      /\ Data \in Database /\ Data.ops \subseteq Nat /\ lost \subseteq Nat
  BY <1>2 DEF IndInv, TypeOK, Holds, Data, Database, Seqs
<1>4. /\ \A s \in Data.ops \cup lost : s < lo
      /\ Bound(lo) /\ Bound(hi + 1)
  BY <1>2 DEF Holds, Done
<1>5. db.ops \subseteq Data.ops
  BY DEF Data, IndInv, DataShape
<1>6. /\ life[i] = "up" /\ db' = Written(db, lo, hi)
  <2>1. ASSUME unseen' = unseen \cup (B \ db.ops) PROVE FALSE
    <3>1. lo \in B /\ lo \notin db.ops
      BY <1>3, <1>4, <1>5
    <3> QED BY <2>1, <3>1 DEF Straight
  <2> QED BY <2>1 DEF WriteBatch
<1>7. Data = db /\ Data' = db'
  BY <1>2, <1>6 DEF Data, IndInv, DataShape, Written
<1>8. DataIs
  BY DEF Resumable, Agreed
<1>9. B \cap db.ops = {}
  BY <1>3, <1>4, <1>5
<1>f. IsFiniteSet(B) /\ Cardinality(B) = IF lo > hi THEN 0 ELSE hi - lo + 1
  <2>1. lo \in Int /\ hi \in Int
    BY <1>3
  <2> HIDE DEF lo, hi
  <2> QED BY ONLY <2>1, FS_Interval DEF B
<1>10. db'.ops = db.ops \cup B /\ db'.twice = {} /\ db'.seq = db.seq + Cardinality(B)
  <2>1. Cardinality(B) = Size(lo, hi)
    BY <1>f, <1>3 DEF Size
  <2>2. db'.ops = db.ops \cup B /\ db'.twice = db.twice \cup (db.ops \cap B)
        /\ db'.seq = db.seq + Size(lo, hi)
    BY <1>6 DEF Written
  <2>3. db.twice = {} /\ db.ops \cap B = {}
    BY <1>7, <1>8, <1>9 DEF DataIs
  <2> HIDE DEF B
  <2> QED BY <2>1, <2>2, <2>3
<1>11. \A m : Bound(m)' <=> Bound(m)
  BY <1>1 DEF Bound, masterVars
<1>12. LogShape'
  BY <1>1, <1>11 DEF Resumable, LogShape, Contiguous, masterVars
<1>13. DataIs'
  <2>1. Data'.seq = Cardinality(Data'.ops)
    <3>1. IsFiniteSet(db.ops) /\ IsFiniteSet(B)
      <4>1. db.ops \in SUBSET (1..MaxSeq) /\ MaxSeq \in Int
        BY DEF IndInv, TypeOK, Database, Seqs
      <4>2. IsFiniteSet(1..MaxSeq) /\ IsFiniteSet(B)
        BY <1>f, <4>1, FS_Interval
      <4> HIDE DEF B
      <4> QED BY <4>1, <4>2, FS_Subset
    <3>2. Cardinality(db.ops \cup B) = Cardinality(db.ops) + Cardinality(B)
          /\ db.seq = Cardinality(db.ops)
      <4>1. Cardinality(db.ops \cup B) = Cardinality(db.ops) + Cardinality(B) - Cardinality(db.ops \cap B)
        BY <3>1, FS_Union
      <4>2. db.ops \cap B = {} /\ Cardinality({}) = 0
        BY <1>9, FS_EmptySet
      <4>3. Cardinality(db.ops) \in Nat /\ Cardinality(B) \in Nat
        BY <3>1, FS_CardinalityType
      <4>4. db.seq = Cardinality(db.ops)
        BY <1>7, <1>8 DEF DataIs
      <4>5. Cardinality(db.ops \cap B) = 0
        BY <4>2
      <4> HIDE DEF B
      <4> QED BY <4>1, <4>3, <4>4, <4>5
    <3> QED BY <1>7, <1>10, <3>2
  <2>2. hi <= latest
    BY <1>3, <1>4 DEF Bound
  <2>3. \A s \in Data'.ops : s <= latest'
    <3>1. \A s \in B : s <= latest
      BY <1>3, <2>2
    <3> HIDE DEF B
    <3> QED BY <3>1, <1>1, <1>7, <1>8, <1>10 DEF DataIs, masterVars
  <2>4. ASSUME NEW b \in batches, NEW s \in b.first..b.last, NEW t \in b.first..b.last, s \in Data'.ops
        PROVE  t \in Data'.ops
    <3>1. b.first \in Nat /\ b.last \in Nat
      BY <1>3 DEF IndInv, TypeOK
    <3>2. (lo <= b.first \/ b.last < lo) /\ (hi + 1 <= b.first \/ b.last < hi + 1)
      BY <1>4 DEF Bound
    <3>3. s \in B => t \in B
      BY <1>3, <3>1, <3>2
    <3>4. s \in db.ops => t \in db.ops
      BY <1>7, <1>8, <2>4 DEF DataIs
    <3> HIDE DEF B
    <3> QED BY <3>3, <3>4, <2>4, <1>7, <1>10
  <2> QED BY <2>1, <2>3, <2>4, <1>1, <1>7, <1>8, <1>10 DEF DataIs, masterVars
<1>14. Done(hi + 1)'
  <2>1. \A s \in B : s < hi + 1
    BY <1>3
  <2>2. \A s \in db.ops \cup lost : s < hi + 1
    <3>1. \A s \in db.ops \cup lost : s < lo /\ s \in Nat
      BY <1>3, <1>4, <1>7
    <3> QED BY <3>1, <1>3
  <2> HIDE DEF B
  <2> QED BY <2>1, <2>2, <1>1, <1>7, <1>10 DEF Done
<1>15. FileIs'
  <2>1. ReadSn' = Invalid
    BY <1>1, <1>2 DEF Holds, ReadSn
  <2> QED BY <2>1 DEF FileIs, Invalid
<1>16. ASSUME NEW j \in Inst, j <= cur', pc'[j] # "gone" PROVE Stands(j)'
  <2>1. j = i /\ j = cur' /\ pc'[i] = "written" /\ todo' = todo
    BY <1>1, <1>2, <1>16 DEF IndInv, TypeOK
  <2>2. (Done(todo[i].hi + 1) /\ Bound(todo[i].hi + 1))'
    BY <1>4, <1>11, <1>14, <2>1
  <2> QED BY <2>1, <2>2 DEF Stands
<1> QED BY <1>12, <1>13, <1>15, <1>16 DEF Resumable, Agreed, GeneratorIs

\* The number stored follows the batch and all the data.
LEMMA SaveResumable ==
  ASSUME IndInv, Resumable, Straight, Straight', NEW i \in Inst, SaveSn(i) PROVE Resumable'
<1> DEFINE n == todo[i].hi + 1
<1>1. /\ pc[i] = "written" /\ file' = n
      /\ preq' = [preq EXCEPT ![i] = n]
      /\ pc'[i] \in {"idle", "wait", "gone"} /\ \A j \in Inst : j # i => pc'[j] = pc[j]
      /\ UNCHANGED <<masterVars, dfile, db, shelf, cur, life, chance, next, todo, auxVars>>
  BY DEF SaveSn, NextSn, Rest, IndInv, TypeOK
<1>2. i = cur /\ Done(n) /\ Bound(n) /\ \A j \in Inst : j <= cur /\ pc[j] # "gone" => j = i
  BY <1>1, ActsNow DEF Stands
<1>3. n \in Nat \ {0}
  BY DEF IndInv, TypeOK
<1>4. Data' = Data /\ ReadSn' = n /\ UNCHANGED <<masterVars, lost>>
  BY <1>1, <1>3 DEF Data, ReadSn, auxVars, NoFile
<1>5. Bound(n)' /\ Done(n)'
  BY <1>1, <1>2, <1>4 DEF Bound, Done, masterVars
<1>6. LogShape' /\ DataIs'
  BY <1>4 DEF Resumable, Agreed, LogShape, Contiguous, Bound, DataIs, masterVars
<1>7. FileIs'
  BY <1>1, <1>4, <1>5 DEF FileIs
<1>8. ASSUME NEW j \in Inst, j <= cur', pc'[j] # "gone" PROVE Stands(j)'
  <2>1. j = i /\ j = cur' /\ preq'[i] = n
    BY <1>1, <1>2, <1>8 DEF IndInv, TypeOK
  <2>2. Asks(i)'
    <3>1. n' = n
      BY <1>1
    <3>2. \A s \in Data'.ops : s < n
      BY <1>2, <1>4 DEF Done
    <3>3. Bound(preq[i])'
      BY <1>5, <2>1, <3>1
    <3> QED BY <1>3, <2>1, <3>2, <3>3 DEF Asks
  <2> QED BY <1>1, <2>1, <2>2 DEF Stands
<1> QED BY <1>6, <1>7, <1>8 DEF Resumable, Agreed, GeneratorIs

\* Every step: one that is not straight has only the log to keep.
LEMMA NextResumable == IndInv /\ Resumable /\ [Next]_vars => Resumable'
<1> SUFFICES ASSUME IndInv, Resumable, [Next]_vars PROVE Resumable'
  OBVIOUS
<1>1. CASE MasterPurge \/ Start \/ \E n \in 1..MaxBatch : MasterWrite(n)
  BY <1>1, PurgeResumable, StartResumable, WriteResumable
<1>2. ASSUME NEW i \in Inst, Serve(i) PROVE Resumable'
  BY <1>2, ServeResumable
<1>3. CASE UNCHANGED masterVars /\ ~Straight'
  BY <1>3 DEF Resumable, LogShape, Contiguous, Bound, masterVars
<1>4. CASE Straight'
  <2>1. Straight
    BY <1>4, StraightBefore DEF IndInv
  <2>2. \A i \in Inst : ~RetryFromZero(i)
    BY <1>4 DEF RetryFromZero, Straight
  <2>3. ASSUME NEW i \in Inst, Accept(i) \/ WriteBatch(i) \/ SaveSn(i) PROVE Resumable'
    BY <1>4, <2>1, <2>3, AcceptResumable, BatchResumable, SaveResumable
  <2>4. CASE \/ Started \/ Stop \/ Detach \/ Attach \/ Crash \/ UNCHANGED vars
             \/ \E i \in Inst : Tick(i) \/ ServeNotFound(i) \/ GiveUp(i)
    BY <1>4, <2>1, <2>4, SameSteps
  <2> QED BY <1>1, <1>2, <2>2, <2>3, <2>4 DEF Next, Generator
<1>5. CASE ~(MasterPurge \/ Start \/ \E n \in 1..MaxBatch : MasterWrite(n))
  <2>1. UNCHANGED masterVars
    BY <1>5 DEF Next, Generator, Started, Stop, Detach, Attach, Crash, Tick, Serve, ServeNotFound,
                RetryFromZero, GiveUp, Accept, WriteBatch, SaveSn, vars
  <2> QED BY <2>1, <1>3, <1>4
<1> QED BY <1>1, <1>5

\* wrocksdb_slave.cpp:95-108 and 206-222: wherever the process stopped or died, an object that
\* finds a number resumes at the first operation that the data lacks, and the data has every
\* operation at most once, in the cases ResumesExactly leaves in, with however many objects.
THEOREM RestartsResumeExactly == Spec => ResumesExactly
<1> DEFINE Step ==
      cur' # cur /\ ReadSn > 0 /\ astray' = {} /\ unseen = {} /\ ~shelf.exists =>
        db'.twice = {} /\ \A s \in Seqs : s < preq'[cur'] <=> s \in db'.ops \cup lost
<1>1. IndInv /\ Resumable /\ [Next]_vars => Step \/ UNCHANGED vars
  <2> SUFFICES ASSUME IndInv, Resumable, [Next]_vars, cur' # cur, ReadSn > 0, astray' = {},
                      unseen = {}, ~shelf.exists
               PROVE  db'.twice = {} /\ \A s \in Seqs : s < preq'[cur'] <=> s \in db'.ops \cup lost
    OBVIOUS
  <2> DEFINE k == cur + 1
             d == IF db.exists THEN db ELSE Fresh
  <2>1. Start
    BY DEF Next, Generator, MasterWrite, MasterPurge, Started, Stop, Detach, Attach, Crash, Tick, Serve,
           ServeNotFound, RetryFromZero, GiveUp, Accept, WriteBatch, SaveSn, vars, instVars
  <2>2. /\ k \in Inst /\ cur' = k /\ db' = d /\ preq' = [preq EXCEPT ![k] = FirstSeq(ReadSn, d.seq)]
        /\ astray \subseteq astray'
    BY <2>1 DEF Start, IndInv, TypeOK, Inst
  <2>3. preq'[cur'] = FirstSeq(ReadSn, d.seq)
    BY <2>2 DEF IndInv, TypeOK
  <2>4. FirstSeq(ReadSn, d.seq) = ReadSn /\ ReadSn \in Nat
    BY DEF FirstSeq, Invalid, NoFile, IndInv, TypeOK, ReadSn, SnFile
  <2>5. db'.ops = db.ops /\ shelf.ops = {} /\ Data.ops = db.ops /\ db.ops \subseteq Nat
    <3>1. (~db.exists => db.ops = {}) /\ shelf.ops = {} /\ db.ops \subseteq Seqs
      BY DEF IndInv, DataShape, TypeOK, Database
    <3>2. Data.ops = db.ops
      BY <3>1 DEF Data
    <3>3. d.ops = db.ops
      BY <3>1 DEF Fresh
    <3> HIDE DEF d
    <3> QED BY <2>2, <3>1, <3>2, <3>3 DEF Seqs
  <2>6. Agreed
    BY <2>2 DEF Resumable, Straight
  <2>7. db'.twice = {}
    <3>1. Straight'
      BY <2>1, <2>4 DEF Start, Straight, NoFile
    <3>2. Agreed'
      BY <3>1, NextResumable DEF Resumable
    <3>3. db'.exists
      BY <2>2 DEF Fresh
    <3> QED BY <3>2, <3>3 DEF Agreed, DataIs, Data
  <2>8. ASSUME NEW s \in Seqs PROVE s < ReadSn <=> s \in db.ops \cup lost
    <3>1. s < ReadSn => s < file \/ s < dfile
      BY DEF ReadSn
    <3>2. s < ReadSn => s \in db.ops \cup lost
      BY <3>1, <2>5 DEF IndInv, Accounted, Known
    <3>3. s \in db.ops \cup lost => s < ReadSn
      BY <2>5, <2>6 DEF Agreed, FileIs, Done
    <3> QED BY <3>2, <3>3
  <2> QED BY <2>3, <2>4, <2>5, <2>7, <2>8
<1>2. Spec => [][Step]_vars
  BY <1>1, InitResumable, NextResumable, Invariance, PTL DEF Spec
<1> QED BY <1>2 DEF ResumesExactly
=============================================================================
