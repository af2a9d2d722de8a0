--------------------------- MODULE MergeOperator ---------------------------
(***************************************************************************)
(* merge_operator::FullMergeV2: the value that an existing value and a     *)
(* stack of merge operands stand for (merge_operator.cpp).                 *)
(*                                                                         *)
(* JSON values are numbers, null, text, arrays, or objects whose fields    *)
(* hold the former.  An operand has the mode of the request that wrote it; *)
(* one that is not a merge at all has the mode "junk".  Numbers are small: *)
(* the width of int64_t is not modelled.                                   *)
(***************************************************************************)
EXTENDS Integers, Sequences, SequencesExt

Missing   == [is |-> "missing"]     \* existing_value is nullptr
Null      == [is |-> "null"]
Text      == [is |-> "text"]
Number(n) == [is |-> "number", num |-> n]
Array(s)  == [is |-> "array", items |-> s]
Object(f) == [is |-> "object", fields |-> f]

IsNumber(v) == v.is = "number"

-----------------------------------------------------------------------------
(* inc: {"inc": n, "val": n}, the default val only where there is no number. *)

IncOperand(st, op) ==
  LET base == IF st.exist THEN st.num ELSE IF IsNumber(op.val) THEN op.val.num ELSE 0
  IN  [num |-> base + (IF IsNumber(op.inc) THEN op.inc.num ELSE 0), exist |-> TRUE]

\* As after a mistake, which a property must notice: the existing number is not marked.
Inc_Unmarked(v, ops) ==
  Number(FoldLeft(IncOperand, [num |-> IF IsNumber(v) THEN v.num ELSE 0, exist |-> FALSE], ops).num)
Inc(v, ops) ==
  Number(FoldLeft(IncOperand,
                  [num |-> IF IsNumber(v) THEN v.num ELSE 0, exist |-> IsNumber(v)],
                  ops).num)

-----------------------------------------------------------------------------
(* add: {"arr": [...], "lim": n}, which keeps the last n items. *)

AddOperand(arr, op) ==
  LET all == arr \o op.arr
  IN  IF Len(all) > op.lim THEN SubSeq(all, Len(all) - op.lim + 1, Len(all)) ELSE all

Add(v, ops) == Array(FoldLeft(AddOperand, IF v.is = "array" THEN v.items ELSE <<>>, ops))

-----------------------------------------------------------------------------
(* packed: {"field": {"inc": n, "val": v}, ...}. *)

\* packed_inc_: a current value that is not a number gives way to val.
PackedInc(u, current) ==
  LET base == IF IsNumber(current) THEN current.num
              ELSE IF IsNumber(u.val) THEN u.val.num ELSE 0
  IN  Number(base + u.inc.num)

PackedField(f, u) ==
  LET current == IF u.field \in DOMAIN f THEN f[u.field] ELSE u.val
      value   == IF IsNumber(u.inc) THEN PackedInc(u, current) ELSE u.val
  IN  IF u.inc = Null /\ u.val = Null
      THEN [k \in DOMAIN f \ {u.field} |-> f[k]]
      ELSE [k \in DOMAIN f \cup {u.field} |-> IF k = u.field THEN value ELSE f[k]]

PackedOperand(f, op) == FoldLeft(PackedField, f, op.upd)

Packed(v, ops) ==
  Object(FoldLeft(PackedOperand, IF v.is = "object" THEN v.fields ELSE <<>>, ops))

-----------------------------------------------------------------------------
Setnx(v, ops) == IF v # Missing THEN v ELSE Head(ops).val

\* The method of the stack and the operands that count: those since the method
\* last changed, and a setnx only where nothing came before it.
Select(chosen, op) ==
  IF op.mode = "junk" \/ (op.mode = "setnx" /\ chosen.mode # "none") THEN chosen
  ELSE IF chosen.mode # op.mode THEN [mode |-> op.mode, ops |-> <<op>>]
  ELSE [chosen EXCEPT !.ops = Append(@, op)]

\* With no operand that counts the value becomes "ERROR".
FullMerge(v, operands) ==
  LET chosen == FoldLeft(Select, [mode |-> "none", ops |-> <<>>], operands)
  IN  CASE chosen.mode = "setnx"  -> Setnx(v, chosen.ops)
        [] chosen.mode = "inc"    -> Inc(v, chosen.ops)
        [] chosen.mode = "add"    -> Add(v, chosen.ops)
        [] chosen.mode = "packed" -> Packed(v, chosen.ops)
        [] chosen.mode = "none"   -> Text
=============================================================================
