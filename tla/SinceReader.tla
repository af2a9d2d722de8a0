---------------------------- MODULE SinceReader ----------------------------
(***************************************************************************)
(* What a slave makes of the records of its master's log (since_reader),   *)
(* and what the master made of the values before it wrote them             *)
(* (repair_json_).  A response is a list of batches, a batch a list of     *)
(* operations, each with the sequence number after the one before it.      *)
(*                                                                         *)
(* A text is the JSON value it begins with and whether more follows; one   *)
(* that begins with none has NotJson.  (4.junk is 4 and more: both sides   *)
(* look for an integer when there is no JSON.)  No text is empty.          *)
(* The stamp that RocksDB appends to values, and get_item cuts off, is     *)
(* left out, but for this: where get_item fails it stays in front of its   *)
(* value, and the byte it finds there is taken to be no operation's type.  *)
(***************************************************************************)
EXTENDS MergeOperator

CONSTANT Hidden \* the keys that get_key hides

NotJson == [is |-> "bad"]

Clean(v) == [val |-> v, junk |-> FALSE]
Dirty(v) == [val |-> v, junk |-> TRUE]
Trash == Dirty(NotJson)

\* rocksdb::Slice().
Blank == Clean(NotJson)

(***************************************************************************)
(* A definition named Op_Word is the form Op would have after a plausible  *)
(* mistake; nothing uses it but the check that a property would notice.    *)
(***************************************************************************)

\* With repair_json_values: the JSON a text begins with, or the text as a string.
Repaired_Junk(t) == IF t.val = NotJson THEN Clean(Text) ELSE t
Repaired(t) == IF t.val = NotJson THEN Clean(Text) ELSE Clean(t.val)

Recorded(repairs, t) == IF repairs THEN Repaired(t) ELSE t

\* The operation that a request writes.  An operand is put around the text of a merge,
\* and is no JSON if the text is not JSON to its end.
Logged(repairs, r) ==
  CASE r.type = "put"   -> [type |-> "put", key |-> r.key, text |-> Recorded(repairs, r.text)]
    [] r.type = "merge" -> [type |-> "merge", key |-> r.key,
                            op |-> IF r.junk /\ ~repairs THEN [mode |-> "junk"] ELSE r.op]
    [] r.type = "del"   -> r

\* get_item finds the value's end.
Readable(o) ==
  CASE o.type = "put"   -> o.text.val # NotJson
    [] o.type = "merge" -> o.op.mode # "junk"
    [] o.type = "del"   -> TRUE

\* The operation read: what follows the JSON is cut off, and of a value that is none
\* nothing is left.
Item(o) ==
  IF o.type # "put" THEN o
  ELSE [o EXCEPT !.text = IF Readable(o) THEN Clean(o.text.val) ELSE Blank]

\* get_key hides the empty key and one that is reserved: their operations are counted
\* and not applied.
Taken(o) == IF o.key \in Hidden THEN <<>> ELSE <<Item(o)>>

\* read_op_ and the loop of read_record_: operations below `next` are read and not
\* taken.  After one whose end was not found the batch is over.
ReadOp(state, o) ==
  IF state.over THEN state
  ELSE [ops  |-> IF state.sn < state.next THEN state.ops ELSE state.ops \o Taken(o),
        next |-> state.next,
        sn   |-> state.sn + 1,
        over |-> ~Readable(o)]

\* read_record_ of a batch that starts at `first`: the operations taken by now, and
\* _next_seq_number.
ReadRecord(state, batch) ==
  LET read == FoldLeft(ReadOp, [ops  |-> state.ops,   next |-> state.next,
                                sn   |-> batch.first, over |-> FALSE], batch.ops)
  IN  [ops |-> read.ops, next |-> read.sn]

\* logs_parser_: the batches of one response.
ReadLogs(next, batches) == FoldLeft(ReadRecord, [ops |-> <<>>, next |-> next], batches)
=============================================================================
