---------------------------- MODULE RequestCheck ----------------------------
(***************************************************************************)
(* A request to prefixdb_domain, which refuses it while it is suspended or *)
(* hands it to multidb: the checks it meets (check_fields_, check_prefix_, *)
(* is_writable_, the limit of range), and what is done with it, on a       *)
(* database that does not change.  send_error answers, takes the prefix    *)
(* out of the request and, if there is a callback, returns true: most      *)
(* checks then go on, with a request that has no prefix.                   *)
(*                                                                         *)
(* "set" stands for set, setnx, inc, add and packed, which are checked in  *)
(* one way; "one" and "all" are requests without checks, of one prefix or  *)
(* of all.  A prefix, a key and a value are given by their lengths.        *)
(***************************************************************************)
EXTENDS RangeScan, Sequences, SequencesExt

CONSTANTS
  MaxKey,      \* bound: keys of the database are 1..MaxKey
  MaxLimit,    \* bound: limit and offset of a range, but for those near Word
  MaxLength,   \* bound: lengths
  MaxFields,   \* bound: fields of a request
  Word,        \* 2 ^ the width of size_t
  Limits,      \* multidb_config: the limits a service may have
  RangeLimits  \* multidb_config::range_limit

ASSUME BoundsAssumption ==
  MaxKey \in Nat /\ MaxLimit \in Nat /\ MaxLength \in Nat /\ MaxFields \in Nat
ASSUME WordAssumption == Word \in Nat /\ Word > 2 * MaxLimit
ASSUME LimitsAssumption ==
  /\ Limits \subseteq [keys_per_req : Nat, key_size : Nat, value_size : Nat, prefix_size : Nat]
  /\ RangeLimits \subseteq Nat

Keys == 1..MaxKey
Lengths == 1..MaxLength

NoPrefix == 0

Fielded ==
  [kind : {"set", "del"}, cb : BOOLEAN, prefix : {NoPrefix} \cup Lengths,
   fields : UNION {[1..n -> [key : Lengths, value : Lengths]] : n \in 0..MaxFields}]

Numbers == (0..MaxLimit) \cup {Word - 1}
Ranges ==
  [kind : {"range"}, cb : {TRUE}, from : {Nothing} \cup Keys, to : {Nothing} \cup Keys,
   beg : BOOLEAN, offset : Numbers, limit : Numbers, stat : BOOLEAN]

VARIABLES
  conf,      \* the limits in force
  suspended, \* the domain object is
  writable,  \* is_writable_ of the prefix asked for
  opens,     \* prefix_ gives a database for it
  keys,      \* the keys of the database
  same,      \* those whose value is the text of asked.to
  asked,     \* the request
  pc,        \* the check that is next, or "over"
  prefix,    \* the prefix that is left in the request
  answers,   \* the answers it was given
  done,      \* it was handed to the database
  res        \* the page that the database returned

vars == <<conf, suspended, writable, opens, keys, same, asked, pc, prefix, answers, done, res>>
state == <<conf, suspended, writable, opens, keys, same, asked>>

(***************************************************************************)
(* A definition named Op_Word is the form Op would have after a plausible  *)
(* mistake; nothing uses it but the check that a property would notice.    *)
(***************************************************************************)

NoPage == [fields |-> {}, fin |-> FALSE]

GoTo(check) == pc' = check /\ UNCHANGED <<state, prefix, answers, done, res>>

\* send_error, and the check that comes next when it returns true.  The string it
\* moves from is empty afterwards, as the library of the build leaves it.
Left_Copied == prefix
Left == NoPrefix
Refuse(status, check) ==
  /\ IF asked.cb
     THEN answers' = Append(answers, status) /\ prefix' = Left /\ pc' = check
     ELSE pc' = "over" /\ UNCHANGED <<answers, prefix>>
  /\ UNCHANGED <<state, done, res>>

Test(check, wrong, status, ifWrong, ifRight) ==
  pc = check /\ IF wrong THEN Refuse(status, ifWrong) ELSE GoTo(ifRight)

Exceeded(n, limit) == limit # 0 /\ n > limit
-----------------------------------------------------------------------------
\* Requests that are of no use without an answer, whatever they do.
Asking == {"get", "has", "get_updates_since", "get_all_prefixes", "create_snapshot"}
NotifyBan == ~asked.cb /\ (asked.kind = "range" \/ ("op" \in DOMAIN asked /\ asked.op \in Asking))

\* wfc's domain_object: a request is answered with null while it is suspended, and one of
\* the above that came as a notification is dropped.
Gate ==
  /\ pc = "gate"
  /\ IF suspended \/ NotifyBan
     THEN /\ answers' = IF asked.cb THEN <<"null">> ELSE <<>>
          /\ pc' = "over" /\ UNCHANGED <<state, prefix, done, res>>
     ELSE GoTo(IF asked.kind \in {"set", "del"} THEN "empty"
               ELSE IF asked.kind = "range" THEN "range"
               ELSE IF asked.kind = "all" THEN "all" ELSE "route")

CheckEmpty ==
  Test("empty", asked.fields = <<>>, "EmptyFields", "over",
       IF asked.kind = "del" THEN "writable" ELSE "prefix")

CheckPrefix == Test("prefix", prefix = NoPrefix, "EmptyPrefix", "count", "writable")

AfterWritable == IF asked.kind = "del" THEN "route" ELSE "length"
CheckWritable == Test("writable", ~writable, "PrefixReadonly", AfterWritable, AfterWritable)

CheckLength ==
  Test("length", Exceeded(prefix, conf.prefix_size), "PrefixLengthExceeded", "count", "count")

CheckCount ==
  Test("count", Exceeded(Len(asked.fields), conf.keys_per_req), "TooManyKeys", "route", "sizes")

\* The first field that is too long in either way; no limit counts if one of the
\* two is 0.
TooLong_Key(f) == f.key > conf.key_size
TooLong(f) == f.key > conf.key_size \/ f.value > conf.value_size
WrongSizes == {i \in DOMAIN asked.fields : TooLong(asked.fields[i])}
CheckSizes ==
  Test("sizes", conf.key_size # 0 /\ conf.value_size # 0 /\ WrongSizes # {},
       IF asked.fields[Min(WrongSizes)].key > conf.key_size
       THEN "KeyLengthExceeded" ELSE "ValueLengthExceeded",
       "route", "route")

Sum(m, n) == (m + n) % Word
CheckRange ==
  Test("range", Exceeded(Sum(asked.limit, asked.offset), conf.range),
       "RangeLimitExceeded", "over", "route")

\* The limit that wrocksdb::range goes by: statistics with no limit are of all keys,
\* whatever range_limit is.
LimitOf(r) == IF r.stat /\ r.limit = 0 THEN Word - 1 ELSE r.limit

\* The keys that are returned or counted, and fin.
PageOf(r) ==
  LET scan == [from |-> r.from, to |-> r.to, beg |-> r.beg, offset |-> r.offset, limit |-> LimitOf(r)]
  IN  [fields |-> Fields(keys, scan), fin |-> Fin(keys, same, scan)]

\* multidb::prefix_, and what becomes of the request.  OK stands for whatever the
\* database answers.
Route ==
  /\ pc = "route" /\ pc' = "over"
  /\ IF opens /\ prefix # NoPrefix
     THEN /\ done' = TRUE
          /\ answers' = IF asked.cb THEN Append(answers, "OK") ELSE answers
          /\ res' = IF asked.kind = "range" THEN PageOf(asked) ELSE res
     ELSE /\ answers' =
               IF ~asked.cb THEN answers
               ELSE Append(answers, IF asked.kind = "set" THEN "CreatePrefixFail" ELSE "PrefixNotFound")
          /\ UNCHANGED <<done, res>>
  /\ UNCHANGED <<state, prefix>>

\* The limits of writes, with none for ranges.
Config(l) ==
  [range |-> 0, keys_per_req |-> l.keys_per_req, key_size |-> l.key_size,
   value_size |-> l.value_size, prefix_size |-> l.prefix_size]

InitFielded ==
  /\ asked \in Fielded /\ conf \in {Config(l) : l \in Limits}
  /\ writable \in BOOLEAN /\ opens \in BOOLEAN
  /\ keys = {} /\ same = {}
  /\ prefix = asked.prefix

InitRange ==
  /\ asked \in Ranges /\ conf \in {[range |-> n] : n \in RangeLimits}
  /\ writable = TRUE /\ opens = TRUE
  /\ keys \in SUBSET Keys /\ same \in {{}} \cup {{k} : k \in keys}
  /\ prefix = 1

Init ==
  /\ InitFielded \/ InitRange
  /\ suspended \in BOOLEAN /\ pc = "gate"
  /\ answers = <<>> /\ done = FALSE /\ res = NoPage

Next ==
  \/ Gate \/ CheckEmpty \/ CheckPrefix \/ CheckWritable \/ CheckLength \/ CheckCount \/ CheckSizes
  \/ CheckRange \/ Route

Spec == Init /\ [][Next]_vars
-----------------------------------------------------------------------------
(* Properties. *)

Over == pc = "over"
Paged == done /\ asked.kind = "range"

\* Whether every field keeps within the limits, when both lengths are limited.
Fits ==
  /\ ~Exceeded(Len(asked.fields), conf.keys_per_req)
  /\ conf.key_size # 0 /\ conf.value_size # 0 =>
       \A i \in DOMAIN asked.fields :
         asked.fields[i].key <= conf.key_size /\ asked.fields[i].value <= conf.value_size

\* A request that a check refused never reaches the database, though the checks
\* go on; one that reaches it is allowed to.
RefusedIsNotDone ==
  Over /\ done /\ asked.kind \in {"set", "del"} =>
    /\ answers = IF asked.cb THEN <<"OK">> ELSE <<>>
    /\ opens /\ writable /\ asked.fields # <<>> /\ asked.prefix # NoPrefix
    /\ asked.kind = "set" => Fits /\ ~Exceeded(asked.prefix, conf.prefix_size)

\* A request with a callback is answered when it is over, and one that is not done
\* hears no OK: the first answer tells why.
FirstAnswerTells ==
  Over /\ asked.cb => answers # <<>> /\ (done <=> Head(answers) = "OK")

\* The keys asked for, in order, and those at the places first..last of them.
InRange == {k \in keys : k >= asked.from /\ (asked.to = Nothing \/ k <= asked.to)}
Wanted ==
  CHOOSE s \in [1..Cardinality(InRange) -> InRange] : \A i, j \in DOMAIN s : i < j => s[i] < s[j]

Places(first, last) == {Wanted[i] : i \in DOMAIN Wanted \cap (first..last)}

\* prefixdb_cmd.cpp:403-407, "75 fields from key1 to key2 inclusive, passing over
\* the first 25": the page is those keys, neither more nor fewer, and statistics
\* count the same.  Without beg it starts after `from`, provided that `from` is still
\* there, as a client relies on that continues from the last key it was given.
PageIsAsAsked ==
  LET start == IF asked.beg THEN asked.offset ELSE asked.offset + 1
  IN  Paged /\ (asked.beg \/ asked.from \in keys) =>
        res.fields = Places(start + 1, start + LimitOf(asked))

\* fin may be said with one key of the range unread, after a page that is full,
\* and never with more, unless the second key left has the text of `to` for a
\* value.
FinHidesAtMostOne ==
  LET left == {k \in keys : k > Max(res.fields) /\ (asked.to = Nothing \/ k <= asked.to)}
  IN  Paged /\ res.fin /\ res.fields # {} /\ same = {} =>
        /\ Cardinality(left) <= 1
        /\ left # {} => Cardinality(res.fields) = LimitOf(asked)
=============================================================================
