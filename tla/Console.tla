------------------------------ MODULE Console ------------------------------
(***************************************************************************)
(* The commands typed at the service's console (prefixdb_cmd.cpp): the     *)
(* request each makes of its words, that then goes the way of any request, *)
(* and the text it makes of each answer.  Words left out have the values   *)
(* that the request has of itself.                                         *)
(***************************************************************************)
EXTENDS RequestCheck

ASSUME DefaultLimitAssumption == Word > 100 + MaxLimit

VARIABLE typed \* the command, or none for a request that came another way

NotTyped == [cmd |-> "none"]

\* set, corrupt: a prefix, a key and a value, which set makes a JSON string of when it
\* is not JSON.  inc: a missing key is the text "null".  Lengths, as in RequestCheck.
Stores == [cmd : {"set", "corrupt", "inc"}, prefix : {NoPrefix} \cup Lengths,
           key : {0} \cup Lengths, value : Lengths, json : BOOLEAN]
Lists  == [cmd : {"del", "get"}, prefix : {NoPrefix} \cup Lengths,
           keys : UNION {[1..n -> Lengths] : n \in 0..MaxFields}]
Scans  == [cmd : {"range"}, prefix : {NoPrefix, 1}, from : {Nothing} \cup Keys,
           to : {Nothing} \cup Keys, offset : 0..MaxLimit, limit : 0..MaxLimit]
          \cup [cmd : {"gpi"}, prefix : {NoPrefix, 1}, from : {Nothing},
                to : {Nothing}, offset : {0}, limit : 0..MaxLimit]

\* compact_prefix and repair_json, of one prefix or, without one or with `*`, of all;
\* those that take a list of prefixes or none.
Others ==
  [cmd : {"compact_prefix", "repair_json", "detach_prefixes", "attach_prefixes",
          "get_all_prefixes", "delay_background", "continue_background"},
   prefix : {NoPrefix, 1}]

Commands == Stores \cup Lists \cup Scans \cup Others

Quotes == 2
Null == 4
DefaultLimit == 100

\* What the console refuses by itself.
Incomplete(c) ==
  \/ c.cmd \in {"set", "corrupt", "gpi"} /\ c.prefix = NoPrefix
  \/ c.cmd \in {"set", "corrupt"} /\ c.key = 0

StoredLength(c) == IF c.cmd = "set" /\ ~c.json THEN c.value + Quotes ELSE c.value
KeyLength(c) == IF c.key = 0 THEN Null ELSE c.key

\* The request.  gpi asks for statistics, of all the keys unless told.
RequestOf(c) ==
  CASE c.cmd \in {"set", "corrupt", "inc"} ->
         [kind |-> "set", cb |-> TRUE, prefix |-> c.prefix,
          fields |-> <<[key |-> KeyLength(c), value |-> StoredLength(c)]>>]
    [] c.cmd = "del" ->
         [kind |-> "del", cb |-> TRUE, prefix |-> c.prefix,
          fields |-> [i \in DOMAIN c.keys |-> [key |-> c.keys[i], value |-> 0]]]
    [] c.cmd \in {"range", "gpi"} ->
         [kind |-> "range", cb |-> TRUE, prefix |-> c.prefix, from |-> c.from, to |-> c.to,
          beg |-> TRUE, offset |-> c.offset, stat |-> c.cmd = "gpi",
          limit |-> IF c.cmd = "range" /\ c.limit = 0 THEN DefaultLimit ELSE c.limit]
    [] c.cmd = "get" \/ (c.cmd \in {"compact_prefix", "repair_json"} /\ c.prefix # NoPrefix) ->
         [kind |-> "one", cb |-> TRUE, prefix |-> c.prefix, op |-> c.cmd]
    [] OTHER -> [kind |-> "all", cb |-> TRUE, prefix |-> NoPrefix, op |-> c.cmd]

\* multidb answers once for all prefixes, whatever became of each; only the compaction
\* has a result, and that of attach_prefixes is made with &= from false.
StatusOfAll ==
  IF asked.op = "attach_prefixes" THEN {"CreatePrefixFail"}
  ELSE IF asked.op = "compact_prefix" THEN {"OK", "CompactFail"}
  ELSE {"OK"}
RouteAll ==
  /\ pc = "all" /\ pc' = "over"
  /\ \E status \in StatusOfAll :
       /\ answers' = IF asked.cb THEN <<status>> ELSE <<>>
       /\ done' = (opens /\ status # "CompactFail")
  /\ UNCHANGED <<state, prefix, res>>

\* The text made of an answer.  Most commands print its status, and end the process
\* when there is no answer to print it of; the first three do not look at it.
Blind == {"set", "corrupt", "inc"}
Text(c, status) ==
  IF c.cmd \in Blind THEN "OK"
  ELSE IF status = "null" THEN "crash"
  ELSE IF c.cmd \in {"compact_prefix", "repair_json"} /\ status # "OK" THEN "FAIL"
  ELSE status

Said == [i \in DOMAIN answers |-> Text(typed, answers[i])]

InitTyped ==
  /\ typed \in {c \in Commands : ~Incomplete(c)} /\ asked = RequestOf(typed)
  /\ IF asked.kind = "range" THEN conf \in {[range |-> n] : n \in RangeLimits}
                             ELSE conf \in {Config(l) : l \in Limits}
  /\ writable \in BOOLEAN /\ opens \in BOOLEAN
  /\ keys = Keys /\ same = {} /\ prefix = asked.prefix
  /\ suspended \in BOOLEAN /\ pc = "gate"
  /\ answers = <<>> /\ done = FALSE /\ res = NoPage

InitConsole == InitTyped \/ (typed = NotTyped /\ Init)

NextConsole == (Next \/ RouteAll) /\ UNCHANGED typed

SpecConsole == InitConsole /\ [][NextConsole]_<<vars, typed>>
-----------------------------------------------------------------------------
(* Properties. *)

\* What a command says first is OK if and only if it was done, but for the three that
\* do not look, those for all prefixes, and attach_prefixes, which never says OK.
SaysFate ==
  Over /\ typed # NotTyped =>
    /\ Said # <<>>
    /\ done /\ typed.cmd # "attach_prefixes" => Head(Said) = "OK"
    /\ asked.kind # "all" /\ typed.cmd \notin Blind => (Head(Said) = "OK" => done)

\* The process is ended by the answer of a suspended instance alone, and then by no
\* command that writes one value.
EndsOnlySuspended ==
  typed # NotTyped /\ "crash" \in Range(Said) => suspended /\ typed.cmd \notin Blind

\* A request with a callback is answered when it is over, and one that is not done
\* hears no OK, be it typed or not: the first answer tells.
AnswersTell ==
  /\ asked.kind # "all" => FirstAnswerTells
  /\ SaysFate /\ EndsOnlySuspended
=============================================================================
