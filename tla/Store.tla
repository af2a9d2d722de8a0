------------------------------- MODULE Store -------------------------------
(***************************************************************************)
(* What a database promises to those who write to it: a write takes effect *)
(* at once or never, and at most once; the answer comes once; and a value  *)
(* it tells is one the key had when it should.                             *)
(***************************************************************************)
EXTENDS Naturals, Sequences

CONSTANTS
  Requests,
  NoValue \* a key that has none, and an answer that tells none

VARIABLES
  op,      \* per request: none yet; a write that tells the value after it or before
           \* it, or nothing
  since,   \* per request: how many writes there were when it was made
  history, \* the writes, each with its request and the value it left
  answers  \* per request: the answers, each with a status and a value

vars == <<op, since, history, answers>>

Init ==
  /\ op = [r \in Requests |-> "none"] /\ since = [r \in Requests |-> 0]
  /\ history = <<>> /\ answers = [r \in Requests |-> <<>>]

MadeBy(r, h) == {n \in DOMAIN h : h[n].by = r}

\* The values that the key has had from the n-th write on; 0 is before the first.
ValuesFrom(n, h) == {IF m = 0 THEN NoValue ELSE h[m].value : m \in n..Len(h)}

\* Answers that are a promise not to write.
Denials == {"ioerror", "invalidfieldvalue"}

Unwritten(r) ==
  MadeBy(r, history) = {} /\ \A i \in DOMAIN answers[r] : answers[r][i].status \notin Denials

\* What r may be told when the history is h.
Right(r, a, h) ==
  /\ a.status # "ok" => a.value = NoValue
  /\ a.status \in Denials => MadeBy(r, h) = {}
  /\ a.status = "ok" /\ op[r] = "after" =>
       \E n \in MadeBy(r, h) : a.value \in ValuesFrom(n, h)
  /\ a.status = "ok" /\ op[r] = "before" => a.value \in ValuesFrom(since[r], h)

Told(r) ==
  /\ answers[r] = <<>> /\ Len(answers'[r]) = 1
  /\ answers' = [answers EXCEPT ![r] = answers'[r]]

\* A request is made, and may be refused at once.
Begin(r) ==
  /\ op[r] = "none"
  /\ \E kind \in {"after", "before", "quiet"} : op' = [op EXCEPT ![r] = kind]
  /\ since' = [since EXCEPT ![r] = Len(history)]
  /\ answers' = answers \/ (Told(r) /\ answers'[r][1].status \in {"null", "invalidfieldvalue"})
  /\ UNCHANGED history

\* The write takes effect, with the answer or without.
Write(r) ==
  /\ op[r] # "none" /\ Unwritten(r)
  /\ Len(history') = Len(history) + 1
  /\ history' = Append(history, history'[Len(history')])
  /\ history'[Len(history')].by = r
  /\ answers' = answers \/ (Told(r) /\ Right(r, answers'[r][1], history'))
  /\ UNCHANGED <<op, since>>

Tell(r) ==
  /\ op[r] # "none" /\ Told(r) /\ Right(r, answers'[r][1], history)
  /\ UNCHANGED <<op, since, history>>

Next == \E r \in Requests : Begin(r) \/ Write(r) \/ Tell(r)

Spec == Init /\ [][Next]_vars
=============================================================================
