----------------------------- MODULE WritePath -----------------------------
(***************************************************************************)
(* Write requests to one prefix database (wrocksdb): set, and the merges,  *)
(* which take the same way, and del.  Every request runs on a thread of    *)
(* its own.  A write goes to RocksDB at once or, with                      *)
(* enable_delayed_write, through the queue of the write workflow, and may  *)
(* be answered before it is made (answer_before_write).  A del that is to  *)
(* return the fields it deletes reads them first and then deletes them.    *)
(* stop() closes the database under all of them.                           *)
(*                                                                         *)
(* One key stands for the fields of a request; a request is its number.    *)
(***************************************************************************)
EXTENDS Integers, Sequences, FiniteSets, SequencesExt

CONSTANTS
  MaxRequests,  \* bound: requests
  Shapes,       \* the requests made: a subset of AllShapes
  Configs,      \* the configurations used: a subset of AllConfigs
  MaxReconfs,   \* bound: calls of reconfigure
  MaxQueue,     \* length at which the write workflow drops what is posted
  Workers,      \* threads of the write workflow
  Faults        \* what may go wrong: a subset of AllFaults

\* gone: the request names a snapshot that is not there.  wrong: it is an inc, an add or
\* a packed, and a value is not the JSON that it should be.
AllShapes == [kind : {"set", "del"}, sync : BOOLEAN, nores : BOOLEAN, cb : BOOLEAN,
              gone : BOOLEAN, wrong : BOOLEAN]
\* enable_delayed_write, answer_before_write and check_incoming_merge_json.
AllConfigs == [delayed : BOOLEAN, before : BOOLEAN, checked : BOOLEAN]
AllFaults == {"stop", "ioerror"}

ASSUME BoundsAssumption == MaxRequests \in Nat /\ MaxReconfs \in Nat
ASSUME ConfigAssumption ==
  /\ Shapes \subseteq AllShapes /\ Configs \subseteq AllConfigs
  /\ MaxQueue \in Nat /\ Workers \in Nat \ {0}
ASSUME FaultsAssumption == Faults \subseteq AllFaults

Requests == 1..MaxRequests

VARIABLES
  conf,    \* the configuration in force
  reconfs, \* calls of reconfigure
  pc,      \* where the thread of each request is
  shape,   \* what it asks for
  queue,   \* requests posted to the write workflow
  log,     \* the writes RocksDB has made
  stopped, \* the database is stopped: _is_stopped, and _db is null
  taken,   \* what a del read before it deletes
  answers, \* the answers each request was given
  early,   \* auxiliary: requests answered before their write
  posted,  \* auxiliary: requests that went to the queue
  before,  \* auxiliary: the requests whose calls had returned when it was made
  since    \* auxiliary: how many writes there were

confVars == <<conf, reconfs>>
vars == <<confVars, pc, shape, queue, log, stopped, taken, answers, early, posted, before, since>>

(***************************************************************************)
(* A definition named Op_Word is the form Op would have after a plausible  *)
(* mistake; nothing uses it but the check that a property would notice.    *)
(***************************************************************************)

Missing == 0

\* The value of the key after the writes of s: the number of the set that wrote it.
ValueAfter(s) ==
  IF s = <<>> \/ shape[Last(s)].kind = "del" THEN Missing ELSE Last(s)

Answer(status, value) == [status |-> status, value |-> value]

\* cb(res), if there is a callback.
Call(r, res) ==
  answers' = IF shape[r].cb THEN [answers EXCEPT ![r] = Append(@, res)] ELSE answers

Go(r, to) == pc' = [pc EXCEPT ![r] = to]

\* A del returns the fields when there is someone to return them to.
Takes(s) == s.kind = "del" /\ ~s.nores /\ s.cb

\* The call has returned to its caller: the write workflow does the rest, if any.
Returned(r) == pc[r] = "done" \/ r \in posted
-----------------------------------------------------------------------------
(* The calling thread. *)

\* check_inc_, check_add_ and check_packed_.
Refused(s) == conf.checked /\ s.wrong

\* The call, up to the checks of _is_stopped and of the values; a del holds _db from
\* here on.
Submit(r, s) ==
  /\ pc[r] = "new" /\ \A q \in Requests : q < r => pc[q] # "new"
  /\ shape' = [shape EXCEPT ![r] = s]
  /\ before' = [before EXCEPT ![r] = {q \in Requests : Returned(q)}]
  /\ since' = [since EXCEPT ![r] = Len(log)]
  /\ IF stopped \/ Refused(s)
     THEN LET status == IF stopped THEN "null" ELSE "invalidfieldvalue"
          IN  /\ Go(r, "done")
              /\ answers' = [answers EXCEPT ![r] = IF s.cb THEN <<Answer(status, Missing)>> ELSE <<>>]
     ELSE /\ Go(r, IF Takes(s) THEN "take" ELSE "entered")
          /\ UNCHANGED answers
  /\ UNCHANGED <<confVars, queue, log, stopped, taken, early, posted>>

Early(r) ==
  conf.before /\ ~shape[r].sync /\ (shape[r].nores \/ shape[r].kind = "del") /\ shape[r].cb

\* The callback is gone once it has been called.
HasCallback_Kept(r) == shape[r].cb
HasCallback_Conf(r) == shape[r].cb /\ ~conf.before
HasCallback(r) == shape[r].cb /\ r \notin early
CallLast(r, res) ==
  answers' = IF HasCallback(r) THEN [answers EXCEPT ![r] = Append(@, res)] ELSE answers

\* write_batch_, as far as the answer.
AnswerEarly(r) ==
  /\ pc[r] = "entered" /\ Early(r)
  /\ Call(r, Answer("ok", Missing))
  /\ early' = early \cup {r}
  /\ Go(r, "batch")
  /\ UNCHANGED <<confVars, shape, queue, log, stopped, taken, posted, before, since>>

\* At the choice between the write and the queue.
AtBatch(r) == pc[r] = "batch" \/ (pc[r] = "entered" /\ ~Early(r))

Queues_Async(r) == conf.delayed /\ ~shape[r].sync
Queues(r) == conf.delayed
WriteNow(r) ==
  /\ AtBatch(r) /\ ~Queues(r)
  /\ Go(r, "write")
  /\ UNCHANGED <<confVars, shape, queue, log, stopped, taken, answers, early, posted, before, since>>

Full_Late == Len(queue) > MaxQueue
Full == Len(queue) >= MaxQueue
Post(r) ==
  /\ AtBatch(r) /\ Queues(r) /\ ~Full
  /\ queue' = Append(queue, r)
  /\ posted' = posted \cup {r}
  /\ Go(r, "queued")
  /\ UNCHANGED <<confVars, shape, log, stopped, taken, answers, early, before, since>>

\* The queue is full: the second handler is called.
Dropped_Ok == "ok"
Dropped == "ioerror"
Drop(r) ==
  /\ AtBatch(r) /\ Queues(r) /\ Full
  /\ CallLast(r, Answer(Dropped, Missing))
  /\ Go(r, "done")
  /\ UNCHANGED <<confVars, shape, queue, log, stopped, taken, early, posted, before, since>>

-----------------------------------------------------------------------------
(* The write workflow, and the write itself (write_batch_2db_). *)

\* A worker takes the oldest handler.
Run ==
  /\ queue # <<>>
  /\ Cardinality({r \in posted : pc[r] \in {"write", "written"}}) < Workers
  /\ queue' = Tail(queue)
  /\ Go(Head(queue), "write")
  /\ UNCHANGED <<confVars, shape, log, stopped, taken, answers, early, posted, before, since>>

\* _db, as a write finds it.
Open_Held == TRUE
Open == ~stopped

Write(r) ==
  /\ pc[r] = "write" /\ Open
  /\ log' = Append(log, r)
  /\ Go(r, "written")
  /\ UNCHANGED <<confVars, shape, queue, stopped, taken, answers, early, posted, before, since>>

WriteFails(r) ==
  /\ "ioerror" \in Faults
  /\ pc[r] = "write" /\ Open
  /\ CallLast(r, Answer("ioerror", Missing))
  /\ Go(r, "done")
  /\ UNCHANGED <<confVars, shape, queue, log, stopped, taken, early, posted, before, since>>

\* _db is null, and is used all the same: the process ends there.
WriteToNull(r) ==
  /\ pc[r] = "write" /\ ~Open
  /\ Go(r, "crashed")
  /\ UNCHANGED <<confVars, shape, queue, log, stopped, taken, answers, early, posted, before, since>>

\* What get_ finds: the snapshot is looked for first.
Found(r) ==
  IF shape[r].gone THEN Answer("snapshotnotfound", Missing)
  ELSE IF stopped THEN Answer("null", Missing)
  ELSE Answer("ok", ValueAfter(log))

\* If the value were read before the write.
Result_Before(r) == Answer("ok", ValueAfter(SubSeq(log, 1, since[r])))
Result(r) == Found(r)
WriteAnswer(r) ==
  /\ pc[r] = "written"
  /\ CallLast(r, IF shape[r].nores \/ shape[r].kind = "del" THEN Answer("ok", Missing) ELSE Result(r))
  /\ Go(r, "done")
  /\ UNCHANGED <<confVars, shape, queue, log, stopped, taken, early, posted, before, since>>

-----------------------------------------------------------------------------
(* A del that returns what it deletes. *)

Take(r) ==
  /\ pc[r] = "take"
  /\ taken' = [taken EXCEPT ![r] = Found(r)]
  /\ Go(r, "delete")
  /\ UNCHANGED <<confVars, shape, queue, log, stopped, answers, early, posted, before, since>>

\* The status of the deletion is not looked at.
Deleted(r) == {Append(log, r)} \cup (IF "ioerror" \in Faults THEN {log} ELSE {})
Delete(r) ==
  /\ pc[r] = "delete"
  /\ log' \in Deleted(r)
  /\ Call(r, taken[r])
  /\ Go(r, "done")
  /\ UNCHANGED <<confVars, shape, queue, stopped, taken, early, posted, before, since>>

-----------------------------------------------------------------------------
\* wrocksdb::stop_: the handlers in the queue lose their owner and do nothing.
Stop ==
  /\ "stop" \in Faults /\ ~stopped
  /\ stopped' = TRUE
  /\ pc' = [r \in Requests |-> IF pc[r] = "queued" THEN "lost" ELSE pc[r]]
  /\ queue' = <<>>
  /\ UNCHANGED <<confVars, shape, log, taken, answers, early, posted, before, since>>

\* wrocksdb::reconfigure.
Reconfigure(c) ==
  /\ reconfs < MaxReconfs /\ c # conf
  /\ conf' = c /\ reconfs' = reconfs + 1
  /\ UNCHANGED <<pc, shape, queue, log, stopped, taken, answers, early, posted, before, since>>

Init ==
  /\ conf \in Configs /\ reconfs = 0
  /\ pc = [r \in Requests |-> "new"]
  /\ shape = [r \in Requests |-> [kind |-> "set", sync |-> FALSE, nores |-> TRUE,
                                  cb |-> FALSE, gone |-> FALSE, wrong |-> FALSE]]
  /\ queue = <<>> /\ log = <<>> /\ stopped = FALSE
  /\ taken = [r \in Requests |-> Answer("null", Missing)]
  /\ answers = [r \in Requests |-> <<>>]
  /\ early = {} /\ posted = {} /\ before = [r \in Requests |-> {}]
  /\ since = [r \in Requests |-> 0]

\* One thread's steps, in a process that still runs.
Crashed == \E r \in Requests : pc[r] = "crashed"
Thread(r) ==
  \/ AnswerEarly(r) \/ WriteNow(r) \/ Post(r) \/ Drop(r)
  \/ Write(r) \/ WriteFails(r) \/ WriteToNull(r) \/ WriteAnswer(r)
  \/ Take(r) \/ Delete(r)

Next ==
  /\ ~Crashed
  /\ \/ \E r \in Requests, s \in Shapes : Submit(r, s)
     \/ \E r \in Requests : Thread(r)
     \/ \E c \in Configs : Reconfigure(c)
     \/ Run \/ Stop

Spec == Init /\ [][Next]_vars

\* Threads that can go on do, and so do the workers.
FairSpec ==
  Spec /\ WF_vars(~Crashed /\ Run) /\ \A r \in Requests : WF_vars(~Crashed /\ Thread(r))
-----------------------------------------------------------------------------
(* Properties. *)

Statuses == {"ok", "ioerror", "null", "snapshotnotfound", "invalidfieldvalue"}
Answers == [status : Statuses, value : {Missing} \cup Requests]

TypeOK ==
  /\ conf \in Configs /\ reconfs \in 0..MaxReconfs
  /\ pc \in [Requests -> {"new", "entered", "batch", "queued", "write", "written", "take",
                          "delete", "done", "lost", "crashed"}]
  /\ shape \in [Requests -> AllShapes]
  /\ queue \in Seq(Requests) /\ Len(queue) <= MaxQueue
  /\ log \in Seq(Requests) /\ stopped \in BOOLEAN
  /\ taken \in [Requests -> Answers] /\ answers \in [Requests -> Seq(Answers)]
  /\ early \subseteq Requests /\ posted \subseteq Requests /\ before \in [Requests -> SUBSET Requests]

\* A request is answered at most once, and once when it is over, unless it has no
\* callback or its handler was in the queue when the database was stopped.
AnsweredOnce ==
  \A r \in Requests :
    /\ Len(answers[r]) <= (IF shape[r].cb THEN 1 ELSE 0)
    /\ pc[r] = "done" /\ shape[r].cb => answers[r] # <<>>
    /\ pc[r] = "lost" => stopped /\ (answers[r] = <<>> \/ r \in early)

\* But for the answers given before the write, and for a del that returns what it
\* deletes, OK means that the write was made and an error that it never is; a
\* snapshot that is not there is told of once the write has been made.
AnswerTellsFate ==
  \A r \in Requests : answers[r] # <<>> /\ r \notin early /\ ~Takes(shape[r]) =>
    LET status == Head(answers[r]).status
    IN  /\ status \in {"ok", "snapshotnotfound"} => Contains(log, r)
        /\ status \in {"ioerror", "invalidfieldvalue"} => ~Contains(log, r)
        /\ status = "null" => stopped

\* A caller that makes one request after the other sees its writes made in that
\* order, where one thread serves the queue: what overtakes the queue is a del that
\* returns what it deletes, or a write made at once after a reconfiguration.
InOrder ==
  Workers = 1 =>
    \A i, j \in DOMAIN log : i < j /\ log[j] \in before[log[i]] =>
      /\ log[j] \in posted /\ log[i] \notin posted
      /\ Takes(shape[log[i]]) \/ reconfs > 0

\* Nothing is written to a database that was stopped but by such a del, which was
\* under way.
AfterStop ==
  [][stopped /\ log' # log => Takes(shape[Last(log')])]_vars

\* To those who write, the database is the one of Store: no value an answer tells is
\* older than it should be, and no write is made twice or against an answer.
Promise ==
  INSTANCE Store WITH
    NoValue <- Missing,
    op <- [r \in Requests |->
             IF pc[r] = "new" THEN "none" ELSE IF Takes(shape[r]) THEN "before"
             ELSE IF shape[r].nores \/ shape[r].kind = "del" THEN "quiet" ELSE "after"],
    history <- [n \in DOMAIN log |-> [by |-> log[n], value |-> ValueAfter(SubSeq(log, 1, n))]]

ImplementsStore == Promise!Spec

\* A request that got past the check is answered, unless the database is stopped.
GetsAnswer ==
  \A r \in Requests :
    (pc[r] \in {"entered", "take"} /\ shape[r].cb) ~> (answers[r] # <<>> \/ stopped)
=============================================================================
