-------------------------- MODULE SlaveReplication --------------------------
(***************************************************************************)
(* Replication of one prefix: the master side of get_updates_since         *)
(* (wrocksdb.cpp) and the slave that pulls from it (wrocksdb_slave.cpp,    *)
(* since_reader.cpp).                                                      *)
(*                                                                         *)
(* The master's database is the sequence of its operations, numbered       *)
(* 1..latest; a write batch is a run of consecutive numbers.  The          *)
(* write-ahead log keeps the batches from `wal` on.  The slave's database  *)
(* is the set of the master's operations that were written into it.        *)
(*                                                                         *)
(* A slave object lives from wrocksdb_slave::start to stop; the process or *)
(* the prefix may be restarted, and each restart makes a new object, here  *)
(* the instances 1..cur.  The update generator of an instance that has     *)
(* been stopped may still be running when the next instance starts: the    *)
(* two share the file slave-sequence-number.                               *)
(***************************************************************************)
EXTENDS Integers, FiniteSets

(***************************************************************************)
(* A definition named Op_Word is the form Op would have after a plausible  *)
(* mistake; nothing uses it but the check that a property would notice.    *)
(***************************************************************************)

CONSTANTS
  MaxSeq,          \* bound: operations the master performs
  MaxBatch,        \* bound: operations in one write batch of the master
  MaxInst,         \* bound: slave objects created
  Limit,           \* slave_config::log_limit_per_req, in batches
  AcceptableLoss,  \* slave_config::acceptable_loss_seq
  ExpiresForReq,   \* slave_config::expires_for_req
  Faults           \* what the environment may do, a subset of AllFaults

AllFaults == {"early", "stop", "crash", "detach", "purge", "gone", "werr"}

ASSUME BoundsAssumption ==
  /\ MaxSeq \in Nat /\ MaxBatch \in Nat \ {0} /\ MaxInst \in Nat \ {0}
ASSUME ConfigAssumption ==
  /\ Limit \in Nat \ {0} /\ AcceptableLoss \in Nat /\ ExpiresForReq \in BOOLEAN
ASSUME FaultsAssumption == Faults \subseteq AllFaults

Seqs == 1..MaxSeq
Inst == 1..MaxInst

Invalid == -1      \* static_cast<uint64_t>(-1), "a batch is being written"
NoFile  == -2      \* the file does not exist

VARIABLES
  latest,  \* the master's last sequence number
  batches, \* the master's write batches, by their first and last numbers
  wal,     \* the first sequence number the master's write-ahead log retains
  file,    \* slave-sequence-number: NoFile, Invalid, 0 (empty) or a number
  dfile,   \* slave-sequence-number.detach
  db,      \* the slave's database directory
  shelf,   \* the directory detach_prefixes moves the database to
  cur,     \* the newest slave object
  life,    \* per instance: none, starting, up, stopped
  pc,      \* per instance: where the requester and its generator are
  preq,    \* per instance: preq->seq
  chance,  \* per instance: _second_chance
  next,    \* per instance: since_reader::_next_seq_number
  res,     \* per instance: the response being handled
  todo,    \* per instance: the batch parsed and not yet written, lo..hi
  lost,    \* operations counted in _lost_counter
  unseen,  \* auxiliary: operations passed over with no count (see Accounted)
  astray   \* auxiliary: the objects that asked from 0, or were made beside a generator

masterVars == <<latest, batches, wal>>
diskVars   == <<file, dfile, db, shelf>>
instVars   == <<cur, life, pc, preq, chance, next, res, todo>>
auxVars    == <<lost, unseen, astray>>
vars       == <<masterVars, diskVars, instVars, auxVars>>

-----------------------------------------------------------------------------
\* The database the factory creates, and the absence of one.
Fresh  == [exists |-> TRUE,  ops |-> {}, twice |-> {}, seq |-> 0]
Absent == [exists |-> FALSE, ops |-> {}, twice |-> {}, seq |-> 0]

\* The number of integers in lo..hi.
Size(lo, hi) == IF hi < lo THEN 0 ELSE hi - lo + 1

\* DB::Write of the operations lo..hi: each takes a sequence number of the
\* slave's own database.
Written(d, lo, hi) ==
  [exists |-> d.exists,
   ops    |-> d.ops \cup (lo..hi),
   twice  |-> d.twice \cup (d.ops \cap (lo..hi)),
   seq    |-> d.seq + Size(lo, hi)]

-----------------------------------------------------------------------------
(* The master. *)

\* The batches GetUpdatesSince(seq) iterates over: those retained, from the
\* one that contains seq.
From_Any(seq) == {b \in batches : b.first >= wal}
From(seq) == {b \in batches : b.first >= wal /\ b.last >= seq}

\* The part of them that fits log_limit_per_req.
Page(S) == {b \in S : Cardinality({t \in S : t.first < b.first}) < Limit}

NoLogs(st) == [status |-> st, empty |-> TRUE, first |-> 0, cut |-> 0,
               last |-> 0, end |-> 0, final |-> latest]

\* No response is being handled.
NoReply == [NoLogs("OK") EXCEPT !.final = 0]

\* `cut` and `end` stand for the contents of the logs: the last operations of
\* the first and of the last batch.
Logs(b, e) == [status |-> "OK", empty |-> FALSE, first |-> b.first, cut |-> b.last,
               last |-> e.first, end |-> e.last, final |-> latest]

\* wrocksdb::get_updates_since, as the set that holds its one answer.
\* GetUpdatesSince refuses a number that is not yet written, and the code then
\* answers OK with no logs; an iterator that is not valid is answered with
\* InvalidSeqNumber.
Replies(seq) ==
  IF seq > latest THEN {NoLogs("OK")}
  ELSE IF From(seq) = {} THEN {NoLogs("InvalidSeqNumber")}
  ELSE LET P == Page(From(seq))
       IN  {Logs(x[1], x[2]) : x \in
              {y \in P \X P : \A t \in P : y[1].first <= t.first /\ t.first <= y[2].first}}

MasterWrite(n) ==
  /\ latest + n <= MaxSeq
  /\ latest' = latest + n
  /\ batches' = batches \cup {[first |-> latest + 1, last |-> latest + n]}
  /\ UNCHANGED <<wal, diskVars, instVars, auxVars>>

\* RocksDB deletes old write-ahead logs.
MasterPurge ==
  /\ "purge" \in Faults
  /\ \E w \in {b.first : b \in batches} \cup {latest + 1} : w > wal /\ wal' = w
  /\ UNCHANGED <<latest, batches, diskVars, instVars, auxVars>>

-----------------------------------------------------------------------------
(* The life of a slave object. *)

\* read_sequence_number_, with the .detach file as the second source.
ReadSn == IF file # NoFile THEN file ELSE dfile

\* create_updates_requester_: where a new instance resumes.
FirstSeq_Unchecked(sn, own) == IF sn \in {0, NoFile} THEN own + 1 ELSE sn
FirstSeq(sn, own) ==
  IF sn = Invalid THEN 0
  ELSE IF sn \in {0, NoFile} THEN own + 1
  ELSE sn

\* wrocksdb::start -> slave_start_(0) -> wrocksdb_slave::start(0) -> start_, up
\* to the requester: from here on its timer can fire, _is_started is false.
Start ==
  /\ cur < MaxInst
  /\ cur > 0 => life[cur] = "stopped"
  /\ LET k == cur + 1
         d == IF db.exists THEN db ELSE Fresh
     IN  /\ cur' = k
         /\ db' = d
         /\ life' = [life EXCEPT ![k] = "starting"]
         /\ preq' = [preq EXCEPT ![k] = FirstSeq(ReadSn, d.seq)]
         /\ chance' = [chance EXCEPT ![k] = file = NoFile /\ dfile # NoFile]
         /\ unseen' = unseen \cup (IF ReadSn \in {0, NoFile} THEN (1..d.seq) \ d.ops ELSE {})
         /\ astray' = astray \cup {i \in {k} : ReadSn = Invalid \/ \E j \in 1..cur : pc[j] # "gone"}
  /\ UNCHANGED <<masterVars, file, dfile, shelf, pc, next, res, todo, lost>>

\* start_ takes the mutex and sets _is_started.
Started ==
  /\ cur > 0 /\ life[cur] = "starting"
  /\ life' = [life EXCEPT ![cur] = "up"]
  /\ UNCHANGED <<masterVars, diskVars, cur, pc, preq, chance, next, res, todo, auxVars>>

\* wrocksdb::stop_(false): _is_started becomes false under the mutex, the
\* timers are released.  A generator that is running goes on.
Stop ==
  /\ "stop" \in Faults
  /\ cur > 0 /\ life[cur] = "up"
  /\ life' = [life EXCEPT ![cur] = "stopped"]
  /\ pc' = [pc EXCEPT ![cur] = IF @ = "idle" THEN "gone" ELSE @]
  /\ UNCHANGED <<masterVars, diskVars, cur, preq, chance, next, res, todo, auxVars>>

\* wrocksdb::detach_prefixes, the final pass: stop_(true) also renames the
\* sequence file, and the database directory is moved aside.  file::move first
\* deletes what is at the destination, here the database detached earlier.
Detach ==
  /\ "detach" \in Faults
  /\ cur > 0 /\ life[cur] = "up"
  /\ life' = [life EXCEPT ![cur] = "stopped"]
  /\ pc' = [pc EXCEPT ![cur] = IF @ = "idle" THEN "gone" ELSE @]
  /\ dfile' = IF file # NoFile THEN file ELSE dfile
  /\ file' = NoFile
  /\ db' = Absent
  /\ shelf' = db
  /\ unseen' = unseen \cup (shelf.ops \ db.ops)
  /\ UNCHANGED <<masterVars, cur, preq, chance, next, res, todo, lost, astray>>

\* multidb::attach_prefixes: the directory is moved back if there is none.
Attach ==
  /\ shelf.exists /\ ~db.exists
  /\ db' = shelf /\ shelf' = Absent
  /\ UNCHANGED <<masterVars, file, dfile, instVars, auxVars>>

\* What the objects hold in memory, when there is nothing.
ForgetAll ==
  /\ preq' = [i \in Inst |-> 0] /\ chance' = [i \in Inst |-> FALSE]
  /\ next' = [i \in Inst |-> 0] /\ res' = [i \in Inst |-> NoReply]
  /\ todo' = [i \in Inst |-> [lo |-> 1, hi |-> 0]]

\* The process dies.  A crash inside write_sequence_number_ leaves the file
\* truncated, and an empty file is read as 0.
Crash ==
  /\ "crash" \in Faults
  /\ cur > 0
  /\ file' \in {file} \cup (IF \E i \in Inst : pc[i] \in {"marked", "written"}
                              THEN {0} ELSE {})
  /\ life' = [i \in Inst |-> IF i <= cur THEN "stopped" ELSE life[i]]
  /\ pc' = [i \in Inst |-> IF i <= cur THEN "gone" ELSE pc[i]]
  /\ ForgetAll
  /\ UNCHANGED <<masterVars, dfile, db, shelf, cur, auxVars>>

-----------------------------------------------------------------------------
(* The update generator of instance i. *)

Running(i) == life[i] = "up" \/ (life[i] = "starting" /\ "early" \in Faults)

\* The timer fires: the generator is called with no response and returns the
\* request.
Tick(i) ==
  /\ pc[i] = "idle" /\ Running(i)
  /\ pc' = [pc EXCEPT ![i] = "wait"]
  /\ UNCHANGED <<masterVars, diskVars, cur, life, preq, chance, next, res, todo, auxVars>>

\* The master answers the request of instance i.
Serve(i) ==
  /\ pc[i] = "wait"
  /\ pc' = [pc EXCEPT ![i] = "reply"]
  /\ \E r \in Replies(preq[i]) : res' = [res EXCEPT ![i] = r]
  /\ UNCHANGED <<masterVars, diskVars, cur, life, preq, chance, next, todo, auxVars>>

\* The master does not have the prefix: the generator gives up until the next
\* tick.
ServeNotFound(i) ==
  /\ "gone" \in Faults
  /\ pc[i] = "wait"
  /\ pc' = [pc EXCEPT ![i] = IF life[i] = "stopped" THEN "gone" ELSE "idle"]
  /\ UNCHANGED <<masterVars, diskVars, cur, life, preq, chance, next, res, todo, auxVars>>

\* A generator that returns nullptr waits for the timer, if there is one.
Rest_NoTimer(i) == "gone"
Rest(i) == IF life[i] = "stopped" THEN "gone" ELSE "idle"

\* The master cannot serve the position asked for.
BadReply(i) == res[i].status # "OK" \/ preq[i] > res[i].final + 1

\* More operations are missing than acceptable_loss_seq.
TooMuchLost_ByOne(i) ==
  ~res[i].empty /\ preq[i] # 0 /\ res[i].first - preq[i] > AcceptableLoss + 1
TooMuchLost(i) ==
  /\ ~res[i].empty /\ preq[i] # 0
  /\ res[i].first - preq[i] > AcceptableLoss

\* _second_chance: start again from sequence number 0, once.
RetryFromZero(i) ==
  /\ pc[i] = "reply"
  /\ BadReply(i) \/ TooMuchLost(i)
  /\ chance[i]
  /\ chance' = [chance EXCEPT ![i] = FALSE]
  /\ preq' = [preq EXCEPT ![i] = 0]
  /\ pc' = [pc EXCEPT ![i] = "wait"]
  /\ res' = [res EXCEPT ![i] = NoReply]
  /\ astray' = astray \cup {i}
  /\ UNCHANGED <<masterVars, diskVars, cur, life, next, todo, lost, unseen>>

\* The same with no second chance left, logged as FATAL; or nothing new.  The
\* request is unchanged and is sent again when the timer fires.
GiveUp(i) ==
  /\ pc[i] = "reply"
  /\ \/ (BadReply(i) \/ TooMuchLost(i)) /\ ~chance[i]
     \/ ~BadReply(i) /\ res[i].empty
  /\ pc' = [pc EXCEPT ![i] = Rest(i)]
  /\ res' = [res EXCEPT ![i] = NoReply]
  /\ UNCHANGED <<masterVars, diskVars, cur, life, preq, chance, next, todo, auxVars>>

\* since_reader::read_record_ drops the operations below _next_seq_number and
\* then sets it to the end of the record: only the first record is filtered.
FirstKept(r, nx) ==
  IF nx <= r.first THEN r.first
  ELSE IF nx <= r.cut THEN nx
  ELSE r.cut + 1

\* What updates_generator_ stores before it writes the batch.
MarkFile_Keep == file
MarkFile == Invalid

\* The position of the next request: since_reader::get_next_seq_number.
NextSn_First(i) == res[i].first
NextSn_Final(i) == res[i].final + 1
NextSn_Last(i) == todo[i].hi
NextSn(i) == todo[i].hi + 1

\* The response is accepted: the gap is counted, the logs are parsed into a
\* batch and the file is marked invalid.
Accept(i) ==
  /\ pc[i] = "reply"
  /\ ~BadReply(i) /\ ~TooMuchLost(i) /\ ~res[i].empty
  /\ pc' = [pc EXCEPT ![i] = "marked"]
  /\ todo' = [todo EXCEPT ![i] = [lo |-> FirstKept(res[i], next[i]), hi |-> res[i].end]]
  /\ next' = [next EXCEPT ![i] = res[i].end + 1]
  /\ file' = MarkFile
  /\ IF preq[i] # 0
       THEN /\ lost' = lost \cup (preq[i]..(res[i].first - 1))
            /\ unseen' = unseen
       ELSE /\ lost' = lost
            /\ unseen' = unseen \cup ((1..(res[i].first - 1)) \ db.ops)
  /\ UNCHANGED <<masterVars, dfile, db, shelf, cur, life, preq, chance, res, astray>>

\* Under the mutex: the batch is written if the instance is started; an error
\* of DB::Write is only logged.
WriteBatch(i) ==
  /\ pc[i] = "marked"
  /\ pc' = [pc EXCEPT ![i] = "written"]
  /\ \/ /\ life[i] = "up"
        /\ db' = Written(db, todo[i].lo, todo[i].hi)
        /\ unseen' = unseen
     \/ /\ life[i] # "up" \/ "werr" \in Faults
        /\ db' = db
        /\ unseen' = unseen \cup ((todo[i].lo..todo[i].hi) \ db.ops)
  /\ UNCHANGED <<masterVars, file, dfile, shelf, cur, life, preq, chance, next, res, todo, lost,
                 astray>>

\* The next sequence number is stored, whether or not the batch was written,
\* and the next request is sent unless the end of the log is reached.
SaveSn(i) ==
  /\ pc[i] = "written"
  /\ file' = NextSn(i)
  /\ preq' = [preq EXCEPT ![i] = NextSn(i)]
  /\ pc' = [pc EXCEPT ![i] = IF res[i].last = res[i].final \/ ExpiresForReq
                               THEN Rest(i) ELSE "wait"]
  /\ res' = [res EXCEPT ![i] = NoReply]
  /\ UNCHANGED <<masterVars, dfile, db, shelf, cur, life, chance, next, todo, auxVars>>

-----------------------------------------------------------------------------
Init ==
  /\ latest = 0 /\ batches = {} /\ wal = 1
  /\ file = NoFile /\ dfile = NoFile
  /\ db = Absent /\ shelf = Absent
  /\ cur = 0
  /\ life = [i \in Inst |-> "none"]
  /\ pc = [i \in Inst |-> "idle"]
  /\ preq = [i \in Inst |-> 0]
  /\ chance = [i \in Inst |-> FALSE]
  /\ next = [i \in Inst |-> 0]
  /\ res = [i \in Inst |-> NoReply]
  /\ todo = [i \in Inst |-> [lo |-> 1, hi |-> 0]]
  /\ lost = {} /\ unseen = {} /\ astray = {}

Generator(i) ==
  \/ Tick(i) \/ Serve(i) \/ ServeNotFound(i)
  \/ RetryFromZero(i) \/ GiveUp(i) \/ Accept(i) \/ WriteBatch(i) \/ SaveSn(i)

Next ==
  \/ \E n \in 1..MaxBatch : MasterWrite(n)
  \/ MasterPurge
  \/ Start \/ Started \/ Stop \/ Detach \/ Attach \/ Crash
  \/ \E i \in Inst : Generator(i)

Spec == Init /\ [][Next]_vars

\* The prefix is opened, and the threads of the timer and of the master run:
\* nothing in the code makes a step of the generator wait for another.
Fairness ==
  /\ WF_vars(Start) /\ WF_vars(Started)
  /\ \A i \in Inst :
       WF_vars(Tick(i) \/ Serve(i) \/ RetryFromZero(i) \/ GiveUp(i)
                 \/ Accept(i) \/ WriteBatch(i) \/ SaveSn(i))

FairSpec == Spec /\ Fairness
-----------------------------------------------------------------------------
(* Properties. *)

Database == [exists : BOOLEAN, ops : SUBSET Seqs, twice : SUBSET Seqs, seq : Nat]
Response == [status : {"OK", "InvalidSeqNumber"}, empty : BOOLEAN,
             first : Nat, cut : Nat, last : Nat, end : Nat, final : Nat]
SnFile   == Nat \cup {Invalid, NoFile}

\* Every variable holds a value of its kind.
TypeOK ==
  /\ latest \in 0..MaxSeq /\ wal \in 1..(latest + 1)
  /\ batches \subseteq [first : 1..latest, last : 1..latest]
  /\ file \in SnFile /\ dfile \in SnFile
  /\ db \in Database /\ shelf \in Database
  /\ cur \in 0..MaxInst
  /\ life \in [Inst -> {"none", "starting", "up", "stopped"}]
  /\ pc \in [Inst -> {"idle", "wait", "reply", "marked", "written", "gone"}]
  /\ preq \in [Inst -> Nat] /\ chance \in [Inst -> BOOLEAN] /\ next \in [Inst -> Nat]
  /\ res \in [Inst -> Response]
  /\ todo \in [Inst -> [lo : Nat \ {0}, hi : Nat]]
  /\ lost \subseteq Seqs /\ unseen \subseteq Nat \ {0} /\ astray \subseteq Inst

\* An operation is accounted for when it is in the slave's data, or counted as
\* lost, or was passed over in one of the ways `unseen` records: a batch parsed
\* by an instance that is not started or whose write failed, a log read from
\* sequence number 0, a resumption from the slave's own sequence number, a
\* detached database deleted by the next detach.
Known(s) == s \in db.ops \cup shelf.ops \cup lost \cup unseen

\* Whatever stops, crashes, detaches, purges or fails, no stored sequence number
\* and no position a generator holds is ever ahead of an operation that is not
\* accounted for: those are the only ways the slave can pass over an operation.
Accounted ==
  /\ \A s \in Seqs : s < file \/ s < dfile => Known(s)
  /\ \A i \in Inst : \A s \in Seqs : s < preq[i] => Known(s)

\* What makes Accounted inductive.
\* The batches of the log are runs of operations that do not overlap.
BatchShape ==
  /\ \A b \in batches : b.first <= b.last
  /\ \A b, c \in batches : b = c \/ b.last < c.first \/ c.last < b.first

\* A missing directory has no data, and only the newest instance is started, on
\* a database that exists.
DataShape ==
  /\ ~db.exists => db.ops = {}
  /\ ~shelf.exists => shelf.ops = {}
  /\ \A i \in Inst : life[i] \in {"starting", "up"} => i = cur /\ db.exists

\* A response with logs starts and ends with batches of the master, and its
\* first batch reaches the position asked for.
ReplyShape ==
  \A i \in Inst : pc[i] = "reply" /\ ~res[i].empty =>
    /\ 1 <= res[i].first /\ res[i].first <= res[i].cut
    /\ res[i].cut <= res[i].end /\ res[i].end <= MaxSeq
    /\ preq[i] <= res[i].cut

\* The parsed batch ends where the log parser stands.
TodoShape ==
  \A i \in Inst : pc[i] \in {"marked", "written"} =>
    todo[i].hi + 1 = next[i] /\ todo[i].hi <= MaxSeq

\* Everything below the log parser's position is accounted for, but for the
\* batch that waits to be written.
ParsedAccounted ==
  \A i \in Inst : \A s \in Seqs : pc[i] # "gone" /\ s < next[i] =>
    Known(s) \/ (pc[i] = "marked" /\ s \in todo[i].lo..todo[i].hi)

\* Between two requests the parser stands at the position of the next one.
ParserAtRequest ==
  \A i \in Inst : pc[i] \notin {"marked", "written", "gone"} =>
    preq[i] = 0 \/ next[i] = 0 \/ next[i] = preq[i]

\* An instance that is not made yet has done nothing.
Unborn ==
  \A i \in Inst : i > cur => life[i] = "none" /\ pc[i] = "idle" /\ next[i] = 0

IndInv == /\ TypeOK /\ Unborn /\ BatchShape /\ DataShape /\ ReplyShape /\ TodoShape
          /\ Accounted /\ ParsedAccounted /\ ParserAtRequest

\* While nothing stops it, the slave's data is exactly the operations below its
\* position, each applied once, less those counted as lost.
ExactlyOnce ==
  /\ db.twice = {} /\ unseen = {}
  /\ \A i \in Inst : i = cur /\ pc[i] \notin {"marked", "written"} =>
       \A s \in Seqs : s < preq[i] <=> s \in db.ops \cup lost

\* Within one session the generator parses forwards: what it is about to write
\* is beyond everything it parsed before, unless it went back to 0.
ParsesForward ==
  [][\A i \in Inst : pc[i] = "reply" /\ pc'[i] = "marked" /\ preq[i] # 0
        => todo'[i].lo >= next[i]]_vars

\* A restart that finds a sequence number resumes at the first operation the data
\* lacks, over data that has every operation at most once: the number and the data agree
\* wherever the process stops or dies.  Not so when an object was ever started at a number
\* left invalid (logged as FATAL), took its second chance, or was made while the generator
\* of the one before was still in its handler, which then leaves its own number behind; nor
\* when an operation was passed over in a way `unseen` records, or beside a database put
\* aside, whose number the new one takes over.
ResumesExactly ==
  [][cur' # cur /\ ReadSn > 0 /\ astray' = {} /\ unseen = {} /\ ~shelf.exists =>
       db'.twice = {} /\ \A s \in Seqs : s < preq'[cur'] <=> s \in db'.ops \cup lost]_vars

\* slave_config.hpp:42: when more sequences than acceptable_loss_seq are lost,
\* the daemon ends; so a slave that goes on has lost no more than that.
LossWithinAcceptable ==
  \A i \in Inst : life[i] = "up" /\ pc[i] = "wait" =>
    Cardinality({s \in Seqs : s < preq[i] /\ s \notin db.ops}) <= AcceptableLoss

\* Every operation of the master reaches the slave, unless the master deletes logs
\* that the slave has not read.
CatchesUp ==
  \A s \in Seqs : (s <= latest) ~> (s \in db.ops \/ ~(1..(wal - 1) \subseteq db.ops))
=============================================================================
