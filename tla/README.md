# PrefixDB: a verification development

PrefixDB is a wfc module: a key-value store that keeps one RocksDB database per key prefix, serves them over JSON-RPC,
queues writes, merges values with its own merge operator, takes backups, and replicates prefixes from a master by
pulling its write-ahead log. This directory models it in TLA+, checks the models with TLC on small instances, and
proves what matters most about the core with TLAPS.

Sources are named by their path under `src/package/prefixdb/domain/` unless the path says otherwise. The tree
`src/package/prefixdb/prefixdb/` is a copy that the build does not use.

## 1. The system

| part | source | state it keeps | operations |
|---|---|---|---|
| domain | prefixdb_domain.cpp | configuration | forwards every request to multidb |
| multidb | multidb/multidb.cpp | `_db_map` (prefix -> object, or null: denied or not openable), `_master_prefixes`, timers, limits | requests by prefix, attach, detach, backup, archive, restore, polling the master, stop |
| wrocksdb | multidb/wrocksdb/wrocksdb.cpp | `_db`, `_is_stopped`, the map of snapshots, the write workflow | set, setnx, inc, add, packed, del, get, has, range, get_updates_since, snapshots, pauses of background work, compaction, JSON repair, backup, archive, detach, stop |
| slave | wrocksdb_slave.cpp, since_reader.cpp | file slave-sequence-number, `_is_started`, `_second_chance`, parser position | start, stop, detach, the update generator |
| initial load | wrocksdb_initial.cpp | the page it is at | create_snapshot, range by range, release_snapshot |
| merge operator | merge/merge_operator.cpp | none (RocksDB calls it) | FullMergeV2 |
| factory, restore | wrocksdb_factory.cpp, wrocksdb_restore.cpp | options of RocksDB | create_db, restore |
| directories | multidb/aux/ | none | move, copy, scan |
| commands, gateway, API | service/, gateway/, api/ of the package | none | CLI, JSON-RPC, structures |

How they interact. A request enters on any thread of the pool; `multidb::prefix_` looks its object up, or opens it,
under `multidb::_mutex`, and the object is then used with no lock. Callbacks travel with the request. Delayed work
(the end of a denial, a detach that waits for users, timers of the slave and of the polling) is posted to a `wflow`
workflow and, if wrapped by an `_owner`, is dropped when the owner is reset by stop. A slave object is the child of its
wrocksdb; its generator runs as the callback of the master's answers. RocksDB, wflow, the filesystem and the network
are external.

What is hard here: stop, detach and failed backups take an object away under the threads that use it; a sequence number
kept in a file beside the data must agree with the data over crashes, stops and detaches; pages, log answers and
prefix lists are handled on whichever thread they come, against state that has moved on; RocksDB folds merges when it
likes. `PROJECT.json` lists these hazards at their lines, with the properties that would notice.

What makes each part correct:

* slave: no stored number is ahead of an operation that is neither in the data nor accounted for; operations are
  applied once; a restart resumes where the data ends; every operation arrives.
* table: a stopped object is not served for ever; an object that left the table is stopped; a denial ends, and is timed.
* following the master: a prefix the master keeps open is opened and not detached; one it removed is detached; a
  stopped instance opens nothing.
* initial load: after the handover the slave has what the master has, but for reasons that can be listed; it ends.
* ranges: a page is the part of the interval asked for; what `fin` hides is bounded.
* merges: a read does not depend on when RocksDB folds, nor on whether the master or a slave is asked.
* writes: one answer per request, which tells the truth about the write; order; nothing is written after stop.
* requests: what a check refused is not done; the gateway and the console say of it what the domain said.
* snapshots and maintenance: no snapshot is lost, released twice or told to another; no pause stays for ever.
* backups: there is one to restore from whatever step fails; an archive is of one piece; nobody waits for ever.

## 2. The modules

| module | models | uses |
|---|---|---|
| `SlaveReplication` | replication of one prefix: master log, answers, slave objects, sequence file, detach and attach of the data | |
| `ReplicaLog` | what replication promises while nothing stops it | |
| `SlaveRefinement` | that `SlaveReplication` implements it | both |
| `SlaveReplicationProofs` | theorems about them, and about `Replica` | TLAPS, `LeftFold` |
| `LeftFold` | lemmas on folds over lists, by induction | TLAPS |
| `MergeOperator` | `merge_operator::FullMergeV2`, a function of a value and a stack of operands | |
| `SinceReader` | what the slave's parser makes of the master's records, and `repair_json_` | `MergeOperator` |
| `Replica`, `MCReplica` | a master and its slave by what their keys hold, each folding operands when it likes | `SinceReader` |
| `PrefixTable` | the table of prefixes, its objects, threads, posted handlers, timers, directories | |
| `PrefixSync` | the slave's table following the list of the master's prefixes | |
| `PrefixProofs` | theorems about both | TLAPS |
| `WritePath`, `MCWritePath`, `WritePathProofs` | write requests on one database: early answer, queue, write, answer; del; stop; reconfigure | `Store` |
| `Store` | what a database promises to those who write to it | |
| `RangeScan` | the page of a range request, a function of the keys | |
| `RequestCheck` | the checks a request meets, its answers, and the page of a range | `RangeScan` |
| `Console` | the commands of the service: the request made of each, and the text made of each answer | `RequestCheck` |
| `Wire` | the members of every request and answer, and which of them JSON carries | |
| `Remote`, `MCRequestCheck`, `RequestCheckProofs` | a request made of the gateway in another process; theorems about it, the console and the checks | `Console`, `Wire` |
| `InitialLoad`, `InitialLoadProofs` | the load of a slave and its handover to replication | `RangeScan` |
| `DbObject` | one wrocksdb under the threads that use it, its timers, and its stop in two steps | |
| `Snapshots`, `Maintenance` | snapshots; pauses of the background work, compaction, JSON repair | `DbObject` |
| `Database`, `MCDatabase`, `DatabaseProofs` | the two on one object at once | both |
| `Backup`, `MCBackup`, `BackupProofs` | backups, archives and restoring of one prefix, and the directories | |

A definition named `Op_Word` is `Op` with a plausible mistake in it; `PROJECT.json` pairs each with a property that
must fail when `Op` is replaced by it.

### SlaveReplication, ReplicaLog, SlaveRefinement

The master is the number of its last operation, its write batches and the first number its log retains. Of the slave's
database the model keeps the set of the master's operations that were written into it, those written twice, and its own
sequence number. Slave objects are instances 1..cur; an instance that is stopped may still be in its generator while
the next one runs, because `stop` only releases timers, and both write the same file. The generator's steps are those
another thread or a crash can come between: the timer fires (`Tick`), the answer (`Serve`), its rejection (`GiveUp`,
`RetryFromZero`) or acceptance, which parses the logs and stores -1 (`Accept`), the write under the mutex
(`WriteBatch`), and the new number (`SaveSn`). Logs are represented by the numbers at which the first and last batches
start and end, which is all the generator and the parser look at.

`Accounted` is the central invariant: below every stored number, and below the position of every generator, each
operation is in the data, in the detached data, counted in `_lost_counter`, or in `unseen`, the operations passed over
with no count. `unseen` grows in five places, each of them a step of the code: a batch parsed by an object that is not
started, a failed write, a log read from 0, a resumption at the slave's own number, and a detached database deleted
by the next detach. So the invariant says that these are the only ones; it is what one has to know to trust a slave.

`ResumesExactly` says where a restart resumes: at the first operation the data lacks. The code lets number and data
part in ways besides `unseen`, which the auxiliary `astray` records, by object. One is stopped while its generator is
in its handler; the next one writes further, the first then stores its own, older number, and a third repeats what is
there. One finds -1 in the file, or takes its second chance, and asks from 0; stopped before it writes, it leaves a
number that is not that of the data. And a database taken up beside one put aside has the other's number.

`ReplicaLog` says the same without files, numbers or requests, for a session that nothing stops: a replica takes whole
batches in order, each once, and may miss some if it counts them, at most `acceptable_loss_seq` operations at a time.
`SlaveRefinement` maps the data of the slave to that of the replica and `_lost_counter`'s operations to the missed.

### MergeOperator, SinceReader, Replica

`SlaveReplication` is about which operations arrive; `Replica` is about what they do there. Values are numbers, text,
arrays and objects, and a text is the JSON value it begins with and whether more follows. `FullMerge` takes the
operands after the last change of method and applies that method, as FullMergeV2 does. `SinceReader` translates
`get_item`, record by record, with what happens at a value that is not JSON: the record is stored without a value, the
value's bytes are taken for the next one, and the rest of the batch goes unread while the numbers go on. Both sides
fold the operands of a key at any time. `ReplicasAgree` compares the two sides once the slave has caught up,
`FoldsUnseen` each side before and after any fold. Both except the keys merged with two methods and, without
`repair_json_values`, those a value that is not JSON reaches.

### PrefixTable

Threads have a program counter; a request, a backup, a detach and the posted handlers are sequences of steps of one
thread, and the steps are the sections under `_mutex` and the points where an object is looked at without it. An object
is alive while the table, a thread or a posted handler refers to it, and RocksDB's lock on the directory follows from
that. Time is counted in ticks for the timers of denials; a timer that is due fires some time later. The model is of a
service with `abort_if_open_error = false`: with the default a database that cannot be opened ends the process.

### PrefixSync

Two callers, the poll and the one request of an initial load, ask, get the list of the master's prefixes, and
handle it prefix by prefix: open what is listed, forget and detach what was known and is not. Prefixes may be refused
by the slave's lists, or read-only at the master. The instance may be restarted with its process, or stopped and
started within it, which loses the master (`prefixdb_domain.cpp:75`); handlers under way go on meanwhile. How a detach
proceeds is the matter of `PrefixTable`; here it is one step per prefix.

### WritePath, Store

Each request runs on a thread; its steps are the early answer, the check of merged values, the choice of the queue, the
post (or the drop by a full queue), the write and the answer after it. `stop` clears the queue and makes `_db` null; a
write that finds it null ends the process. A del with a callback reads first and deletes afterwards, holding `_db`.
`Store` is the database as its clients may see it: a write takes effect at once or never and at most once, a request
has one answer, a refused write is not made, and a value told is the one after the write, or, by a del, one the key
had since the request was made. `ImplementsStore` is the refinement.

### RequestCheck, Console, Wire, Remote

One request meets the gate of a suspended instance and the checks of multidb, one action per check. `send_error`
answers, moves the prefix out of the request and returns true, which most callers take for "go on": the next checks see
a request without a prefix, and it is answered again, up to the one that cannot be routed. That nothing is carried out
(`RefusedIsNotDone`) rests on that move alone. Lengths stand for names, keys and values; `set` stands for the five
writes, which are checked in one way. Sums of limits wrap at `Word`.

`Console` puts a typed command before it and its output after it. `Remote` puts a gateway, a connection that may be
lost, and a service around it: `Wire` lists, for the 19 methods, what a structure has and what its JSON carries, and a
request is the set of its members that differ from the default. The members that JSON leaves out are named in
`NotCarried`; `RemoteAsLocal` says there are no others.

### RangeScan, InitialLoad

The iterator is the set of keys it has not passed, so `Seek`, offset, `beg`, `limit`, `to` and `fin` are set
expressions. `InitialLoad` reads the pages of a master that keeps changing: values are the number of the operation that
put them and of the increments merged since, so that a repetition of an operation is visible where it does harm and
invisible where it does not. `cause` records, per key, why the slave may differ; `Converges` says that there is no
other reason. Replication here repeats each operation once, in order: what `SlaveReplication` is about.

### DbObject, Snapshots, Maintenance, Database

A request holds the object the table gave it, and `stop` takes the database away in two steps. Where the code uses `_db`
without a test (`get_property`, repair) or a released snapshot, the process ends (`Crash`). A snapshot is made first,
put into the map under the mutex, and its number read again afterwards without it: `crossed` marks a request that
another overtook there. RocksDB counts pauses of its background work; a pause posts the timer that ends it. A repair
reads all it will write through one iterator, and other clients write meanwhile.

### Backup

The timer of the backup and that of the archive run on two threads, with the mutex of the table and that of each
object. The steps are the calls of the filesystem and of the backup engine, each of which may fail, and a crash or a
stop may come between any two: put the directory aside, remove, purge, make, close, reopen, try once more; copy, list
by list and file by file, purge. An archive that goes on through a closed object copies a directory to which its
successor may be writing. A restore picks from what is there, any backup of which may be damaged.

## 3. The runs

| run | question | states |
|---|---|---|
| `slave_faults` | all faults together, two sessions, three operations in batches of up to two: `Accounted`, `ParsesForward`, `ResumesExactly` | 1,341,257 |
| `slave_live` | one session nothing stops, a log that is purged, five operations: `ExactlyOnce`, `CatchesUp`, `ImplementsReplicaLog` | 5,549 |
| `slave_stop_loss` | violation of `LossWithinAcceptable`: a stopped and reopened prefix loses a batch with `acceptable_loss_seq = 0` and goes on | |
| `replica` | up to three operations of every method and kind of text on two keys and a hidden one, with JSON repair and without, responses of up to two batches: `ReplicasAgree`, `FoldsUnseen` | 486,960 |
| `table_race` | one prefix, two threads, two objects, denials, failed backups, stop: `ClosedOnlyWhileDetaching`, `DroppedIsDetaching`, `DenialHasTimer`, `DetachCompletes`, `DenialEnds` | 59,455 |
| `prefix_sync` | three prefixes (one read-only at the master, one refused by the slave, one there already), three changes, a restart, a stop, all faults: `KnownIsOpen`, `DetachedWasClosed`, `GetsOpened`, `GetsDetached` | 171,599 |
| `write_path` | two requests of every shape, a queue of one, one worker, a reconfiguration, stop, I/O errors: `AnswerTellsFate`, `InOrder`, `AfterStop`, `ImplementsStore`, `GetsAnswer` | 248,381 |
| `request_check` | every write, deletion, range and other request, made in the process, typed or remote, with each limit on or off, over databases of up to four keys: `RefusedIsNotDone`, `AnswersTell`, `PageIsAsAsked`, `FinHidesAtMostOne`, `RemoteAsLocal` | 1,982,402 |
| `initial_load` | two loads of up to three keys with pages of one key, two further operations, all faults, with and without `use_setnx`: `Converges`, `DoubledOnlyInLoad`, `PassesFew`, `LoadEnds` | 666,327 |
| `database` | two clients, three requests, their timers and a stop, three keys: `HandlesAccounted`, `SnapshotIsOwn`, `PauseHasTimer`, `TimeoutsEnd`, `RepairLeavesAtMostOne` | 509,966 |
| `backup` | depth two, three backups, two failures, two archives, every fault of the disk, a stop, crashes, a restore: `KeepsAPoint`, `ArchiveIsWhole`, `RestoresGood`, `TasksEnd` | 257,066 |
| `restore_asked` | violation of `RestoresWhatWasAsked`: a restore that asks for backup 2 is given the latest | |

What the two violations show is in `PROJECT.json` under `findings`, with the comment each contradicts. Every property
of the other runs has a mutant there: a plausible mistake in one definition, under which the same run fails.

Why the bounds are enough to be interesting.

* Replication: two slave objects are what it takes for a stopped generator to meet its successor; three operations in
  batches of two make a response that starts inside a batch, a page shorter than the log, and a gap wider than the
  loss accepted. What the second object leaves behind takes a third to find (`astray`): with two operations that is
  6.1 million states of all faults, where `ResumesExactly` and its invariant hold too; the theorem is for any number.
* Table: two threads are what every race needs, and two objects are the one being detached and the one that replaces
  it. The limit on the number of prefixes is off in this run.
* Prefixes: two changes of the master overtake one poll; a third makes a prefix come back.
* Writes: the properties relate at most two requests; a queue of one is full with one of them.
* Ranges and loads: three keys make a page that is neither first nor last, a key that a resumption skips and one that
  `fin` hides; four make two keys after it. `Word` is 256, near which limit plus offset wraps.
* Database: two requests at once may be told one number; the third uses or releases it.
* Backups: a depth of two is the least that keeps a backup over a purge; two failures in a row are the least that lose
  both directories, and the third backup makes the purge happen.

`CHECK_DEADLOCK FALSE` stands where the bounds, or stop, let the model come to rest; `slave_live`, which must never
stop, is checked for deadlock.

Fairness. Threads that can go on do: the pool runs what is posted and nothing in a handler waits for another.

* Weak fairness of the steps of each thread, handler or generator: `Step` of `PrefixTable`, `Handler` of `PrefixSync`,
  `Load` and `Replay` of `InitialLoad`, a generator's steps and the start of `SlaveReplication`, `Thread` and the
  queue's `Run` of `WritePath` while the process lives, `Steps` of `Database`, both tasks of `Backup`.
* Timers fire: weak fairness of `Tick`, `EndDenial`, `Ask`, `TimerStep`.
* A posted detach gets a thread again and again because the pool serves one queue (strong fairness of `DetachAgain`:
  between two attempts requests may keep the threads busy).
* The master answers infinitely many requests of the poll (strong fairness of `Reply`, as answers may be lost); in
  `InitialLoad` it answers each.

No fairness is assumed of clients, faults, restarts or the master's changes.

## 4. The proofs

The proofs assume what the modules' named ASSUMEs say of the constants, and what a theorem states; nothing else. They
state every invariant and every action property that a passing run checks, and both refinements. TLC has checked each
inductive invariant too, in place of the properties of its module's run.

`SlaveReplicationProofs`, for every bound, configuration and set of faults: `TypeCorrect` (Spec => []TypeOK),
`Invariance` (Spec => []IndInv), `NothingPassedOverSilently` (Spec => []Accounted) and `SessionParsesForward`
(Spec => ParsesForward). `Accounted` is not inductive. A generator stores `next` after writing, so one must know that
everything below the parser's position is accounted for except the batch in hand (`ParsedAccounted`), that the batch
ends where the parser stands (`TodoShape`), that the parser stands at the position of the next request between requests
(`ParserAtRequest`), that answers reach the position asked for and do not end before they start (`ReplyShape`, from
`BatchShape`), that only the newest object is started and on data that exists (`DataShape`), and that objects not made
yet have done nothing (`Unborn`). Their conjunction `IndInv` is proved action by action.

The same module, for the sessions that nothing stops (assumption `Undisturbed`: the only fault is a purge):
`SessionImplementsLog` (Spec => ImplementsReplicaLog) and `SessionAppliesOnce` (Spec => []ExactlyOnce). Every step maps
to a step of `ReplicaLog` or a stutter: `WriteBatch` to a batch taken, `Accept` of an answer that starts late to
operations missed, a write of the master to a batch of it. What one must add to `IndInv` is `Session`: the master's
batches follow each other without a gap (`Contiguous`), there is one object and nothing has been put aside
(`OneSession`), and the data, the parser and the batch in hand are in step (`InStep`).

And with every fault again, `RestartsResumeExactly` (Spec => ResumesExactly), from `Resumable`. Positions are borders
of the master's batches (`Bound`) that everything in the data or counted as lost is below (`Done`): so is the number in
the file, if there is one (`FileIs`), what a generator asks from, holds, or has written (`Stands`), and that generator
is the newest object's. The data has whole batches, its own number counts its operations, and what it may have lost is
purged (`DataIs`). All this while nothing is `astray` or `unseen`, which once so stays so.

The same module has `Replica`, for all requests, batches, keys, responses and values, and any folding: `MergeConcat`
(operands of one method, merged in two parts, come to what they come to at once), `ReplicaAlways` (SpecReplica =>
[]ReplicaInv), `ReplicasAlwaysAgree` (SpecReplica => []ReplicasAgree) and `FoldsAlwaysUnseen` (SpecReplica =>
[]FoldsUnseen). `ReplicasAgree` speaks of the last state of a history, so the invariant compares each side with a
database that never folds (`Unfolded`): a side reflects the batches it is through with if each of its keys stands for
what is there, some of the oldest operands folded (`StandsFor`, `Reflects`). The master is through with the log; the
slave with a part of it, at whose end it may also be stuck within a batch, behind a value that is not JSON (`Through`).
Keys that are damaged are left out of both, and the log must be known to be gapless and made of what requests write
(`LogInv`). That folding keeps what a key stands for is `MergeConcat`.

All these definitions are folds over lists of operands, operations and batches. `FoldLeft` is a function defined by
recursion over sets of positions, and the library's induction takes an operator that no installed prover can
instantiate; `LeftFold` goes another way. Its constant `Op` is the operator folded, and is instantiated for each. That
a set with 0 and every successor has every number follows from its having a least number left out; from this, that the
recursion has one solution, and the equations of a fold: of the empty list, of one more element (`FoldAppend`), of one
list after another (`FoldConcat`), and what every step keeps (`FoldKeeps`). An induction over lists is then a set of
lists that has the empty one and every list one longer than one it has (`ListInduction`).

`PrefixProofs`, for every set of prefixes and threads, limits and denials: `Invariance` (Spec => []IndInv),
`NoClosedDatabaseIsServed` (Spec => []ClosedOnlyWhileDetaching), `NoDatabaseIsForgotten` (Spec => []DroppedIsDetaching)
and `EveryDenialIsTimed` (Spec => []DenialHasTimer). The strengthening says that threads and handlers refer to objects
made for the prefix they deal with (`RefersToMade`), that an object still in the table which a posted handler detaches
is being removed by a call (`PostedIsRemoved`), and how far a detach has come at each of its steps (`DetachedByOne`).

About `PrefixSync`, for every set of prefixes and lists of those allowed, and any number of changes, stops and restarts:
`KnownStaysOpen` (SpecSync => []KnownIsOpen) and `OpenPrefixIsNotDetached` (SpecSync => DetachedWasClosed). One must
know that a prefix kept is one an answer lists, that the only handler has it still to look at or has not found it gone,
and that what it detaches it has forgotten (`OneHandler`).

`WritePathProofs`, for any number of requests, workers and reconfigurations, and every queue and fault:
`AnswersTellFate` (Spec => []AnswerTellsFate), `WritesInOrder` (Spec => []InOrder), `NothingAfterStop` (Spec =>
AfterStop) and `WritePathImplementsStore` (Spec => ImplementsStore). The invariant `WriteInv` says what the place of a
thread tells of its request (`Stage`): what it was answered so far (`Owed`), what a request that is over was told
(`Settled`), what a del has read (`Read`); that the queue holds the handlers that wait, each once (`Queued`); that
with one worker none that has left the queue precedes one made before it (`Fifo`); and that until a reconfiguration
all requests take one way (`SameWay`). The refinement maps the log to the history of `Store`; that a value read is one
the key had since the call needs that `since` was the length of the log then, and that earlier writes stay what they
were (`LeftStays`).

`RequestCheckProofs`, over `Remote` with all requests, limits, lengths and databases, made in the process, typed or
sent: `RefusedIsNeverDone` (SpecRemote => []RefusedIsNotDone), `AnswersAreTrue` (AnswersTell), `PagesAreAsAsked`
(PageIsAsAsked), `LastPagesLeaveOne` (FinHidesAtMostOne) and `RemoteIsLocal` (RemoteAsLocal). As the checks go on after
a refusal, one must know that a request that still has its prefix has not been answered (`Intact`), what the checks
passed so far have found right of it (`PassedChecks`), and that nothing says OK before the end (`Told`). `RemoteInv`
puts the way of a request around it: a request at the wire has not begun (`AtWire`), one typed was not sent (`Near`),
what is served is what JSON carries of what was made (`Far`), and what was heard is the first answer (`Heard`). The
pages rest on lemmas about ranks in a finite set of numbers: ranks grow with the keys (`RankIs`), of those below n there
are n or all (`TakeCount`), and what is left keeps its places when some are dropped (`DropRank`).

`InitialLoadProofs`, for every database, page size and number of operations, loads and faults: `LoadConverges` (Spec =>
[]Converges), `LoadDoubles` (Spec => []DoubledOnlyInLoad) and `PagesPassFew` (Spec => PassesFew). A value is described
by the last operation that left nothing of what was before, and by the increments since (`AsOf`): such values need no
fold over the log. A page read late is ahead of where replication starts; its values are right for it all the same if
what replication will repeat, up to the next such operation, is among the increments merged (`Ahead`). `LoadInv` says
so of each key by whether it is unread, in a page that is held, or settled (`SlaveHas`), with what is held
(`PagesHeld`) and what the master has (`MasterHas`). Doubles in a list of increments are a second invariant
(`Doubles`). What a page passes over is what a scan steps over at its start and leaves at its end (`ScanLeaves`), given
that a load that has read a page goes on from a key (`Begins`).

`DatabaseProofs`, for any number of clients and requests, with the maintenance and the stop of the same database:
`SnapshotsAccounted` (Spec => []HandlesAccounted), `AnswersTellTheirOwn` (Spec => []SnapshotIsOwn), `PausesAreTimed`
(Spec => []PauseHasTimer) and `RepairsLeaveOne` (Spec => RepairLeavesAtMostOne). A snapshot is in one place: of a thread
that has made it or will, of one entry of the map, or of a thread that takes it out (`Apart`); the numbers in use were
given, and who is about to tell one knows whose it is (`Named`); and there is a number for every request, because each
counts at most once (`Counted`). Pauses and what ends them are counted alike because every timer has a name of its own
(`TimersNamed`). A repair leaves what its iterator does not see broken, so one must know that what is broken and was not
written since the iterator was made, it sees (`RepairInv`).

`BackupProofs`, for every depth, bound and fault: `BackupKeepsAPoint` (Spec => []KeepsAPoint), `ArchiveHasItsFiles`
(Spec => []ArchiveIsWhole) and `RestoreTakesAGoodOne` (Spec => []RestoresGood). The strengthening says whose mutex is
held at each step and that an archive through the object in the table therefore finds the files it listed (`Locking`),
and where the backup to restore from is, by how many attempts have failed and whether one of them is under way
(`Points`). `RestoresGood` is of lists of any length, any of which are damaged: the choice is the least index that is
good, which exists if one is (`MinIsOne`).

Model-checked only. Liveness, which is out of the prover's reach as is ENABLED: `CatchesUp`, `DetachCompletes`,
`DenialEnds`, `GetsOpened`, `GetsDetached`, `GetsAnswer`, `LoadEnds`, `TimeoutsEnd`, `TasksEnd`. The two properties of the violation runs are false.

## 5. What is not modelled

* The tree `src/package/prefixdb/prefixdb/`, which no build file names: 5,944 of the repository's 15,122 lines.
* SlaveReplication: log lines at level FATAL are taken to log only; get_updates_since is one step; a lost answer is a
  generator that is called again by the timer; `disableWAL` (the slave's data lost in a crash) is left out; a start at
  a number given is in InitialLoad.
* PrefixTable: the directory that a failed creation may leave; after stop a detach with a denial, which has no
  workflow to post to; a detach or attach where `detach_path` is not configured; `attach_prefixes` with opendb is an
  attach and a lookup; the limit on the number of prefixes is a constant that its run leaves off.
* PrefixSync: null entries are not retried, and an attach is not modelled.
* RequestCheck: a reconfiguration between two checks of a request; get and has, which are not checked.
* WritePath: one key stands for the fields of a request; stop is one step (it is two in `DbObject`).
* RangeScan: `noval`, `nores`, JSON repair of an answer: the text of values. InitialLoad: a page that is null is asked
  for again at once, which is a stutter.
* MergeOperator: `inc` adds int64 values without a test, and a sum beyond the range is undefined behaviour
  (`merge_operator.cpp:247`): numbers are small here. Floating numbers; PartialMerge, which always declines.
* Maintenance: compaction itself, and the text of a repaired value. Backup: one prefix; the content of files.
* Options and registration: data, and tables of names.

## 6. Disagreements met that have no run

The code differs from its docs, or from what one would expect, in these places too; the models have what the code does.

* A `set` without a prefix is answered several times (`multidb/aux/multidb.hpp:15`), where `api/set.hpp:24` names one
  status.
* `attach_prefixes` answers CreatePrefixFail when it has succeeded (`multidb.cpp:327`). The console prints OK for set,
  corrupt and inc whatever the answer was, and a null answer of a suspended instance ends the process in most commands;
  its help promises 25 fields of a range without a limit (`prefixdb_cmd.cpp:404`), it gets 10, or with a limit of 0
  100 (`:286`).
* A prefix that was opened again while its old object had users has a null entry that is never retried
  (`multidb.cpp:966`); the timer of an earlier denial ends a later one (`:407`); a detach with a denial enters its
  prefix beyond `max_prefixes` (`:398`).
* A second detach deletes the data the first put aside (`aux/copy_dir.cpp:104`). With no `detach_path` the factory has a
  default (`wrocksdb_factory.cpp:60`), and an attach tests an option that is empty (`multidb.cpp:333`).
* A slave detaches what its master closed for a moment (`multidb.cpp:896`), and follows no master after its instance
  was stopped and started (`prefixdb_domain.cpp:72`).
* A limit of 0 for keys switches the limit for values off, and the other way round (`multidb.cpp:1041`).
* `sync` of a queued write (`api/set.hpp:40`), the values a del returns (`api/del.hpp:16`) and its early answer
  (`options/db_config.hpp:53`) are not as the comments say.
* `setnx` then `inc` of a missing key depends on when RocksDB folds (`merge_operator.cpp:114`). A value that is not
  JSON makes a slave drop the rest of its batch (`since_reader.cpp:64`).
* `noval` of get, has, inc and packed is not carried by JSON; the comments say so of the first three only.

## 7. What could come next

1. A composition of `PrefixTable` and `SlaveReplication`: detaches by `PrefixSync` of prefixes that replicate.
2. The table at `max_prefixes`; the width of int64 in `inc`; a reconfiguration between two checks of a request.
