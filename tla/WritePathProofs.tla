-------------------------- MODULE WritePathProofs --------------------------
(***************************************************************************)
(* Proofs about the write requests to one database, for every number of    *)
(* requests and every configuration, queue and fault: what an answer tells *)
(* of its write, the order of the writes, and that what is promised to     *)
(* those who write, Store, is kept.                                        *)
(***************************************************************************)
EXTENDS WritePath, FiniteSetTheorems, SequenceTheorems, TLAPS

USE BoundsAssumption, ConfigAssumption

\* What the n-th write left.
Left(n) == IF n = 0 \/ shape[log[n]].kind = "del" THEN Missing ELSE log[n]

Typed == TypeOK /\ since \in [Requests -> Nat] /\ \A r \in Requests : since[r] <= Len(log)

\* Of a request that has not been answered for good: all it may have had is the
\* answer before the write.
Owed(r) == answers[r] = IF r \in early THEN <<Answer("ok", Missing)>> ELSE <<>>

\* Of one that is over.
Settled(r) ==
  /\ Len(answers[r]) = (IF shape[r].cb THEN 1 ELSE 0)
  /\ r \notin early /\ ~Takes(shape[r]) /\ shape[r].cb =>
       LET status == answers[r][1].status
       IN  /\ status \in {"ok", "snapshotnotfound"} => Contains(log, r)
           /\ status \in {"ioerror", "invalidfieldvalue"} => ~Contains(log, r)
           /\ status = "null" => stopped

\* What a del read is what some write since its call left.
Read(r) ==
  /\ taken[r].status \in {"ok", "null", "snapshotnotfound"}
  /\ taken[r].status # "ok" => taken[r].value = Missing
  /\ taken[r].status = "ok" => \E n \in since[r]..Len(log) : taken[r].value = Left(n)

\* Where a thread is says what has become of its request.
Stage(r) ==
  /\ pc[r] \in {"new", "entered", "batch", "take", "delete"} => r \notin posted
  /\ pc[r] \in {"new", "entered", "take", "delete"} => r \notin early
  /\ pc[r] = "queued" => r \in posted
  /\ pc[r] \notin {"written", "done"} => ~Contains(log, r)
  /\ pc[r] = "written" => Contains(log, r)
  /\ pc[r] \in {"take", "delete"} => Takes(shape[r])
  /\ Takes(shape[r]) => pc[r] \in {"take", "delete", "done"} /\ r \notin posted
  /\ r \in early => shape[r].cb /\ (shape[r].nores \/ shape[r].kind = "del")
  /\ pc[r] # "done" => Owed(r)
  /\ pc[r] = "done" => Settled(r)
  /\ pc[r] = "delete" => Read(r)
  /\ pc[r] = "lost" => stopped

\* The queue holds each handler that waits, once.
Queued ==
  /\ \A r \in Requests : pc[r] = "queued" <=> \E i \in 1..Len(queue) : queue[i] = r
  /\ \A i, j \in 1..Len(queue) : queue[i] = queue[j] => i = j

\* Requests are queued in the order of their calls, and with one worker a request
\* that has left the queue follows all that were there when it was made.
Fifo ==
  /\ \A p \in Requests : \A q \in before[p] : q # p /\ (q \in posted \/ pc[q] = "done")
  /\ \A i, j \in 1..Len(queue) : i < j => queue[j] \notin before[queue[i]]
  /\ Workers = 1 =>
       \A p \in posted : pc[p] \in {"write", "written", "done", "crashed"} =>
         \A q \in before[p] : pc[q] \notin {"queued", "write"}

\* Until the first reconfiguration all requests queue, but for a del that returns what
\* it deletes, or none does.
SameWay ==
  reconfs = 0 =>
    /\ posted # {} => conf.delayed
    /\ \A r \in Requests \ posted :
         pc[r] \in {"write", "written"} \/ (Contains(log, r) /\ ~Takes(shape[r])) => ~conf.delayed

WriteInv ==
  /\ Typed /\ \A r \in Requests : Stage(r)
  /\ Queued /\ Fifo /\ SameWay /\ InOrder
-----------------------------------------------------------------------------
(* The log and the frame of a step. *)

\* A step of one request leaves the others alone, and what it has written.
Apart(r) ==
  /\ \A u \in Requests \ {r} :
       /\ pc'[u] = pc[u] /\ shape'[u] = shape[u] /\ answers'[u] = answers[u]
       /\ taken'[u] = taken[u] /\ since'[u] = since[u] /\ before'[u] = before[u]
       /\ (u \in early' <=> u \in early) /\ (u \in posted' <=> u \in posted)
  /\ log' = log \/ log' = Append(log, r)
  /\ Contains(log, r) =>
       shape'[r] = shape[r] /\ before'[r] = before[r] /\ (r \in posted' <=> r \in posted)
  /\ stopped' = stopped /\ reconfs' = reconfs

LEMMA LogGrows ==
  ASSUME log \in Seq(Requests), NEW r \in Requests, log' = log \/ log' = Append(log, r)
  PROVE  /\ Len(log) \in Nat /\ Len(log') \in Nat
         /\ Len(log) <= Len(log') /\ Len(log') <= Len(log) + 1
         /\ \A n \in 1..Len(log) : log'[n] = log[n] /\ log[n] \in Requests /\ Contains(log, log[n])
         /\ \A u : Contains(log, u) => Contains(log', u)
         /\ \A u : Contains(log', u) => u = r \/ Contains(log, u)
         /\ log' = Append(log, r) =>
              Len(log') = Len(log) + 1 /\ log'[Len(log) + 1] = r /\ Contains(log', r)
<1>1. Len(log) \in Nat /\ \A n \in 1..Len(log) : log[n] \in Requests
  BY LenProperties, ElementOfSeq
<1>2. CASE log' = log
  BY <1>1, <1>2, AppendProperties DEF Contains
<1>3. CASE log' = Append(log, r)
  <2>1. /\ Len(log') = Len(log) + 1 /\ log'[Len(log) + 1] = r
        /\ \A n \in 1..Len(log) : log'[n] = log[n]
    BY <1>3, AppendProperties
  <2>2. 1..Len(log') = 1..Len(log) \cup {Len(log) + 1}
    BY <1>1, <2>1
  <2> QED BY <1>1, <2>1, <2>2 DEF Contains
<1> QED BY <1>2, <1>3

\* What earlier writes left does not change.
LEMMA LeftStays ==
  ASSUME Typed, NEW r \in Requests, Apart(r), NEW n \in 0..Len(log)
  PROVE  Left(n)' = Left(n)
<1>1. CASE n = 0
  BY <1>1 DEF Left
<1>2. CASE n # 0
  <2>1. n \in 1..Len(log)
    BY <1>2, LogGrows DEF Typed, TypeOK, Apart
  <2>2. log'[n] = log[n] /\ log[n] \in Requests /\ Contains(log, log[n])
    BY <2>1, LogGrows DEF Typed, TypeOK, Apart
  <2>3. shape'[log[n]] = shape[log[n]]
    BY <2>2 DEF Apart
  <2> QED BY <2>2, <2>3 DEF Left
<1> QED BY <1>1, <1>2

LEMMA OthersStay ==
  ASSUME Typed, NEW r \in Requests, Apart(r), NEW u \in Requests \ {r}, Stage(u)
  PROVE  Stage(u)'
<1>1. /\ pc'[u] = pc[u] /\ shape'[u] = shape[u] /\ answers'[u] = answers[u]
      /\ taken'[u] = taken[u] /\ since'[u] = since[u]
      /\ (u \in early' <=> u \in early) /\ (u \in posted' <=> u \in posted)
      /\ stopped' = stopped
  BY DEF Apart
<1>2. Contains(log', u) <=> Contains(log, u)
  BY LogGrows DEF Typed, TypeOK, Apart
<1>3. Read(u) => Read(u)'
  <2>1. /\ since[u] \in Nat /\ Len(log) \in Nat /\ Len(log') \in Nat
        /\ Len(log) <= Len(log')
    BY LogGrows DEF Typed, TypeOK, Apart
  <2>2. \A n \in since[u]..Len(log) : n \in since[u]..Len(log') /\ Left(n)' = Left(n)
    BY <2>1, LeftStays
  <2> QED BY <1>1, <2>2 DEF Read
<1>4. Settled(u) => Settled(u)'
  BY <1>1, <1>2 DEF Settled, Takes
<1>5. Owed(u) => Owed(u)'
  BY <1>1 DEF Owed
<1> QED BY <1>1, <1>2, <1>3, <1>4, <1>5 DEF Stage, Takes

\* What was in order stays so: only a write that is made now can be out of order.
LEMMA OrderStays ==
  ASSUME Typed, Typed', NEW r \in Requests, Apart(r), InOrder, Workers = 1,
         log' = Append(log, r) =>
           \A p \in Requests : Contains(log, p) /\ r \in before[p] =>
             r \in posted /\ p \notin posted /\ (Takes(shape[p]) \/ reconfs > 0),
         log' = Append(log, r) => (r \in posted' <=> r \in posted)
  PROVE  InOrder'
<1> SUFFICES ASSUME NEW i \in 1..Len(log'), NEW j \in 1..Len(log'), i < j,
                    log'[j] \in before'[log'[i]]
             PROVE  /\ log'[j] \in posted' /\ log'[i] \notin posted'
                    /\ Takes(shape'[log'[i]]) \/ reconfs' > 0
  <2>1. DOMAIN log' = 1..Len(log')
    BY LenProperties DEF Typed, TypeOK
  <2> QED BY <2>1 DEF InOrder, Takes
<1>0. /\ Len(log) \in Nat /\ Len(log') \in Nat
      /\ log' = log \/ (Len(log') = Len(log) + 1 /\ log'[Len(log) + 1] = r /\ log' = Append(log, r))
  BY LogGrows DEF Typed, TypeOK, Apart
<1>1. i \in 1..Len(log)
  BY <1>0
<1>2. /\ log'[i] = log[i] /\ log[i] \in Requests /\ Contains(log, log[i])
  BY <1>1, LogGrows DEF Typed, TypeOK, Apart
<1>3. /\ shape'[log[i]] = shape[log[i]] /\ before'[log[i]] = before[log[i]]
      /\ (log[i] \in posted' <=> log[i] \in posted) /\ reconfs' = reconfs
  BY <1>2 DEF Apart
<1>4. CASE j \in 1..Len(log)
  <2>1. log'[j] = log[j] /\ log[j] \in Requests /\ Contains(log, log[j])
    BY <1>4, LogGrows DEF Typed, TypeOK, Apart
  <2>2. log[j] \in posted' <=> log[j] \in posted
    BY <2>1 DEF Apart
  <2>3. /\ log[j] \in posted /\ log[i] \notin posted
        /\ Takes(shape[log[i]]) \/ reconfs > 0
    BY <1>1, <1>2, <1>3, <1>4, <2>1, LenProperties DEF InOrder, Typed, TypeOK
  <2> QED BY <1>2, <1>3, <2>1, <2>2, <2>3 DEF Takes
<1>5. CASE j \notin 1..Len(log)
  <2>1. log' = Append(log, r) /\ log'[j] = r
    <3>1. log' # log
      BY <1>5
    <3>2. j = Len(log) + 1
      BY <1>0, <1>5, <3>1
    <3> QED BY <1>0, <3>1, <3>2
  <2> QED BY <1>2, <1>3, <2>1 DEF Takes
<1> QED BY <1>4, <1>5
-----------------------------------------------------------------------------
(* Types. *)

LEMMA AnswerTypes ==
  ASSUME Typed, NEW r \in Requests
  PROVE  /\ \A status \in Statuses : Answer(status, Missing) \in Answers
         /\ Found(r) \in Answers /\ taken[r] \in Answers
<1>1. \A status \in Statuses, value \in {Missing} \cup Requests : Answer(status, value) \in Answers
  BY DEF Answer, Answers
<1>2. ValueAfter(log) \in {Missing} \cup Requests
  <2>1. log # <<>> => Len(log) \in 1..Len(log)
    BY EmptySeq, LenProperties DEF Typed, TypeOK
  <2>2. log # <<>> => log[Len(log)] \in Requests
    BY <2>1, ElementOfSeq DEF Typed, TypeOK
  <2> QED BY <2>2 DEF ValueAfter, Last
<1>3. Missing \in {Missing} \cup Requests /\ {"ok", "null", "snapshotnotfound"} \subseteq Statuses
  BY DEF Statuses
<1>4. Found(r) \in Answers
  BY <1>1, <1>2, <1>3 DEF Found
<1> QED BY <1>1, <1>3, <1>4 DEF Typed, TypeOK

\* The answers after a call.
LEMMA CallTypes ==
  ASSUME Typed, NEW r \in Requests, NEW res \in Answers, Call(r, res) \/ CallLast(r, res)
  PROVE  answers' \in [Requests -> Seq(Answers)]
<1>1. Append(answers[r], res) \in Seq(Answers)
  BY AppendProperties DEF Typed, TypeOK
<1> QED BY <1>1 DEF Call, CallLast, Typed, TypeOK

Pcs == {"new", "entered", "batch", "queued", "write", "written", "take", "delete", "done", "lost",
        "crashed"}

LEMMA GoTypes ==
  ASSUME Typed, NEW r \in Requests, NEW to \in Pcs, Go(r, to)
  PROVE  /\ pc' \in [Requests -> Pcs] /\ pc'[r] = to
         /\ \A u \in Requests \ {r} : pc'[u] = pc[u]
BY DEF Go, Typed, TypeOK, Pcs

\* The log is typed, and none of it is lost.
LEMMA LogTypes ==
  ASSUME Typed, NEW r \in Requests, log' = log \/ log' = Append(log, r), UNCHANGED since
  PROVE  /\ log' \in Seq(Requests) /\ since' \in [Requests -> Nat]
         /\ \A u \in Requests : since'[u] <= Len(log')
<1>1. log' \in Seq(Requests)
  <2>1. log \in Seq(Requests)
    BY DEF Typed, TypeOK
  <2>2. Append(log, r) \in Seq(Requests)
    BY <2>1, AppendProperties
  <2> QED BY <2>1, <2>2
<1>2. Len(log) \in Nat /\ Len(log') \in Nat /\ Len(log) <= Len(log')
  BY LogGrows DEF Typed, TypeOK
<1> QED BY <1>1, <1>2 DEF Typed

LEMMA TypedSteps == ASSUME Typed, Next PROVE Typed'
<1> USE DEF Typed, TypeOK
<1>1. ASSUME NEW r \in Requests, NEW s \in Shapes, Submit(r, s) PROVE Typed'
  <2>1. pc' \in [Requests -> Pcs]
    <3>1. \E to \in Pcs : Go(r, to)
      BY <1>1 DEF Submit, Pcs
    <3> QED BY <3>1, GoTypes
  <2>2. answers' \in [Requests -> Seq(Answers)]
    <3>1. \A status \in {"null", "invalidfieldvalue"} : <<Answer(status, Missing)>> \in Seq(Answers)
      BY AnswerTypes DEF Statuses
    <3>2. <<>> \in Seq(Answers)
      OBVIOUS
    <3> QED BY <1>1, <3>1, <3>2 DEF Submit
  <2>3. before' \in [Requests -> SUBSET Requests]
    BY <1>1 DEF Submit
  <2>4. /\ since' \in [Requests -> Nat]
        /\ \A u \in Requests : since'[u] <= Len(log)
    <3>1. Len(log) \in Nat
      BY LenProperties
    <3> QED BY <1>1, <3>1 DEF Submit
  <2>5. shape' \in [Requests -> AllShapes]
    BY <1>1 DEF Submit
  <2> QED BY <1>1, <2>1, <2>2, <2>3, <2>4, <2>5 DEF Submit, confVars, Pcs
<1>2. ASSUME NEW r \in Requests, Thread(r) PROVE Typed'
  <2>1. /\ UNCHANGED <<conf, reconfs, shape, stopped, before, since>>
        /\ posted' \subseteq Requests /\ early' \subseteq Requests
    BY <1>2 DEF Thread, AnswerEarly, WriteNow, Post, Drop, Write, WriteFails, WriteToNull, WriteAnswer,
                Take, Delete, confVars
  <2>2. pc' \in [Requests -> Pcs]
    <3>1. \E to \in Pcs : Go(r, to)
      BY <1>2 DEF Thread, AnswerEarly, WriteNow, Post, Drop, Write, WriteFails, WriteToNull, WriteAnswer,
                  Take, Delete, Pcs
    <3> QED BY <3>1, GoTypes
  <2>3. /\ log' \in Seq(Requests)
        /\ \A u \in Requests : since'[u] <= Len(log')
    <3>1. log' = log \/ log' = Append(log, r)
      BY <1>2 DEF Thread, AnswerEarly, WriteNow, Post, Drop, Write, WriteFails, WriteToNull, WriteAnswer,
                  Take, Delete, Deleted
    <3> QED BY <2>1, <3>1, LogTypes
  <2>4. answers' \in [Requests -> Seq(Answers)]
    <3>1. answers' = answers \/ \E res \in Answers : Call(r, res) \/ CallLast(r, res)
      <4>1. /\ {"ok", Dropped, "ioerror"} \subseteq Statuses
            /\ Result(r) = Found(r)
        BY DEF Statuses, Dropped, Result
      <4>2. AnswerEarly(r) \/ Drop(r) \/ WriteFails(r) \/ WriteAnswer(r) \/ Delete(r) \/ answers' = answers
        BY <1>2 DEF Thread, WriteNow, Post, Write, WriteToNull, Take
      <4> QED BY <4>1, <4>2, AnswerTypes DEF AnswerEarly, Drop, WriteFails, WriteAnswer, Delete
    <3> QED BY <3>1, CallTypes
  <2>5. taken' \in [Requests -> Answers]
    <3>1. Take(r) \/ taken' = taken
      BY <1>2 DEF Thread, AnswerEarly, WriteNow, Post, Drop, Write, WriteFails, WriteToNull, WriteAnswer,
                  Delete
    <3> QED BY <3>1, AnswerTypes DEF Take
  <2>6. queue' \in Seq(Requests) /\ Len(queue') <= MaxQueue
    <3>1. Post(r) \/ queue' = queue
      BY <1>2 DEF Thread, AnswerEarly, WriteNow, Drop, Write, WriteFails, WriteToNull, WriteAnswer,
                  Take, Delete
    <3>2. CASE Post(r)
      <4>1. queue' = Append(queue, r) /\ ~(Len(queue) >= MaxQueue)
        BY <3>2 DEF Post, Full
      <4> QED BY <4>1, AppendProperties, LenProperties
    <3> QED BY <3>1, <3>2
  <2> QED BY <2>1, <2>2, <2>3, <2>4, <2>5, <2>6 DEF Pcs
<1>3. ASSUME NEW c \in Configs, Reconfigure(c) PROVE Typed'
  BY <1>3 DEF Reconfigure
<1>4. CASE Run
  <2>1. /\ Head(queue) \in Requests /\ Tail(queue) \in Seq(Requests)
        /\ Len(Tail(queue)) = Len(queue) - 1 /\ Len(queue) \in Nat
    BY <1>4, HeadTailProperties, LenProperties DEF Run
  <2>2. pc' \in [Requests -> Pcs]
    <3>1. Go(Head(queue), "write") /\ "write" \in Pcs
      BY <1>4 DEF Run, Pcs
    <3> QED BY <2>1, <3>1, GoTypes
  <2> QED BY <1>4, <2>1, <2>2 DEF Run, confVars, Pcs
<1>5. CASE Stop
  <2>1. <<>> \in Seq(Requests) /\ Len(<<>>) = 0
    OBVIOUS
  <2>2. pc' \in [Requests -> Pcs]
    BY <1>5 DEF Stop, Pcs
  <2> QED BY <1>5, <2>1, <2>2 DEF Stop, confVars, Pcs
<1> QED BY <1>1, <1>2, <1>3, <1>4, <1>5 DEF Next

LEMMA InitWriteInv == Init => WriteInv
<1> SUFFICES ASSUME Init PROVE WriteInv
  OBVIOUS
<1> USE DEF Init
<1>1. Typed
  <2>1. /\ <<>> \in Seq(Requests) /\ Len(<<>>) = 0 /\ <<>> \in Seq(Answers)
    OBVIOUS
  <2>2. Answer("null", Missing) \in Answers
    BY DEF Answer, Answers, Statuses
  <2>3. shape \in [Requests -> AllShapes]
    BY DEF AllShapes
  <2>4. taken \in [Requests -> Answers] /\ answers \in [Requests -> Seq(Answers)]
    BY <2>1, <2>2
  <2>5. stopped \in BOOLEAN
    BY Zenon
  <2>6. /\ reconfs \in 0..MaxReconfs /\ Len(queue) <= MaxQueue /\ since \in [Requests -> Nat]
        /\ \A r \in Requests : since[r] <= Len(log)
    BY <2>1
  <2>7. before \in [Requests -> SUBSET Requests]
    OBVIOUS
  <2>8. pc \in [Requests -> Pcs]
    BY DEF Pcs
  <2> HIDE DEF Init
  <2> QED BY <2>1, <2>3, <2>4, <2>5, <2>6, <2>7, <2>8 DEF Typed, TypeOK, Pcs, Init
<1>3. \A r \in Requests : Stage(r)
  BY DEF Stage, Owed, Takes, Contains
<1>4. Queued /\ Fifo /\ SameWay /\ InOrder
  BY DEF Queued, Fifo, SameWay, InOrder, Contains
<1> QED BY <1>1, <1>3, <1>4 DEF WriteInv
-----------------------------------------------------------------------------
(* The steps of a request past its submission that leave the queue alone. *)

Quiet(r) ==
  /\ \A u \in Requests \ {r} :
       /\ pc'[u] = pc[u] /\ answers'[u] = answers[u] /\ taken'[u] = taken[u]
       /\ (u \in early' <=> u \in early)
  /\ UNCHANGED <<conf, reconfs, shape, queue, stopped, posted, before, since>>
  /\ log' = log \/ (log' = Append(log, r) /\ pc[r] \in {"write", "delete"})
  /\ pc[r] \notin {"new", "queued", "done"} /\ pc'[r] \notin {"new", "queued"}
  /\ pc'[r] = "write" => r \notin posted /\ ~conf.delayed
  /\ pc'[r] = "written" => pc[r] = "write"
  /\ r \in posted => pc[r] \in {"write", "written"}

LEMMA QuietKeeps ==
  ASSUME WriteInv, Typed', NEW r \in Requests, Quiet(r), Stage(r)'
  PROVE  WriteInv'
<1> USE DEF WriteInv
<1>1. Apart(r)
  BY DEF Quiet, Apart
<1>2. \A u \in Requests : Stage(u)'
  BY <1>1, OthersStay
<1>3. Queued'
  BY DEF Queued, Quiet
<1>4. Fifo'
  <2>1. \A p \in Requests : \A q \in before[p] : q # p /\ (q \in posted' \/ pc'[q] = "done")
    BY DEF Fifo, Quiet, Typed, TypeOK
  <2>2. \A p \in posted : \A q \in before[p] :
          Workers = 1 /\ pc'[p] \in {"write", "written", "done", "crashed"} => pc'[q] \notin {"queued", "write"}
    <3> SUFFICES ASSUME NEW p \in posted, NEW q \in before[p], Workers = 1,
                        pc'[p] \in {"write", "written", "done", "crashed"}
                 PROVE  pc'[q] \notin {"queued", "write"}
      OBVIOUS
    <3>1. p \in Requests /\ q \in Requests
      BY DEF Typed, TypeOK
    <3>2. pc[p] \in {"write", "written", "done", "crashed"}
      BY <3>1 DEF Quiet
    <3>3. pc[q] \notin {"queued", "write"}
      BY <3>2 DEF Fifo
    <3>4. q \in posted \/ pc[q] = "done"
      BY <3>1 DEF Fifo
    <3> QED BY <3>1, <3>3, <3>4 DEF Quiet
  <2> QED BY <2>1, <2>2 DEF Fifo, Quiet
<1>5. SameWay'
  <2> SUFFICES ASSUME reconfs = 0
               PROVE  /\ posted # {} => conf.delayed
                      /\ \A u \in Requests \ posted :
                           pc'[u] \in {"write", "written"} \/ (Contains(log', u) /\ ~Takes(shape[u]))
                             => ~conf.delayed
    BY DEF SameWay, Quiet, Takes
  <2>1. ASSUME NEW u \in Requests \ posted, u # r,
               pc'[u] \in {"write", "written"} \/ (Contains(log', u) /\ ~Takes(shape[u]))
        PROVE  ~conf.delayed
    <3>1. \A v : Contains(log', v) => v = r \/ Contains(log, v)
      BY LogGrows DEF Quiet, Typed, TypeOK
    <3>2. pc'[u] = pc[u] /\ (Contains(log', u) => Contains(log, u))
      BY <2>1, <3>1 DEF Quiet
    <3> QED BY <2>1, <3>2 DEF SameWay
  <2>2. ASSUME r \notin posted,
               pc'[r] \in {"write", "written"} \/ (Contains(log', r) /\ ~Takes(shape[r]))
        PROVE  ~conf.delayed
    <3>1. pc[r] = "delete" => Takes(shape[r])
      BY DEF Stage
    <3>2. Contains(log', r) => Contains(log, r) \/ pc[r] \in {"write", "delete"}
      BY LogGrows DEF Quiet, Typed, TypeOK
    <3> QED BY <2>2, <3>1, <3>2 DEF SameWay, Quiet
  <2> QED BY <2>1, <2>2 DEF SameWay
<1>6. InOrder'
  <2> SUFFICES ASSUME Workers = 1 PROVE InOrder'
    BY DEF InOrder
  <2>1. ASSUME log' = Append(log, r), log' # log, NEW p \in Requests, Contains(log, p), r \in before[p]
        PROVE  r \in posted /\ p \notin posted /\ (Takes(shape[p]) \/ reconfs > 0)
    <3>1. r \in posted /\ pc[r] = "write"
      BY <2>1 DEF Fifo, Quiet, Stage
    <3>2. pc[p] \in {"written", "done"}
      BY <2>1 DEF Stage
    <3>3. p \notin posted
      BY <2>1, <3>1, <3>2 DEF Fifo
    <3>4. reconfs = 0 => Takes(shape[p])
      BY <2>1, <3>1, <3>3 DEF SameWay
    <3>5. reconfs # 0 => reconfs > 0
      BY DEF Typed, TypeOK
    <3> QED BY <3>1, <3>3, <3>4, <3>5
  <2>2. log' = log => log' # Append(log, r)
    BY AppendProperties, LenProperties DEF Typed, TypeOK
  <2> QED BY <1>1, <2>1, <2>2, OrderStays DEF Quiet
<1> QED BY <1>2, <1>3, <1>4, <1>5, <1>6

\* What a callback leaves: the one answer, or what there was.
LEMMA CallLastFacts ==
  ASSUME Typed, NEW r \in Requests, Owed(r), r \in early => shape[r].cb, NEW res, CallLast(r, res)
  PROVE  /\ answers'[r] = IF r \in early THEN <<Answer("ok", Missing)>>
                          ELSE IF shape[r].cb THEN <<res>> ELSE <<>>
         /\ \A u \in Requests \ {r} : answers'[u] = answers[u]
BY DEF CallLast, HasCallback, Owed, Typed, TypeOK

\* A request is over with an answer that is true to its write.
LEMMA EndsSettled ==
  ASSUME Typed, NEW r \in Requests, Owed(r), r \in early => shape[r].cb, NEW res, CallLast(r, res),
         UNCHANGED <<shape, early>>,
         ~Takes(shape[r]) =>
           /\ res.status \in {"ok", "snapshotnotfound"} => Contains(log', r)
           /\ res.status \in {"ioerror", "invalidfieldvalue"} => ~Contains(log', r)
           /\ res.status = "null" => stopped'
  PROVE  Settled(r)'
<1>1. answers'[r] = IF r \in early THEN <<Answer("ok", Missing)>>
                    ELSE IF shape[r].cb THEN <<res>> ELSE <<>>
  BY CallLastFacts
<1>2. Len(answers'[r]) = IF shape[r].cb THEN 1 ELSE 0
  BY <1>1
<1>3. r \notin early /\ shape[r].cb => answers'[r][1] = res
  BY <1>1
<1> QED BY <1>2, <1>3 DEF Settled, Takes

LEMMA AnswerEarlyKeeps ==
  ASSUME WriteInv, Typed', NEW r \in Requests, AnswerEarly(r) PROVE WriteInv'
<1> USE DEF WriteInv
<1>1. /\ pc[r] = "entered" /\ shape[r].cb /\ (shape[r].nores \/ shape[r].kind = "del")
      /\ answers' = [answers EXCEPT ![r] = Append(@, Answer("ok", Missing))]
      /\ early' = early \cup {r} /\ Go(r, "batch")
      /\ UNCHANGED <<confVars, shape, queue, log, stopped, taken, posted, before, since>>
  BY DEF AnswerEarly, Early, Call
<1>2. /\ pc'[r] = "batch"
      /\ \A u \in Requests \ {r} : pc'[u] = pc[u] /\ answers'[u] = answers[u]
  BY <1>1, GoTypes DEF Pcs, Typed, TypeOK
<1>3. ~Contains(log, r) /\ r \notin posted /\ r \notin early /\ answers[r] = <<>> /\ ~Takes(shape[r])
  BY <1>1 DEF Stage, Owed
<1>4. answers'[r] = <<Answer("ok", Missing)>>
  BY <1>1, <1>3 DEF Typed, TypeOK
<1>5. Stage(r)'
  BY <1>1, <1>2, <1>3, <1>4 DEF Stage, Owed, Takes
<1>6. Quiet(r)
  BY <1>1, <1>2, <1>3 DEF Quiet, confVars
<1> QED BY <1>5, <1>6, QuietKeeps

LEMMA WriteNowKeeps ==
  ASSUME WriteInv, Typed', NEW r \in Requests, WriteNow(r) PROVE WriteInv'
<1> USE DEF WriteInv
<1>1. /\ pc[r] \in {"entered", "batch"} /\ ~conf.delayed /\ Go(r, "write")
      /\ UNCHANGED <<confVars, shape, queue, log, stopped, taken, answers, early, posted, before, since>>
  BY DEF WriteNow, AtBatch, Queues
<1>2. pc'[r] = "write" /\ \A u \in Requests \ {r} : pc'[u] = pc[u]
  BY <1>1, GoTypes DEF Pcs
<1>3. r \notin posted
  BY <1>1 DEF Stage
<1>4. Stage(r)'
  BY <1>1, <1>2 DEF Stage, Owed, Takes
<1>5. Quiet(r)
  BY <1>1, <1>2, <1>3 DEF Quiet, confVars
<1> QED BY <1>4, <1>5, QuietKeeps

LEMMA DropKeeps ==
  ASSUME WriteInv, Typed', NEW r \in Requests, Drop(r) PROVE WriteInv'
<1> USE DEF WriteInv
<1>1. /\ pc[r] \in {"entered", "batch"} /\ CallLast(r, Answer("ioerror", Missing)) /\ Go(r, "done")
      /\ UNCHANGED <<confVars, shape, queue, log, stopped, taken, early, posted, before, since>>
  BY DEF Drop, AtBatch, Dropped
<1>2. pc'[r] = "done" /\ \A u \in Requests \ {r} : pc'[u] = pc[u]
  BY <1>1, GoTypes DEF Pcs
<1>3. /\ r \notin posted /\ ~Contains(log, r) /\ Owed(r) /\ (r \in early => shape[r].cb)
      /\ ~Takes(shape[r])
  BY <1>1 DEF Stage
<1>4. Settled(r)'
  BY <1>1, <1>3, EndsSettled DEF Answer
<1>5. Stage(r)'
  BY <1>1, <1>2, <1>3, <1>4 DEF Stage, Takes
<1>6. Quiet(r)
  BY <1>1, <1>2, <1>3, CallLastFacts DEF Quiet, confVars
<1> QED BY <1>5, <1>6, QuietKeeps

LEMMA WriteKeeps ==
  ASSUME WriteInv, Typed', NEW r \in Requests, Write(r) PROVE WriteInv'
<1> USE DEF WriteInv
<1>1. /\ pc[r] = "write" /\ log' = Append(log, r) /\ Go(r, "written")
      /\ UNCHANGED <<confVars, shape, queue, stopped, taken, answers, early, posted, before, since>>
  BY DEF Write
<1>2. pc'[r] = "written" /\ \A u \in Requests \ {r} : pc'[u] = pc[u]
  BY <1>1, GoTypes DEF Pcs
<1>3. Contains(log', r)
  BY <1>1, LogGrows DEF Typed, TypeOK
<1>4. Stage(r)'
  BY <1>1, <1>2, <1>3 DEF Stage, Owed, Takes
<1>5. Quiet(r)
  BY <1>1, <1>2 DEF Quiet, confVars
<1> QED BY <1>4, <1>5, QuietKeeps

LEMMA WriteFailsKeeps ==
  ASSUME WriteInv, Typed', NEW r \in Requests, WriteFails(r) PROVE WriteInv'
<1> USE DEF WriteInv
<1>1. /\ pc[r] = "write" /\ CallLast(r, Answer("ioerror", Missing)) /\ Go(r, "done")
      /\ UNCHANGED <<confVars, shape, queue, log, stopped, taken, early, posted, before, since>>
  BY DEF WriteFails
<1>2. pc'[r] = "done" /\ \A u \in Requests \ {r} : pc'[u] = pc[u]
  BY <1>1, GoTypes DEF Pcs
<1>3. ~Contains(log, r) /\ Owed(r) /\ (r \in early => shape[r].cb) /\ ~Takes(shape[r])
  BY <1>1 DEF Stage
<1>4. Settled(r)'
  BY <1>1, <1>3, EndsSettled DEF Answer
<1>5. Stage(r)'
  BY <1>1, <1>2, <1>3, <1>4 DEF Stage, Takes
<1>6. Quiet(r)
  BY <1>1, <1>2, <1>3, CallLastFacts DEF Quiet, confVars
<1> QED BY <1>5, <1>6, QuietKeeps

LEMMA WriteToNullKeeps ==
  ASSUME WriteInv, Typed', NEW r \in Requests, WriteToNull(r) PROVE WriteInv'
<1> USE DEF WriteInv
<1>1. /\ pc[r] = "write" /\ Go(r, "crashed")
      /\ UNCHANGED <<confVars, shape, queue, log, stopped, taken, answers, early, posted, before, since>>
  BY DEF WriteToNull
<1>2. pc'[r] = "crashed" /\ \A u \in Requests \ {r} : pc'[u] = pc[u]
  BY <1>1, GoTypes DEF Pcs
<1>3. Stage(r)'
  BY <1>1, <1>2 DEF Stage, Owed, Takes
<1>4. Quiet(r)
  BY <1>1, <1>2 DEF Quiet, confVars
<1> QED BY <1>3, <1>4, QuietKeeps

LEMMA WriteAnswerKeeps ==
  ASSUME WriteInv, Typed', NEW r \in Requests, WriteAnswer(r) PROVE WriteInv'
<1> USE DEF WriteInv
<1> DEFINE res == IF shape[r].nores \/ shape[r].kind = "del" THEN Answer("ok", Missing) ELSE Result(r)
<1>1. /\ pc[r] = "written" /\ CallLast(r, res) /\ Go(r, "done")
      /\ UNCHANGED <<confVars, shape, queue, log, stopped, taken, early, posted, before, since>>
  BY DEF WriteAnswer
<1>2. pc'[r] = "done" /\ \A u \in Requests \ {r} : pc'[u] = pc[u]
  BY <1>1, GoTypes DEF Pcs
<1>3. Contains(log, r) /\ Owed(r) /\ (r \in early => shape[r].cb) /\ ~Takes(shape[r])
  BY <1>1 DEF Stage
<1>4. res.status \in {"ok", "snapshotnotfound", "null"} /\ (res.status = "null" => stopped)
  BY DEF Result, Found, Answer
<1> HIDE DEF res
<1>5. Settled(r)'
  BY <1>1, <1>3, <1>4, EndsSettled
<1>6. Stage(r)'
  BY <1>1, <1>2, <1>3, <1>5 DEF Stage, Takes
<1>7. Quiet(r)
  BY <1>1, <1>2, <1>3, CallLastFacts DEF Quiet, confVars
<1> QED BY <1>6, <1>7, QuietKeeps

\* The value after the log is what its last write left, and that after a part of it
\* what the last of the part did.
LEMMA ValueIsLeft ==
  ASSUME Typed
  PROVE  /\ ValueAfter(log) = Left(Len(log))
         /\ \A n \in 1..Len(log) : ValueAfter(SubSeq(log, 1, n)) = Left(n)
<1>1. Len(log) \in Nat /\ (log = <<>> <=> Len(log) = 0) /\ \A n \in 1..Len(log) : log[n] \in Requests
  BY EmptySeq, LenProperties, ElementOfSeq DEF Typed, TypeOK
<1>2. ValueAfter(log) = Left(Len(log))
  BY <1>1 DEF ValueAfter, Left, Last
<1>3. ASSUME NEW n \in 1..Len(log) PROVE ValueAfter(SubSeq(log, 1, n)) = Left(n)
  <2>1. \A i \in 1..n : log[i] \in Requests
    BY <1>1
  <2>2. /\ SubSeq(log, 1, n) \in Seq(Requests) /\ Len(SubSeq(log, 1, n)) = n
        /\ SubSeq(log, 1, n)[n] = log[n]
    BY <1>1, <2>1, SubSeqProperties
  <2>3. SubSeq(log, 1, n) # <<>>
    BY <1>1, <2>2
  <2> QED BY <1>1, <2>2, <2>3 DEF ValueAfter, Left, Last
<1> QED BY <1>2, <1>3

LEMMA TakeKeeps ==
  ASSUME WriteInv, Typed', NEW r \in Requests, Take(r) PROVE WriteInv'
<1> USE DEF WriteInv
<1>1. /\ pc[r] = "take" /\ taken' = [taken EXCEPT ![r] = Found(r)] /\ Go(r, "delete")
      /\ UNCHANGED <<confVars, shape, queue, log, stopped, answers, early, posted, before, since>>
  BY DEF Take
<1>2. pc'[r] = "delete" /\ \A u \in Requests \ {r} : pc'[u] = pc[u] /\ taken'[u] = taken[u]
  BY <1>1, GoTypes DEF Pcs, Typed, TypeOK
<1>3. taken'[r] = Found(r)
  BY <1>1 DEF Typed, TypeOK
<1>4. Len(log) \in since[r]..Len(log)
  BY LenProperties DEF Typed, TypeOK
<1>5. \A n : Left(n)' = Left(n)
  BY <1>1 DEF Left
<1>6. /\ Found(r).status \in {"ok", "null", "snapshotnotfound"}
      /\ Found(r).status # "ok" => Found(r).value = Missing
      /\ Found(r).status = "ok" => Found(r).value = Left(Len(log))
  BY ValueIsLeft DEF Found, Answer
<1>7. Read(r)'
  BY <1>1, <1>3, <1>4, <1>5, <1>6 DEF Read
<1>8. Stage(r)'
  BY <1>1, <1>2, <1>7 DEF Stage, Owed, Takes
<1>9. Quiet(r)
  BY <1>1, <1>2, <1>8 DEF Quiet, Stage, confVars
<1> QED BY <1>8, <1>9, QuietKeeps

LEMMA DeleteKeeps ==
  ASSUME WriteInv, Typed', NEW r \in Requests, Delete(r) PROVE WriteInv'
<1> USE DEF WriteInv
<1>1. /\ pc[r] = "delete" /\ (log' = log \/ log' = Append(log, r)) /\ Call(r, taken[r]) /\ Go(r, "done")
      /\ UNCHANGED <<confVars, shape, queue, stopped, taken, early, posted, before, since>>
  BY DEF Delete, Deleted
<1>2. pc'[r] = "done" /\ \A u \in Requests \ {r} : pc'[u] = pc[u]
  BY <1>1, GoTypes DEF Pcs
<1>3. Takes(shape[r]) /\ shape[r].cb /\ r \notin early /\ answers[r] = <<>> /\ r \notin posted
  BY <1>1 DEF Stage, Owed, Takes
<1>4. answers'[r] = <<taken[r]>> /\ \A u \in Requests \ {r} : answers'[u] = answers[u]
  BY <1>1, <1>3 DEF Call, Typed, TypeOK
<1>5. Settled(r)'
  BY <1>1, <1>3, <1>4 DEF Settled, Takes
<1>6. Stage(r)'
  BY <1>1, <1>2, <1>3, <1>5 DEF Stage, Takes
<1>7. Quiet(r)
  BY <1>1, <1>2, <1>3, <1>4 DEF Quiet, confVars
<1> QED BY <1>6, <1>7, QuietKeeps
-----------------------------------------------------------------------------
(* The other steps. *)

\* Those that do not change the log.
LEMMA OrderStaysWithoutWrite ==
  ASSUME Typed, Typed', NEW r \in Requests, Apart(r), InOrder, UNCHANGED log
  PROVE  InOrder'
<1> SUFFICES ASSUME Workers = 1 PROVE InOrder'
  BY DEF InOrder
<1>1. log' # Append(log, r)
  BY AppendProperties, LenProperties DEF Typed, TypeOK
<1> QED BY <1>1, OrderStays

LEMMA SubmitKeeps ==
  ASSUME WriteInv, Typed', NEW r \in Requests, NEW s \in Shapes, Submit(r, s) PROVE WriteInv'
<1> USE DEF WriteInv
<1> DEFINE to == IF stopped \/ Refused(s) THEN "done" ELSE IF Takes(s) THEN "take" ELSE "entered"
           status == IF stopped THEN "null" ELSE "invalidfieldvalue"
<1>1. /\ pc[r] = "new" /\ Go(r, to) /\ shape' = [shape EXCEPT ![r] = s]
      /\ before' = [before EXCEPT ![r] = {q \in Requests : Returned(q)}]
      /\ since' = [since EXCEPT ![r] = Len(log)]
      /\ answers' = IF stopped \/ Refused(s)
                    THEN [answers EXCEPT ![r] = IF s.cb THEN <<Answer(status, Missing)>> ELSE <<>>]
                    ELSE answers
      /\ UNCHANGED <<confVars, queue, log, stopped, taken, early, posted>>
  BY DEF Submit
<1>2. to \in {"done", "take", "entered"} /\ to \in Pcs
  BY DEF Pcs
<1>3. pc'[r] = to /\ \A u \in Requests \ {r} : pc'[u] = pc[u]
  BY <1>1, <1>2, GoTypes
<1>4. ~Contains(log, r) /\ answers[r] = <<>> /\ r \notin early /\ r \notin posted
  BY <1>1 DEF Stage, Owed
<1>5. /\ shape'[r] = s /\ before'[r] = {q \in Requests : q \in posted \/ pc[q] = "done"}
      /\ \A u \in Requests \ {r} : shape'[u] = shape[u] /\ before'[u] = before[u] /\ since'[u] = since[u]
      /\ \A u \in Requests \ {r} : answers'[u] = answers[u]
      /\ answers'[r] = IF (stopped \/ Refused(s)) /\ s.cb THEN <<Answer(status, Missing)>> ELSE <<>>
  BY <1>1, <1>4 DEF Typed, TypeOK, Returned
<1>6. Apart(r)
  BY <1>1, <1>3, <1>4, <1>5 DEF Apart, confVars
<1>7. Stage(r)'
  <2>1. pc'[r] = "done" => Settled(r)'
    BY <1>1, <1>3, <1>4, <1>5 DEF Settled, Answer
  <2>2. Owed(r)' \/ pc'[r] = "done"
    BY <1>1, <1>3, <1>4, <1>5 DEF Owed
  <2>3. pc'[r] = "take" <=> (pc'[r] # "done" /\ Takes(s))
    BY <1>3
  <2>4. Takes(shape'[r]) <=> Takes(s)
    BY <1>5
  <2> QED BY <1>1, <1>2, <1>3, <1>4, <2>1, <2>2, <2>3, <2>4 DEF Stage, Takes
<1> HIDE DEF to
<1>8. \A u \in Requests : Stage(u)'
  BY <1>6, <1>7, OthersStay
<1>9. Queued'
  BY <1>1, <1>2, <1>3 DEF Queued
<1>10. Fifo'
  <2>1. \A p \in Requests : \A q \in before'[p] : q # p /\ (q \in posted \/ pc'[q] = "done")
    <3>1. \A p \in Requests : \A q \in before'[p] : q # p /\ (q \in posted \/ pc[q] = "done")
      BY <1>1, <1>4, <1>5 DEF Fifo
    <3>2. \A q \in Requests : pc[q] = "done" => pc'[q] = "done"
      BY <1>1, <1>3
    <3>3. \A p \in Requests : before'[p] \subseteq Requests
      BY DEF Typed, TypeOK
    <3> QED BY <3>1, <3>2, <3>3
  <2>2. \A i \in 1..Len(queue) : queue[i] \in Requests \ {r}
    BY <1>1, ElementOfSeq DEF Queued, Typed, TypeOK
  <2>3. \A i, j \in 1..Len(queue) : i < j => queue[j] \notin before'[queue[i]]
    BY <1>5, <2>2 DEF Fifo
  <2>4. \A p \in posted : /\ p \in Requests \ {r} /\ pc'[p] = pc[p] /\ before'[p] = before[p]
                          /\ \A q \in before[p] : pc'[q] = pc[q] \/ q = r
    BY <1>3, <1>4, <1>5 DEF Typed, TypeOK
  <2>5. \A p \in posted : \A q \in before[p] :
          Workers = 1 /\ pc'[p] \in {"write", "written", "done", "crashed"} => pc'[q] \notin {"queued", "write"}
    BY <1>2, <1>3, <2>4 DEF Fifo
  <2> QED BY <1>1, <2>1, <2>3, <2>4, <2>5 DEF Fifo
<1>11. SameWay'
  BY <1>1, <1>2, <1>3, <1>4, <1>5 DEF SameWay, Takes, confVars
<1>12. InOrder'
  BY <1>1, <1>6, OrderStaysWithoutWrite
<1> QED BY <1>8, <1>9, <1>10, <1>11, <1>12

LEMMA PostKeeps ==
  ASSUME WriteInv, Typed', NEW r \in Requests, Post(r) PROVE WriteInv'
<1> USE DEF WriteInv
<1>1. /\ pc[r] \in {"entered", "batch"} /\ conf.delayed
      /\ queue' = Append(queue, r) /\ posted' = posted \cup {r} /\ Go(r, "queued")
      /\ UNCHANGED <<confVars, shape, log, stopped, taken, answers, early, before, since>>
  BY DEF Post, AtBatch, Queues
<1>2. pc'[r] = "queued" /\ \A u \in Requests \ {r} : pc'[u] = pc[u]
  BY <1>1, GoTypes DEF Pcs
<1>3. ~Contains(log, r) /\ r \notin posted
  BY <1>1 DEF Stage
<1>4. Apart(r)
  BY <1>1, <1>2, <1>3 DEF Apart, confVars
<1>5. Stage(r)'
  BY <1>1, <1>2 DEF Stage, Owed, Takes
<1>6. /\ Len(queue) \in Nat /\ Len(queue') = Len(queue) + 1 /\ queue'[Len(queue) + 1] = r
      /\ \A i \in 1..Len(queue) : queue'[i] = queue[i] /\ queue[i] \in Requests
      /\ 1..Len(queue') = 1..Len(queue) \cup {Len(queue) + 1}
  <2>1. queue \in Seq(Requests)
    BY DEF Typed, TypeOK
  <2>2. Len(queue) \in Nat /\ Len(queue') = Len(queue) + 1 /\ queue'[Len(queue) + 1] = r
    BY <1>1, <2>1, AppendProperties, LenProperties
  <2>3. \A i \in 1..Len(queue) : queue'[i] = queue[i] /\ queue[i] \in Requests
    BY <1>1, <2>1, AppendProperties, ElementOfSeq
  <2> QED BY <2>2, <2>3
<1>7. \A i \in 1..Len(queue) : queue[i] # r
  BY <1>1 DEF Queued
<1>8. Queued'
  <2>1. \A u \in Requests : pc'[u] = "queued" <=> \E i \in 1..Len(queue') : queue'[i] = u
    BY <1>1, <1>2, <1>6 DEF Queued
  <2>2. \A i, j \in 1..Len(queue') : queue'[i] = queue'[j] => i = j
    BY <1>6, <1>7 DEF Queued
  <2> QED BY <2>1, <2>2 DEF Queued
<1>9. Fifo'
  <2>1. \A p \in Requests : r \notin before[p]
    BY <1>1, <1>3 DEF Fifo
  <2>2. \A p \in Requests : \A q \in before[p] : q # p /\ (q \in posted' \/ pc'[q] = "done")
    BY <1>1, <1>2, <2>1 DEF Fifo, Typed, TypeOK
  <2>3. ASSUME NEW i \in 1..Len(queue'), NEW j \in 1..Len(queue'), i < j
        PROVE  queue'[j] \notin before[queue'[i]]
    <3>1. i \in 1..Len(queue) /\ queue'[i] = queue[i] /\ queue[i] \in Requests
      BY <1>6, <2>3
    <3>2. CASE j \in 1..Len(queue)
      BY <1>6, <2>3, <3>1, <3>2 DEF Fifo
    <3>3. CASE j = Len(queue) + 1
      BY <1>6, <2>1, <3>1, <3>3
    <3> QED BY <1>6, <3>2, <3>3
  <2>4. \A p \in posted' : \A q \in before[p] :
          Workers = 1 /\ pc'[p] \in {"write", "written", "done", "crashed"} => pc'[q] \notin {"queued", "write"}
    <3> SUFFICES ASSUME NEW p \in posted', NEW q \in before[p], Workers = 1,
                        pc'[p] \in {"write", "written", "done", "crashed"}
                 PROVE  pc'[q] \notin {"queued", "write"}
      OBVIOUS
    <3>1. p \in posted /\ p \in Requests /\ q \in Requests /\ pc'[p] = pc[p]
      BY <1>1, <1>2 DEF Typed, TypeOK
    <3>2. q # r
      BY <2>1, <3>1
    <3> QED BY <1>2, <3>1, <3>2 DEF Fifo
  <2> QED BY <1>1, <2>2, <2>3, <2>4 DEF Fifo
<1>10. SameWay'
  BY <1>1, <1>2 DEF SameWay, Takes, confVars
<1>11. InOrder'
  BY <1>1, <1>4, OrderStaysWithoutWrite
<1> QED BY <1>4, <1>5, <1>8, <1>9, <1>10, <1>11, OthersStay

\* One worker takes a handler when it has done with the one before.
LEMMA OneAtATime ==
  ASSUME Typed, Run, Workers = 1
  PROVE  \A u \in posted : pc[u] \notin {"write", "written"}
<1> DEFINE busy == {u \in posted : pc[u] \in {"write", "written"}}
<1>1. IsFiniteSet(Requests)
  BY FS_Interval DEF Requests
<1>2. IsFiniteSet(busy)
  BY <1>1, FS_Subset DEF Typed, TypeOK
<1>3. Cardinality(busy) \in Nat /\ Cardinality(busy) < 1
  BY <1>2, FS_CardinalityType DEF Run
<1>4. busy = {}
  BY <1>2, <1>3, FS_EmptySet
<1> QED BY <1>4

LEMMA HeadRunKeeps ==
  ASSUME WriteInv, Typed', Run, NEW r \in Requests, r = Head(queue) PROVE WriteInv'
<1> USE DEF WriteInv
<1>1. /\ queue # <<>> /\ queue' = Tail(queue) /\ Go(r, "write")
      /\ UNCHANGED <<confVars, shape, log, stopped, taken, answers, early, posted, before, since>>
  BY DEF Run
<1>2. /\ Len(queue) \in Nat \ {0} /\ r = queue[1]
      /\ Len(queue') = Len(queue) - 1
      /\ \A i \in 1..Len(queue') : queue'[i] = queue[i + 1] /\ i + 1 \in 1..Len(queue)
  <2>1. queue \in Seq(Requests) /\ Len(queue) \in Nat \ {0}
    BY <1>1, EmptySeq DEF Typed, TypeOK
  <2>2. /\ Len(queue') = Len(queue) - 1
        /\ \A i \in 1..Len(queue') : queue'[i] = queue[i + 1]
    BY <1>1, <2>1, HeadTailProperties
  <2>3. r = queue[1]
    BY <2>1
  <2> QED BY <2>1, <2>2, <2>3
<1>3. pc[r] = "queued"
  BY <1>2 DEF Queued
<1>4. pc'[r] = "write" /\ \A u \in Requests \ {r} : pc'[u] = pc[u]
  BY <1>1, <1>2, GoTypes DEF Pcs
<1>5. r \in posted /\ ~Contains(log, r)
  BY <1>2, <1>3 DEF Stage
<1>6. Apart(r)
  BY <1>1, <1>4 DEF Apart, confVars
<1>7. Stage(r)'
  <2>1. Stage(r) /\ (Owed(r)' <=> Owed(r)) /\ (Contains(log', r) <=> Contains(log, r))
    BY <1>1, <1>3 DEF Owed
  <2> QED BY <1>1, <1>3, <1>4, <1>5, <2>1 DEF Stage, Takes
<1>8. Queued'
  <2>1. ASSUME NEW u \in Requests, pc'[u] = "queued" PROVE \E i \in 1..Len(queue') : queue'[i] = u
    <3>1. u # r /\ pc[u] = "queued"
      BY <1>4, <2>1
    <3>2. PICK i \in 1..Len(queue) : queue[i] = u
      BY <3>1 DEF Queued
    <3>3. i # 1 /\ i - 1 \in 1..Len(queue')
      BY <1>2, <3>1, <3>2
    <3>4. queue'[i - 1] = u
      BY <1>2, <3>2, <3>3
    <3> QED BY <3>3, <3>4
  <2>2. ASSUME NEW i \in 1..Len(queue') PROVE queue'[i] # r /\ (queue'[i] \in Requests => pc'[queue'[i]] = "queued")
    <3>1. queue'[i] = queue[i + 1] /\ i + 1 \in 1..Len(queue) /\ 1 \in 1..Len(queue) /\ i + 1 # 1
      BY <1>2
    <3>2. queue'[i] # r
      BY <1>2, <3>1 DEF Queued
    <3> QED BY <1>4, <3>1, <3>2 DEF Queued
  <2>3. ASSUME NEW i \in 1..Len(queue'), NEW j \in 1..Len(queue'), queue'[i] = queue'[j] PROVE i = j
    <3>1. i + 1 = j + 1
      BY <1>2, <2>3 DEF Queued
    <3> QED BY <1>2, <3>1
  <2> QED BY <2>1, <2>2, <2>3 DEF Queued
<1>9. Fifo'
  <2>1. \A p \in Requests : \A q \in before[p] : q # p /\ (q \in posted \/ pc'[q] = "done")
    BY <1>3, <1>4, <1>5 DEF Fifo, Typed, TypeOK
  <2>2. ASSUME NEW i \in 1..Len(queue'), NEW j \in 1..Len(queue'), i < j
        PROVE  queue'[j] \notin before[queue'[i]]
    BY <1>2, <2>2 DEF Fifo
  <2>3. ASSUME Workers = 1, NEW p \in posted, pc'[p] \in {"write", "written", "done", "crashed"},
               NEW q \in before[p]
        PROVE  pc'[q] \notin {"queued", "write"}
    <3>1. p \in Requests /\ q \in Requests
      BY DEF Typed, TypeOK
    <3>2. CASE p = r
      <4>1. pc[q] # "write"
        BY <2>3, <3>1, OneAtATime DEF Fifo
      <4>2. pc[q] # "queued"
        <5>1. ASSUME pc[q] = "queued" PROVE FALSE
          <6>1. PICK j \in 1..Len(queue) : queue[j] = q
            BY <3>1, <5>1 DEF Queued
          <6>2. j # 1
            BY <1>2, <2>3, <3>1, <3>2, <6>1 DEF Fifo
          <6>3. 1 \in 1..Len(queue) /\ 1 < j
            BY <1>2, <6>2
          <6> QED BY <1>2, <2>3, <3>2, <6>1, <6>3 DEF Fifo
        <5> QED BY <5>1
      <4>3. q # r
        BY <1>3, <4>2
      <4> QED BY <3>1, <1>4, <4>1, <4>2, <4>3
    <3>3. CASE p # r
      <4>1. pc[p] \in {"write", "written", "done", "crashed"}
        BY <1>4, <2>3, <3>1, <3>3
      <4>2. pc[q] \notin {"queued", "write"}
        BY <2>3, <4>1 DEF Fifo
      <4> QED BY <1>3, <1>4, <3>1, <4>2
    <3> QED BY <3>2, <3>3
  <2> QED BY <1>1, <2>1, <2>2, <2>3 DEF Fifo
<1>10. SameWay'
  BY <1>1, <1>4, <1>5 DEF SameWay, Takes, confVars
<1>11. InOrder'
  BY <1>1, <1>3, <1>6, OrderStaysWithoutWrite
<1>12. \A u \in Requests : Stage(u)'
  BY <1>6, <1>7, OthersStay
<1> QED BY <1>8, <1>9, <1>10, <1>11, <1>12

LEMMA RunKeeps ==
  ASSUME WriteInv, Typed', Run PROVE WriteInv'
<1>1. Head(queue) \in Requests
  BY HeadTailProperties DEF Run, WriteInv, Typed, TypeOK
<1> QED BY <1>1, HeadRunKeeps

LEMMA StopKeeps ==
  ASSUME WriteInv, Typed', Stop PROVE WriteInv'
<1> USE DEF WriteInv
<1>1. /\ stopped' = TRUE /\ queue' = <<>>
      /\ pc' = [r \in Requests |-> IF pc[r] = "queued" THEN "lost" ELSE pc[r]]
      /\ UNCHANGED <<confVars, shape, log, taken, answers, early, posted, before, since>>
  BY DEF Stop
<1>2. \A r \in Requests : IF pc[r] = "queued" THEN pc'[r] = "lost" ELSE pc'[r] = pc[r]
  BY <1>1
<1>3. ASSUME NEW r \in Requests PROVE Stage(r)'
  <2>1. (Owed(r)' <=> Owed(r)) /\ (Read(r)' <=> Read(r)) /\ (Settled(r) => Settled(r)')
    BY <1>1 DEF Owed, Read, Left, Settled, Takes
  <2> QED BY <1>1, <1>2, <2>1 DEF Stage, Takes
<1>4. Queued' /\ Fifo'
  <2>1. Len(queue') = 0 /\ \A r \in Requests : pc'[r] # "queued"
    BY <1>1, <1>2
  <2>2. Queued'
    BY <2>1 DEF Queued
  <2>3. \A p \in Requests : \A q \in before[p] : q # p /\ (q \in posted \/ pc'[q] = "done")
    BY <1>2 DEF Fifo, Typed, TypeOK
  <2>4. ASSUME Workers = 1, NEW p \in posted, pc'[p] \in {"write", "written", "done", "crashed"},
               NEW q \in before[p]
        PROVE  pc'[q] \notin {"queued", "write"}
    <3>1. p \in Requests /\ q \in Requests
      BY DEF Typed, TypeOK
    <3>2. pc[p] = pc'[p]
      BY <1>2, <2>4, <3>1
    <3>3. pc[q] \notin {"queued", "write"}
      BY <2>4, <3>2 DEF Fifo
    <3> QED BY <1>2, <3>1, <3>3
  <2> QED BY <1>1, <2>1, <2>2, <2>3, <2>4 DEF Fifo
<1>5. SameWay'
  BY <1>1, <1>2 DEF SameWay, Takes, confVars
<1>6. InOrder'
  BY <1>1 DEF InOrder, Takes, confVars
<1> QED BY <1>3, <1>4, <1>5, <1>6

LEMMA ReconfigureKeeps ==
  ASSUME WriteInv, Typed', NEW c \in Configs, Reconfigure(c) PROVE WriteInv'
<1> USE DEF WriteInv
<1>1. /\ reconfs' = reconfs + 1 /\ reconfs \in Nat
      /\ UNCHANGED <<pc, shape, queue, log, stopped, taken, answers, early, posted, before, since>>
  BY DEF Reconfigure, Typed, TypeOK
<1>2. ASSUME NEW r \in Requests PROVE Stage(r)'
  BY <1>1 DEF Stage, Owed, Read, Left, Settled, Takes
<1>3. Queued' /\ Fifo'
  BY <1>1 DEF Queued, Fifo
<1>4. SameWay'
  BY <1>1 DEF SameWay
<1>5. InOrder'
  BY <1>1 DEF InOrder, Takes
<1> QED BY <1>2, <1>3, <1>4, <1>5

LEMMA StutterKeeps ==
  ASSUME WriteInv, UNCHANGED vars PROVE WriteInv'
<1> USE DEF WriteInv, vars, confVars
<1>1. Typed'
  BY DEF Typed, TypeOK
<1>2. \A r \in Requests : Stage(r)'
  BY DEF Stage, Owed, Read, Left, Settled, Takes
<1>3. Queued' /\ Fifo' /\ SameWay' /\ InOrder'
  BY DEF Queued, Fifo, SameWay, InOrder, Takes
<1> QED BY <1>1, <1>2, <1>3

LEMMA WriteInvSteps == ASSUME WriteInv, [Next]_vars PROVE WriteInv'
<1>1. CASE UNCHANGED vars
  BY <1>1, StutterKeeps
<1>2. CASE Next
  <2>1. Typed'
    BY <1>2, TypedSteps DEF WriteInv
  <2>2. ASSUME NEW r \in Requests, Thread(r) PROVE WriteInv'
    BY <2>1, <2>2, AnswerEarlyKeeps, WriteNowKeeps, PostKeeps, DropKeeps, WriteKeeps, WriteFailsKeeps,
       WriteToNullKeeps, WriteAnswerKeeps, TakeKeeps, DeleteKeeps DEF Thread
  <2> QED BY <1>2, <2>1, <2>2, SubmitKeeps, ReconfigureKeeps, RunKeeps, StopKeeps DEF Next
<1> QED BY <1>1, <1>2

LEMMA WriteInvHolds == Spec => []WriteInv
BY InitWriteInv, WriteInvSteps, PTL DEF Spec
-----------------------------------------------------------------------------
(* What a request is told, and in which order writes are made. *)

\* The variables of the write path keep their types, and the queue its bound.
THEOREM WritePathTypes == Spec => []TypeOK
<1>1. WriteInv => TypeOK
  BY DEF WriteInv, Typed
<1> QED BY <1>1, WriteInvHolds, PTL

\* A callback is called once: before the write or at the end, and never for a handler
\* that stop() took out of the queue.
THEOREM WritesAnsweredOnce == Spec => []AnsweredOnce
<1>1. ASSUME WriteInv PROVE AnsweredOnce
  <2> SUFFICES ASSUME NEW r \in Requests
               PROVE  /\ Len(answers[r]) <= (IF shape[r].cb THEN 1 ELSE 0)
                      /\ pc[r] = "done" /\ shape[r].cb => answers[r] # <<>>
                      /\ pc[r] = "lost" => stopped /\ (answers[r] = <<>> \/ r \in early)
    BY DEF AnsweredOnce
  <2>1. Stage(r)
    BY <1>1 DEF WriteInv
  <2>2. CASE pc[r] = "done"
    BY <2>1, <2>2 DEF Stage, Settled
  <2>3. CASE pc[r] # "done"
    <3>1. answers[r] = IF r \in early THEN <<Answer("ok", Missing)>> ELSE <<>>
      BY <2>1, <2>3 DEF Stage, Owed
    <3>2. Len(answers[r]) = IF r \in early THEN 1 ELSE 0
      BY <3>1
    <3> QED BY <2>1, <2>3, <3>1, <3>2 DEF Stage
  <2> QED BY <2>2, <2>3
<1> QED BY <1>1, WriteInvHolds, PTL

\* An answer given after the write tells what became of it.
THEOREM AnswersTellFate == Spec => []AnswerTellsFate
<1>1. ASSUME WriteInv PROVE AnswerTellsFate
  <2> SUFFICES ASSUME NEW r \in Requests, answers[r] # <<>>, r \notin early, ~Takes(shape[r])
               PROVE  LET status == Head(answers[r]).status
                      IN  /\ status \in {"ok", "snapshotnotfound"} => Contains(log, r)
                          /\ status \in {"ioerror", "invalidfieldvalue"} => ~Contains(log, r)
                          /\ status = "null" => stopped
    BY DEF AnswerTellsFate
  <2>1. Stage(r) /\ answers[r] \in Seq(Answers)
    BY <1>1 DEF WriteInv, Typed, TypeOK
  <2>2. pc[r] = "done"
    BY <2>1 DEF Stage, Owed
  <2>3. Settled(r)
    BY <2>1, <2>2 DEF Stage
  <2>4. Head(answers[r]) = answers[r][1]
    BY <2>1
  <2>5. shape[r].cb
    BY <2>1, <2>3, EmptySeq DEF Settled
  <2> QED BY <2>3, <2>4, <2>5 DEF Settled
<1> QED BY <1>1, WriteInvHolds, PTL

\* With one worker, writes of a caller that waits for its calls are made in their order
\* but for what passes the queue by.
THEOREM WritesInOrder == Spec => []InOrder
<1>1. WriteInv => InOrder
  BY DEF WriteInv
<1> QED BY <1>1, WriteInvHolds, PTL

\* After stop() only a del that was under way writes.
THEOREM NothingAfterStop == Spec => AfterStop
<1>1. ASSUME WriteInv, [Next]_vars, stopped, log' # log PROVE Takes(shape[Last(log')])
  <2>1. PICK r \in Requests : Write(r) \/ Delete(r)
    BY <1>1 DEF Next, Thread, AnswerEarly, WriteNow, Post, Drop, WriteFails, WriteToNull, WriteAnswer,
                Take, Run, Stop, Submit, Reconfigure, vars
  <2>2. Delete(r)
    BY <1>1, <2>1 DEF Write, Open
  <2>3. pc[r] = "delete" /\ log' = Append(log, r)
    BY <1>1, <2>2 DEF Delete, Deleted
  <2>4. Last(log') = r
    BY <1>1, <2>3, LogGrows DEF Last, WriteInv, Typed, TypeOK
  <2> QED BY <1>1, <2>3, <2>4 DEF WriteInv, Stage
<1>2. WriteInv /\ [Next]_vars => [stopped /\ log' # log => Takes(shape[Last(log')])]_vars
  BY <1>1
<1> QED BY <1>2, WriteInvHolds, PTL DEF Spec, AfterStop
-----------------------------------------------------------------------------
(* The write path implements Store: each step of a request is one of Store or changes *)
(* nothing that it knows of.                                                           *)

\* What Promise puts for op and history.
Ops == [r \in Requests |->
          IF pc[r] = "new" THEN "none" ELSE IF Takes(shape[r]) THEN "before"
          ELSE IF shape[r].nores \/ shape[r].kind = "del" THEN "quiet" ELSE "after"]
History == [n \in DOMAIN log |-> [by |-> log[n], value |-> ValueAfter(SubSeq(log, 1, n))]]

\* The history tells of each write of the log who made it and what it left.
HistoryFacts ==
  /\ DOMAIN History = 1..Len(log) /\ Len(History) = Len(log) /\ Len(log) \in Nat
  /\ \A n \in 1..Len(log) :
       /\ History[n] = [by |-> log[n], value |-> Left(n)]
       /\ History[n].by = log[n] /\ History[n].value = Left(n)
  /\ \A r : Promise!MadeBy(r, History) = {} <=> ~Contains(log, r)
  /\ \A n \in 0..Len(log) : Left(n) = IF n = 0 THEN Missing ELSE History[n].value

LEMMA HistoryIsTheLog == Typed => HistoryFacts
<1> SUFFICES ASSUME Typed PROVE HistoryFacts
  OBVIOUS
<1>1. DOMAIN log = 1..Len(log) /\ Len(log) \in Nat
  BY LenProperties DEF Typed, TypeOK
<1>2. DOMAIN History = 1..Len(log)
  BY <1>1 DEF History
<1>3. Len(History) = Len(log)
  BY <1>1, <1>2
<1>4. ASSUME NEW n \in 1..Len(log) PROVE History[n] = [by |-> log[n], value |-> Left(n)]
  BY <1>1, ValueIsLeft DEF History
<1>5. ASSUME NEW n \in 1..Len(log) PROVE History[n].by = log[n] /\ History[n].value = Left(n)
  <2>1. History[n] = [by |-> log[n], value |-> Left(n)]
    BY <1>4
  <2> HIDE DEF History
  <2> QED BY <2>1
<1>6. \A r : Promise!MadeBy(r, History) = {} <=> ~Contains(log, r)
  BY <1>2, <1>5 DEF Promise!MadeBy, Contains
<1>7. Left(0) = Missing
  BY DEF Left
<1> HIDE DEF History
<1> QED BY <1>1, <1>2, <1>3, <1>4, <1>5, <1>6, <1>7 DEF HistoryFacts

\* The history grows as the log does.
LEMMA HistoryGrows ==
  ASSUME Typed, Typed', NEW r \in Requests, log' = Append(log, r), UNCHANGED shape
  PROVE  /\ History' = Append(History, [by |-> r, value |-> Left(Len(log))'])
         /\ Len(History') = Len(History) + 1
<1> DEFINE e == [by |-> r, value |-> Left(Len(log))']
           H == Append(History, e)
           V == {Left(n)' : n \in 1..Len(log')}
           E == [by : Requests, value : V]
<1>1. /\ DOMAIN History = 1..Len(log) /\ Len(History) = Len(log) /\ Len(log) \in Nat
      /\ \A n \in 1..Len(log) : History[n] = [by |-> log[n], value |-> Left(n)]
  BY HistoryIsTheLog DEF HistoryFacts
<1>2. /\ DOMAIN History' = 1..Len(log') /\ Len(History') = Len(log')
      /\ \A n \in 1..Len(log') : History'[n] = [by |-> log'[n], value |-> Left(n)']
  <2>1. Typed' => HistoryFacts'
    BY HistoryIsTheLog, PTL
  <2> QED BY <2>1 DEF HistoryFacts
<1>3. /\ Len(log') = Len(log) + 1 /\ log'[Len(log) + 1] = r
      /\ \A n \in 1..Len(log) : log'[n] = log[n] /\ log[n] \in Requests /\ n \in 1..Len(log')
  <2>1. /\ Len(log') = Len(log) + 1 /\ log'[Len(log) + 1] = r
        /\ \A n \in 1..Len(log) : log'[n] = log[n] /\ log[n] \in Requests
    BY LogGrows DEF Typed, TypeOK
  <2> QED BY <1>1, <2>1
<1>4. \A n \in 1..Len(log) : Left(n)' = Left(n)
  BY <1>3 DEF Left
<1>5. \A n \in 1..Len(log') : History'[n] = IF n <= Len(log) THEN History[n] ELSE e
  BY <1>1, <1>2, <1>3, <1>4
<1>6. \A n \in 1..Len(log') : log'[n] \in Requests /\ Left(n)' \in V
  BY ElementOfSeq DEF Typed, TypeOK
<1>7. ASSUME NEW n \in 1..Len(log') PROVE History'[n] \in E
  <2>1. History'[n] = [by |-> log'[n], value |-> Left(n)']
    BY <1>2
  <2>2. log'[n] \in Requests /\ Left(n)' \in V
    BY <1>6
  <2> HIDE DEF V, History
  <2> QED BY <2>1, <2>2
<1>8. e \in E /\ History \in Seq(E) /\ History' \in Seq(E)
  <2>1. \A n \in 1..Len(log) : History[n] \in E
    BY <1>1, <1>3, <1>5, <1>7
  <2>2. e \in E
    BY <1>1, <1>3, <1>6
  <2>3. History = [n \in 1..Len(log) |-> History[n]] /\ History' = [n \in 1..Len(log') |-> History'[n]]
    BY <1>1, <1>2 DEF History
  <2>4. Len(log) \in Nat /\ Len(log') \in Nat
    BY <1>1, <1>3
  <2> HIDE DEF E, e, History
  <2>5. History \in [1..Len(log) -> E] /\ History' \in [1..Len(log') -> E]
    BY <1>7, <2>1, <2>3
  <2> QED BY <2>2, <2>4, <2>5, SeqDef
<1> HIDE DEF E, e, History
<1>9. /\ H \in Seq(E) /\ Len(H) = Len(History) + 1 /\ H[Len(History) + 1] = e
      /\ \A n \in 1..Len(History) : H[n] = History[n]
  BY <1>8, AppendProperties
<1> HIDE DEF H
<1>10. Len(H) = Len(History') /\ \A n \in 1..Len(H) : H[n] = History'[n]
  BY <1>1, <1>2, <1>3, <1>5, <1>9
<1>11. H = History'
  BY <1>8, <1>9, <1>10, SeqEqual
<1> QED BY <1>1, <1>2, <1>3, <1>11 DEF H, e

\* The element that a sequence was given last is the last.
LEMMA HistoryLast ==
  ASSUME Typed, Typed', NEW r \in Requests, log' = Append(log, r), UNCHANGED shape
  PROVE  History'[Len(History')] = [by |-> r, value |-> Left(Len(log))']
<1>1. Typed' => HistoryFacts'
  BY HistoryIsTheLog, PTL
<1>2. Len(log') = Len(log) + 1 /\ log'[Len(log) + 1] = r /\ Len(log) \in Nat
  BY LogGrows DEF Typed, TypeOK
<1>3. /\ Len(History') = Len(log') /\ Len(log') \in 1..Len(log')
      /\ History'[Len(log')] = [by |-> log'[Len(log')], value |-> Left(Len(log))']
  BY <1>1, <1>2 DEF HistoryFacts
<1> QED BY <1>2, <1>3

\* Requests are new until they are made, and what they ask for does not change.
OpsStay == UNCHANGED shape /\ \A u \in Requests : pc'[u] = "new" <=> pc[u] = "new"

LEMMA SameOps == OpsStay => Ops' = Ops
BY DEF OpsStay, Ops

LEMMA StoreStutters ==
  ASSUME OpsStay, UNCHANGED <<log, answers, since>> PROVE UNCHANGED Promise!vars
<1>1. Ops' = Ops
  BY SameOps
<1>2. History' = History
  BY DEF History, ValueAfter, OpsStay
<1> QED BY <1>1, <1>2 DEF Promise!vars, Ops, History

\* What may be told of a request.
LEMMA RightAnswer ==
  ASSUME NEW r \in Requests, NEW a, NEW h,
         a.status # "ok" => a.value = Missing,
         a.status \in {"ioerror", "invalidfieldvalue"} => Promise!MadeBy(r, h) = {},
         a.status = "ok" /\ Ops[r] = "after" =>
           \E n \in Promise!MadeBy(r, h) : a.value \in Promise!ValuesFrom(n, h),
         a.status = "ok" /\ Ops[r] = "before" => a.value \in Promise!ValuesFrom(since[r], h)
  PROVE  Promise!Right(r, a, h)
BY DEF Promise!Right, Promise!Denials, Ops

LEMMA StoreTells ==
  ASSUME Typed, NEW r \in Requests, OpsStay, UNCHANGED <<log, since>>, pc[r] # "new",
         NEW a, answers[r] = <<>>, answers' = [answers EXCEPT ![r] = <<a>>],
         Promise!Right(r, a, History)
  PROVE  Promise!Tell(r)
<1>1. Ops' = Ops /\ History' = History
  BY SameOps DEF History, ValueAfter, OpsStay
<1>2. Ops[r] # "none"
  BY DEF Ops
<1>3. answers'[r] = <<a>> /\ Len(answers'[r]) = 1 /\ answers'[r][1] = a
  BY DEF Typed, TypeOK
<1>4. Promise!Told(r)
  BY <1>3 DEF Promise!Told
<1>5. Promise!Right(r, answers'[r][1], History)
  BY <1>3
<1> QED BY <1>1, <1>2, <1>4, <1>5 DEF Promise!Tell, Ops, History

LEMMA StoreWrites ==
  ASSUME Typed, Typed', NEW r \in Requests, OpsStay, log' = Append(log, r), UNCHANGED since,
         pc[r] # "new", ~Contains(log, r), Owed(r),
         \/ answers' = answers
         \/ \E a : /\ answers[r] = <<>> /\ answers' = [answers EXCEPT ![r] = <<a>>]
                   /\ Promise!Right(r, a, History')
  PROVE  Promise!Write(r)
<1>1. Ops' = Ops
  BY SameOps
<1>2. Ops[r] # "none"
  BY DEF Ops
<1>3. Len(History') = Len(History) + 1 /\ History' = Append(History, History'[Len(History')])
  BY HistoryGrows, HistoryLast DEF OpsStay
<1>4. History'[Len(History')].by = r
  <2>1. [by |-> r, value |-> Left(Len(log))'].by = r
    OBVIOUS
  <2> QED BY <2>1, HistoryLast DEF OpsStay
<1>5. Promise!Unwritten(r)
  <2>1. Promise!MadeBy(r, History) = {}
    BY HistoryIsTheLog DEF HistoryFacts
  <2>2. \A i \in DOMAIN answers[r] : answers[r][i].status = "ok"
    BY DEF Owed, Answer
  <2> QED BY <2>1, <2>2 DEF Promise!Unwritten, Promise!Denials, History
<1>6. answers' = answers \/ (Promise!Told(r) /\ Promise!Right(r, answers'[r][1], History'))
  <2>1. ASSUME NEW a, answers[r] = <<>>, answers' = [answers EXCEPT ![r] = <<a>>],
               Promise!Right(r, a, History')
        PROVE  Promise!Told(r) /\ Promise!Right(r, answers'[r][1], History')
    <3>1. answers'[r] = <<a>> /\ Len(answers'[r]) = 1 /\ answers'[r][1] = a
      BY <2>1 DEF Typed, TypeOK
    <3> QED BY <2>1, <3>1 DEF Promise!Told
  <2> QED BY <2>1
<1> QED BY <1>1, <1>2, <1>3, <1>4, <1>5, <1>6 DEF Promise!Write, Ops, History

\* An early answer, or one that tells that nothing was or will be written.
LEMMA StoreTellsLast ==
  ASSUME Typed, NEW r \in Requests, OpsStay, UNCHANGED <<log, since>>, pc[r] # "new",
         Owed(r), r \in early => shape[r].cb, NEW a, CallLast(r, a), Promise!Right(r, a, History)
  PROVE  Promise!Tell(r) \/ UNCHANGED Promise!vars
<1>1. CASE HasCallback(r)
  <2>1. answers[r] = <<>> /\ answers' = [answers EXCEPT ![r] = <<a>>]
    BY <1>1 DEF HasCallback, Owed, CallLast, Typed, TypeOK
  <2> QED BY <2>1, StoreTells
<1>2. CASE ~HasCallback(r)
  BY <1>2, StoreStutters DEF CallLast
<1> QED BY <1>1, <1>2

\* The last write's value is one the key had from any earlier write on.
LEMMA LastIsAmongValues ==
  ASSUME Typed, NEW n \in 0..Len(log), NEW m \in n..Len(log)
  PROVE  Left(m) \in Promise!ValuesFrom(n, History)
<1>1. /\ Len(History) = Len(log) /\ Len(log) \in Nat
      /\ Left(m) = IF m = 0 THEN Missing ELSE History[m].value
  BY HistoryIsTheLog DEF HistoryFacts
<1> QED BY <1>1 DEF Promise!ValuesFrom

LEMMA SubmitIsBegin ==
  ASSUME WriteInv, Typed', NEW r \in Requests, NEW s \in Shapes, Submit(r, s) PROVE Promise!Begin(r)
<1> USE DEF WriteInv
<1>1. /\ pc[r] = "new" /\ shape' = [shape EXCEPT ![r] = s] /\ since' = [since EXCEPT ![r] = Len(log)]
      /\ log' = log
      /\ \E to \in {"done", "take", "entered"} : Go(r, to)
      /\ \/ answers' = answers
         \/ \E status \in {"null", "invalidfieldvalue"} :
              answers' = [answers EXCEPT ![r] = IF s.cb THEN <<Answer(status, Missing)>> ELSE <<>>]
  BY DEF Submit
<1>2. pc'[r] # "new" /\ \A u \in Requests \ {r} : pc'[u] = pc[u]
  BY <1>1, GoTypes DEF Pcs
<1>3. ~Contains(log, r) /\ answers[r] = <<>>
  BY <1>1 DEF Stage, Owed
<1>4. History' = History
  <2>1. DOMAIN log = 1..Len(log) /\ DOMAIN log' = 1..Len(log')
    BY LenProperties DEF Typed, TypeOK
  <2>2. \A n \in 1..Len(log) : log[n] \in Requests /\ log[n] # r
    BY <1>3, ElementOfSeq DEF Typed, TypeOK, Contains
  <2>3. \A n \in 1..Len(log) : Left(n)' = Left(n)
    BY <1>1, <2>2 DEF Left, Typed, TypeOK
  <2>4. Typed' => HistoryFacts'
    BY HistoryIsTheLog, PTL
  <2>5. \A n \in 1..Len(log) : History'[n] = History[n]
    BY <1>1, <2>3, <2>4, HistoryIsTheLog DEF HistoryFacts
  <2>6. History = [n \in 1..Len(log) |-> History[n]] /\ History' = [n \in 1..Len(log) |-> History'[n]]
    BY <1>1, <2>1 DEF History
  <2> HIDE DEF History
  <2> QED BY <2>5, <2>6
<1>5. Ops[r] = "none" /\ \E kind \in {"after", "before", "quiet"} : Ops' = [Ops EXCEPT ![r] = kind]
  <2>1. \A u \in Requests \ {r} : shape'[u] = shape[u]
    BY <1>1 DEF Typed, TypeOK
  <2>2. \A u \in Requests \ {r} : Ops'[u] = Ops[u]
    BY <1>2, <2>1 DEF Ops
  <2>3. Ops'[r] \in {"after", "before", "quiet"} /\ Ops[r] = "none"
    BY <1>1, <1>2 DEF Ops
  <2>4. Ops' = [u \in Requests |-> Ops'[u]] /\ Ops = [u \in Requests |-> Ops[u]]
    BY DEF Ops
  <2> HIDE DEF Ops
  <2>5. Ops' = [Ops EXCEPT ![r] = Ops'[r]]
    BY <2>2, <2>4
  <2> QED BY <2>3, <2>5
<1>6. since' = [since EXCEPT ![r] = Len(History)]
  BY <1>1, HistoryIsTheLog DEF HistoryFacts
<1>7. answers' = answers \/ (Promise!Told(r) /\ answers'[r][1].status \in {"null", "invalidfieldvalue"})
  <2>1. ASSUME NEW status \in {"null", "invalidfieldvalue"},
               answers' = [answers EXCEPT ![r] = <<Answer(status, Missing)>>]
        PROVE  Promise!Told(r) /\ answers'[r][1].status \in {"null", "invalidfieldvalue"}
    <3>1. answers'[r] = <<Answer(status, Missing)>>
      BY <2>1 DEF Typed, TypeOK
    <3>2. Len(answers'[r]) = 1 /\ answers'[r][1] = Answer(status, Missing)
      BY <3>1
    <3>3. Answer(status, Missing).status = status
      BY DEF Answer
    <3>4. answers' = [answers EXCEPT ![r] = answers'[r]]
      BY <2>1, <3>1
    <3> QED BY <1>3, <3>2, <3>3, <3>4 DEF Promise!Told
  <2>2. answers' = [answers EXCEPT ![r] = <<>>] => answers' = answers
    BY <1>3 DEF Typed, TypeOK
  <2> QED BY <1>1, <2>1, <2>2
<1> QED BY <1>4, <1>5, <1>6, <1>7 DEF Promise!Begin, Ops, History

\* The steps of a request that Store sees: its answers and its write.
LEMMA ThreadIsStore ==
  ASSUME WriteInv, Typed', NEW r \in Requests, Thread(r)
  PROVE  Promise!Tell(r) \/ Promise!Write(r) \/ UNCHANGED Promise!vars
<1> USE DEF WriteInv
<1>1. UNCHANGED <<shape, since>> /\ pc[r] # "new"
  BY DEF Thread, AnswerEarly, WriteNow, Post, Drop, Write, WriteFails, WriteToNull, WriteAnswer, Take,
         Delete, AtBatch
<1>2. OpsStay
  <2>1. \E to \in Pcs \ {"new"} : Go(r, to)
    BY DEF Thread, AnswerEarly, WriteNow, Post, Drop, Write, WriteFails, WriteToNull, WriteAnswer, Take,
           Delete, Pcs
  <2>2. pc'[r] # "new" /\ \A u \in Requests \ {r} : pc'[u] = pc[u]
    BY <2>1, GoTypes
  <2> QED BY <1>1, <2>2 DEF OpsStay
<1>3. Stage(r) /\ (r \in early => shape[r].cb)
  BY DEF Stage
<1>4. \A status \in Statuses : Answer(status, Missing).status = status /\ Answer(status, Missing).value = Missing
  BY DEF Answer
<1>5. HistoryFacts
  BY HistoryIsTheLog
<1>6. ~Contains(log, r) => Promise!Right(r, Answer("ioerror", Missing), History)
  BY <1>4, <1>5, RightAnswer DEF HistoryFacts, Statuses
<1>7. CASE AnswerEarly(r)
  <2>1. /\ pc[r] = "entered" /\ shape[r].cb /\ (shape[r].nores \/ shape[r].kind = "del") /\ log' = log
        /\ answers' = [answers EXCEPT ![r] = Append(@, Answer("ok", Missing))]
    BY <1>7 DEF AnswerEarly, Early, Call
  <2>2. answers[r] = <<>> /\ ~Takes(shape[r])
    BY <1>3, <2>1 DEF Stage, Owed
  <2>3. answers' = [answers EXCEPT ![r] = <<Answer("ok", Missing)>>]
    BY <2>1, <2>2 DEF Typed, TypeOK
  <2>4. Ops[r] = "quiet"
    BY <2>1, <2>2 DEF Ops
  <2>5. Promise!Right(r, Answer("ok", Missing), History)
    BY <1>4, <2>4, RightAnswer DEF Statuses
  <2> QED BY <1>1, <1>2, <2>1, <2>2, <2>3, <2>5, StoreTells
<1>8. CASE WriteNow(r) \/ Post(r) \/ WriteToNull(r) \/ Take(r)
  BY <1>1, <1>2, <1>8, StoreStutters DEF WriteNow, Post, WriteToNull, Take
<1>9. CASE Drop(r) \/ WriteFails(r)
  <2>1. CallLast(r, Answer("ioerror", Missing)) /\ log' = log /\ pc[r] \in {"entered", "batch", "write"}
    BY <1>9 DEF Drop, WriteFails, Dropped, AtBatch
  <2>2. ~Contains(log, r) /\ Owed(r)
    BY <1>3, <2>1 DEF Stage
  <2> QED BY <1>1, <1>2, <1>3, <1>6, <2>1, <2>2, StoreTellsLast
<1>10. CASE Write(r)
  <2>1. pc[r] = "write" /\ log' = Append(log, r) /\ answers' = answers
    BY <1>10 DEF Write
  <2>2. ~Contains(log, r) /\ Owed(r)
    BY <1>3, <2>1 DEF Stage
  <2> QED BY <1>1, <1>2, <2>1, <2>2, StoreWrites
<1>11. CASE WriteAnswer(r)
  <2> DEFINE quiet == shape[r].nores \/ shape[r].kind = "del"
             a == IF quiet THEN Answer("ok", Missing) ELSE Result(r)
  <2>1. pc[r] = "written" /\ CallLast(r, a) /\ log' = log
    BY <1>11 DEF WriteAnswer
  <2>2. Contains(log, r) /\ Owed(r) /\ ~Takes(shape[r])
    BY <1>3, <2>1 DEF Stage
  <2>3. /\ a.status \in {"ok", "snapshotnotfound", "null"} /\ (a.status # "ok" => a.value = Missing)
        /\ a.status = "ok" /\ ~quiet => a.value = Left(Len(log))
    BY ValueIsLeft DEF Result, Found, Answer
  <2>4. PICK n \in 1..Len(log) : log[n] = r
    BY <2>2 DEF Contains
  <2>5. n \in Promise!MadeBy(r, History)
    BY <1>5, <2>4 DEF HistoryFacts, Promise!MadeBy
  <2>6. Left(Len(log)) \in Promise!ValuesFrom(n, History)
    BY <1>5, LastIsAmongValues DEF HistoryFacts
  <2>7. (Ops[r] = "after" => ~quiet) /\ Ops[r] # "before"
    BY <2>1, <2>2 DEF Ops
  <2> HIDE DEF a, quiet
  <2>8. Promise!Right(r, a, History)
    BY <2>3, <2>5, <2>6, <2>7, RightAnswer
  <2> QED BY <1>1, <1>2, <1>3, <2>1, <2>2, <2>8, StoreTellsLast
<1>12. CASE Delete(r)
  <2>1. /\ pc[r] = "delete" /\ (log' = log \/ log' = Append(log, r)) /\ Call(r, taken[r])
    BY <1>12 DEF Delete, Deleted
  <2>2. ~Contains(log, r) /\ Owed(r) /\ Takes(shape[r]) /\ shape[r].cb /\ Read(r) /\ answers[r] = <<>>
    BY <1>3, <2>1 DEF Stage, Owed, Takes
  <2>3. answers' = [answers EXCEPT ![r] = <<taken[r]>>]
    BY <2>1, <2>2 DEF Call, Typed, TypeOK
  <2>4. Ops[r] = "before"
    BY <2>1, <2>2 DEF Ops
  <2>5. CASE log' = log
    <3>1. taken[r].status = "ok" => taken[r].value \in Promise!ValuesFrom(since[r], History)
      BY <1>5, <2>2, LastIsAmongValues DEF Read, Typed, HistoryFacts
    <3>2. Promise!Right(r, taken[r], History)
      BY <2>2, <2>4, <3>1, RightAnswer DEF Read
    <3> QED BY <1>1, <1>2, <2>2, <2>3, <2>5, <3>2, StoreTells
  <2>6. CASE log' = Append(log, r)
    <3>1. Typed' => HistoryFacts'
      BY HistoryIsTheLog, PTL
    <3>2. Len(log) \in Nat /\ Len(log') = Len(log) + 1 /\ since[r] \in Nat
      BY <2>6, LogGrows DEF Typed, TypeOK
    <3>3. \A n \in 0..Len(log) : Left(n)' = Left(n)
      <4>1. \A n \in 1..Len(log) : log'[n] = log[n]
        BY <2>6, LogGrows DEF Typed, TypeOK
      <4>2. \A n \in 0..Len(log) : n = 0 \/ n \in 1..Len(log)
        BY <3>2
      <4> QED BY <1>1, <4>1, <4>2 DEF Left
    <3>4. ASSUME taken[r].status = "ok"
          PROVE  taken[r].value \in Promise!ValuesFrom(since[r], History')
      <4>1. PICK n \in since[r]..Len(log) : taken[r].value = Left(n)
        BY <2>2, <3>4 DEF Read
      <4>2. n \in 0..Len(log) /\ n \in 0..Len(log') /\ n \in since[r]..Len(log')
        BY <3>2
      <4>3. Left(n)' = IF n = 0 THEN Missing ELSE History'[n].value
        BY <3>1, <4>2 DEF HistoryFacts
      <4>4. Len(History') = Len(log')
        BY <3>1 DEF HistoryFacts
      <4> QED BY <3>3, <4>1, <4>2, <4>3, <4>4 DEF Promise!ValuesFrom
    <3>5. Promise!Right(r, taken[r], History')
      BY <2>2, <2>4, <3>4, RightAnswer DEF Read
    <3> QED BY <1>1, <1>2, <2>1, <2>2, <2>3, <2>6, <3>5, StoreWrites
  <2> QED BY <2>1, <2>5, <2>6
<1> QED BY <1>7, <1>8, <1>9, <1>10, <1>11, <1>12 DEF Thread

LEMMA NextIsStore == ASSUME WriteInv, [Next]_vars PROVE [Promise!Next]_(Promise!vars)
<1>1. CASE UNCHANGED vars
  <2>1. OpsStay /\ UNCHANGED <<log, answers, since>>
    BY <1>1 DEF OpsStay, vars, confVars
  <2> QED BY <2>1, StoreStutters
<1>2. CASE Next
  <2>1. Typed'
    BY <1>2, TypedSteps DEF WriteInv
  <2>2. ASSUME NEW r \in Requests, NEW s \in Shapes, Submit(r, s) PROVE Promise!Next
    BY <2>1, <2>2, SubmitIsBegin DEF Promise!Next
  <2>3. ASSUME NEW r \in Requests, Thread(r) PROVE Promise!Next \/ UNCHANGED Promise!vars
    BY <2>1, <2>3, ThreadIsStore DEF Promise!Next
  <2>4. ASSUME NEW c \in Configs, Reconfigure(c) PROVE UNCHANGED Promise!vars
    <3>1. OpsStay /\ UNCHANGED <<log, answers, since>>
      BY <2>4 DEF OpsStay, Reconfigure
    <3> QED BY <3>1, StoreStutters
  <2>5. CASE Run
    <3>1. Head(queue) \in Requests /\ queue # <<>>
      BY <2>5, HeadTailProperties DEF Run, WriteInv, Typed, TypeOK
    <3>2. pc[Head(queue)] = "queued"
      <4>1. queue \in Seq(Requests)
        BY DEF WriteInv, Typed, TypeOK
      <4>2. 1 \in 1..Len(queue) /\ queue[1] = Head(queue)
        BY <3>1, <4>1, EmptySeq
      <4> QED BY <3>1, <4>2 DEF WriteInv, Queued
    <3>3. OpsStay
      <4>1. /\ pc'[Head(queue)] = "write"
            /\ \A u \in Requests \ {Head(queue)} : pc'[u] = pc[u]
        BY <2>5, <3>1, GoTypes DEF Run, Pcs, WriteInv
      <4> QED BY <2>5, <3>2, <4>1 DEF OpsStay, Run
    <3> QED BY <2>5, <3>3, StoreStutters DEF Run
  <2>6. CASE Stop
    <3>1. OpsStay /\ UNCHANGED <<log, answers, since>>
      BY <2>6 DEF OpsStay, Stop
    <3> QED BY <3>1, StoreStutters
  <2> QED BY <1>2, <2>2, <2>3, <2>4, <2>5, <2>6 DEF Next
<1> QED BY <1>1, <1>2

LEMMA InitIsStore == Init => Promise!Init
<1> SUFFICES ASSUME Init PROVE Promise!Init
  OBVIOUS
<1>1. Ops = [r \in Requests |-> "none"]
  BY DEF Ops, Init
<1>2. History = <<>>
  BY DEF History, Init
<1> QED BY <1>1, <1>2 DEF Promise!Init, Init, Ops, History

\* Those who write find the database of Store: a write takes effect at once or never, at
\* most once and not against an answer, and a value told is none that was gone before.
THEOREM WritePathImplementsStore == Spec => ImplementsStore
<1>1. Spec => []WriteInv
  BY WriteInvHolds
<1> QED BY <1>1, InitIsStore, NextIsStore, PTL DEF Spec, ImplementsStore, Promise!Spec
=============================================================================
