---------------------------- MODULE PrefixProofs ---------------------------
(***************************************************************************)
(* Proofs about the prefixes of an instance.  First PrefixTable, for every *)
(* set of prefixes and threads, every limit and every set of denial times: *)
(* the invariant that ties the table, the objects, the threads and the     *)
(* posted handlers together.  Then PrefixSync, for every set of prefixes,  *)
(* every list of those allowed, and any number of changes, restarts and    *)
(* stops: what was seen listed is open until it is forgotten, and what the *)
(* master kept open is not detached.                                       *)
(***************************************************************************)
EXTENDS PrefixTable, PrefixSync, TLAPS

USE BoundsAssumption, ConfigAssumption
USE DEF Obj, None, Absent, Denied, Failed

\* Nothing is open, posted or running at first.
LEMMA InitIndInv == Init => IndInv
<1> SUFFICES ASSUME Init PROVE IndInv
  OBVIOUS
<1>1. TypeOK
  BY DEF Init, TypeOK, ThreadState, Names, Idle
<1>2. RefersToMade /\ PostedIsRemoved /\ DetachedByOne
  BY DEF Init, RefersToMade, PostedIsRemoved, DetachedByOne, Idle
<1>3. ClosedOnlyWhileDetaching /\ DroppedIsDetaching /\ DenialHasTimer
  BY DEF Init, ClosedOnlyWhileDetaching, DroppedIsDetaching, DenialHasTimer
<1> QED BY <1>1, <1>2, <1>3 DEF IndInv

\* A thread that is not detaching moves on to something other than the later
\* stages of a detach: nothing the invariant says of detaching changes.
LEMMA ThreadFrame ==
  ASSUME IndInv, NEW w \in Thread, NEW s \in ThreadState,
         thread' = [thread EXCEPT ![w] = s],
         thread[w].pc \in {"idle", "calling", "using", "reopen"},
         s.pc \notin {"closed", "table"},
         ~s.last,
         s # Idle => /\ s.pc # "idle" /\ s.prefix \in Prefix
                     /\ s.obj \in 1..made /\ owner[s.obj] = s.prefix,
         UNCHANGED <<tableVars, diskVars, objectVars, timeVars, orphans>>
  PROVE  IndInv'
<1> USE DEF IndInv, tableVars, diskVars, objectVars, timeVars
<1>1. /\ thread'[w] = s
      /\ \A v \in Thread : v # w => thread'[v] = thread[v]
  BY DEF TypeOK
<1>2. TypeOK'
  BY DEF TypeOK
<1>3. RefersToMade'
  BY <1>1 DEF RefersToMade
<1>4. \A p \in Prefix : Removing(p) => Removing(p)'
  BY <1>1 DEF Removing
<1>5. \A o \in Obj : Detaching(o) => Detaching(o)'
  BY <1>1 DEF Detaching
<1>6. PostedIsRemoved'
  BY <1>1, <1>4 DEF PostedIsRemoved
<1>7. DetachedByOne'
  <2>1. \A v \in Thread : v # w /\ thread[v].pc = "table" => thread[v].obj \in Obj
    BY DEF RefersToMade, TypeOK, ThreadState, Idle
  <2> QED BY <1>1, <1>5, <2>1 DEF DetachedByOne
<1>8. ClosedOnlyWhileDetaching'
  BY <1>4 DEF ClosedOnlyWhileDetaching
<1>9. DroppedIsDetaching'
  BY <1>5 DEF DroppedIsDetaching
<1>10. DenialHasTimer'
  BY DEF DenialHasTimer
<1> QED BY <1>2, <1>3, <1>6, <1>7, <1>8, <1>9, <1>10

\* A lookup that enters a new object, or remembers that it could not be opened,
\* replaces no entry and disturbs no object there was.
LEMMA OpenStep ==
  ASSUME IndInv, NEW w \in Thread, NEW p \in Prefix, NEW create \in BOOLEAN,
         NEW then \in {"calling", "detach"}, NEW deny \in Denials \cup {0},
         thread[w].pc \in {"idle", "reopen"}, Open(w, p, create, then, deny)
  PROVE  IndInv'
<1> USE DEF IndInv, diskVars, objectVars, timeVars
<1> DEFINE o == made + 1
           s == [pc |-> then, prefix |-> p, obj |-> o, deny |-> deny, last |-> FALSE]
<1>1. /\ made' = o /\ o \in Obj /\ s \in ThreadState
      /\ map' = [map EXCEPT ![p] = o] /\ map[p] = Absent
      /\ owner' = [owner EXCEPT ![o] = p]
      /\ ref' = [ref EXCEPT ![o] = TRUE]
      /\ thread' = [thread EXCEPT ![w] = s]
      /\ path' = [path EXCEPT ![p] = IF @ = None THEN o ELSE @]
      /\ UNCHANGED <<up, shelf, waiting, timers, promised, orphans>>
  BY DEF Open, Proceed, MayOpen, TypeOK, ThreadState, Names
<1> HIDE DEF s
<1>2. /\ s.pc = then /\ s.prefix = p /\ s.obj = o /\ ~s.last
  BY DEF s
<1>3. TypeOK'
  BY <1>1 DEF TypeOK, Names
<1>4. /\ thread'[w] = s
      /\ \A v \in Thread : v # w => thread'[v] = thread[v]
  BY <1>1 DEF TypeOK
<1>5. /\ map'[p] = o /\ owner'[o] = p /\ ref'[o]
      /\ \A q \in Prefix : q # p => map'[q] = map[q]
      /\ \A x \in Obj : x # o => owner'[x] = owner[x] /\ ref'[x] = ref[x]
  BY <1>1 DEF TypeOK
<1>6. /\ \A q \in Prefix : map[q] # o
      /\ \A v \in Thread : thread[v].obj # o
      /\ ~waiting[o]
  <2>1. made \in Nat /\ o \in Obj
    BY <1>1 DEF TypeOK
  <2>2. \A v \in Thread : thread[v] = Idle \/ thread[v].obj \in 1..made
    BY DEF RefersToMade
  <2> QED BY <2>1, <2>2 DEF RefersToMade, Idle
<1>7. RefersToMade'
  BY <1>1, <1>2, <1>4, <1>5, <1>6 DEF RefersToMade, TypeOK
<1>8. \A q \in Prefix : Removing(q) => Removing(q)'
  BY <1>4 DEF Removing
<1>9. \A x \in Obj : Detaching(x) => Detaching(x)'
  BY <1>1, <1>4 DEF Detaching
<1>10. PostedIsRemoved'
  <2>1. ASSUME NEW v \in Thread, thread'[v].last PROVE thread'[v].obj # o
    BY <2>1, <1>2, <1>4, <1>6
  <2> QED BY <2>1, <1>1, <1>2, <1>4, <1>5, <1>6, <1>8 DEF PostedIsRemoved
<1>11. DetachedByOne'
  <2>1. \A v \in Thread : thread[v].pc \in {"closed", "table"} => thread[v].obj \in Obj
    BY DEF RefersToMade, TypeOK, Idle
  <2> QED BY <2>1, <1>1, <1>2, <1>4, <1>5, <1>6, <1>9 DEF DetachedByOne
<1>12. ClosedOnlyWhileDetaching'
  BY <1>1, <1>5, <1>8 DEF ClosedOnlyWhileDetaching
<1>13. DroppedIsDetaching'
  BY <1>1, <1>5, <1>9 DEF DroppedIsDetaching
<1>14. DenialHasTimer'
  BY <1>1, <1>5 DEF DenialHasTimer
<1> QED BY <1>3, <1>7, <1>10, <1>11, <1>12, <1>13, <1>14

\* The table changes for prefix p, from an entry that is not an object to one
\* that is not a denial, and thread w becomes idle: nothing else changes.
LEMMA OpenFailsStep ==
  ASSUME IndInv, NEW w \in Thread, NEW p \in Prefix, NEW create \in BOOLEAN,
         thread[w].pc \in {"idle", "reopen"}, OpenFails(w, p, create)
  PROVE  IndInv'
<1> USE DEF IndInv, diskVars, objectVars, timeVars
<1>1. /\ map' = [map EXCEPT ![p] = Failed] /\ map[p] = Absent
      /\ thread' = [thread EXCEPT ![w] = Idle]
      /\ UNCHANGED <<up, path, shelf, owner, ref, waiting, made, timers, promised, orphans>>
  BY DEF OpenFails, MayOpen
<1>2. /\ thread'[w] = Idle
      /\ \A v \in Thread : v # w => thread'[v] = thread[v]
      /\ map'[p] = Failed
      /\ \A q \in Prefix : q # p => map'[q] = map[q]
  BY <1>1 DEF TypeOK
<1>3. TypeOK' /\ RefersToMade'
  <2>1. Idle \in ThreadState
    BY DEF Idle, ThreadState, Names
  <2> QED BY <1>1, <1>2, <2>1 DEF TypeOK, RefersToMade
<1>4. \A q \in Prefix : Removing(q) => Removing(q)'
  BY <1>2 DEF Removing
<1>5. \A o \in Obj : Detaching(o) => Detaching(o)'
  BY <1>1, <1>2 DEF Detaching
<1>6. PostedIsRemoved'
  BY <1>1, <1>2, <1>4 DEF PostedIsRemoved, Idle
<1>8. DetachedByOne'
  <2>1. \A v \in Thread : thread[v].pc \in {"closed", "table"} => thread[v].obj \in Obj
    BY DEF RefersToMade, TypeOK, Idle
  <2> QED BY <2>1, <1>1, <1>2, <1>5 DEF DetachedByOne, Idle
<1>7. ClosedOnlyWhileDetaching' /\ DroppedIsDetaching' /\ DenialHasTimer'
  BY <1>1, <1>2, <1>4, <1>5 DEF ClosedOnlyWhileDetaching, DroppedIsDetaching, DenialHasTimer
<1> QED BY <1>3, <1>6, <1>7, <1>8

\* The lookup, wherever it is called from.
LEMMA LookupStep ==
  ASSUME IndInv, NEW w \in Thread, NEW p \in Prefix, NEW create \in BOOLEAN,
         NEW then \in {"calling", "detach"}, NEW deny \in Denials \cup {0},
         thread[w].pc \in {"idle", "reopen"}, Lookup(w, p, create, then, deny)
  PROVE  IndInv'
<1>1. CASE Open(w, p, create, then, deny)
  BY <1>1, OpenStep
<1>2. CASE OpenFails(w, p, create)
  BY <1>2, OpenFailsStep
<1>3. CASE Refuse(w, p, create)
  <2>1. Idle \in ThreadState /\ Idle.pc = "idle" /\ ~Idle.last
    BY DEF Idle, ThreadState, Names
  <2> QED BY <1>3, <2>1, ThreadFrame DEF Refuse
<1>4. CASE Find(w, p, then, deny)
  <2> DEFINE s == [pc |-> then, prefix |-> p, obj |-> map[p], deny |-> deny, last |-> FALSE]
  <2>1. s \in ThreadState /\ s.pc = then /\ ~s.last /\ s.prefix = p /\ s.obj = map[p]
    BY <1>4 DEF Find, ThreadState, Names
  <2>2. map[p] \in 1..made /\ owner[map[p]] = p
    BY <1>4 DEF Find, IndInv, RefersToMade, TypeOK
  <2>3. thread' = [thread EXCEPT ![w] = s]
    BY <1>4 DEF Find, Proceed
  <2> HIDE DEF s
  <2> QED BY <1>4, <2>1, <2>2, <2>3, ThreadFrame DEF Find
<1> QED BY <1>1, <1>2, <1>3, <1>4 DEF Lookup

\* A thread that does something deals with an object that was made.
LEMMA ThreadFacts ==
  ASSUME IndInv, NEW v \in Thread
  PROVE  /\ thread[v] \in ThreadState
         /\ thread[v].last => thread[v].pc # "idle"
         /\ thread[v].pc # "idle" =>
              /\ thread[v] # Idle /\ thread[v].prefix \in Prefix
              /\ thread[v].obj \in Obj /\ thread[v].obj \in 1..made
              /\ owner[thread[v].obj] = thread[v].prefix
BY DEF IndInv, TypeOK, RefersToMade, Idle

\* An idle thread is one of the states of a thread.
LEMMA IdleFacts == Idle \in ThreadState /\ Idle.pc = "idle" /\ ~Idle.last
BY DEF Idle, ThreadState, Names

\* An operation starts or ends.
LEMMA UseStep ==
  ASSUME IndInv, NEW w \in Thread, Enter(w) \/ Leave(w)
  PROVE  IndInv'
<1>1. CASE thread' = [thread EXCEPT ![w] = Idle]
  BY <1>1, IdleFacts, ThreadFrame DEF Enter, Leave
<1>2. CASE thread' # [thread EXCEPT ![w] = Idle]
  <2> DEFINE s == [thread[w] EXCEPT !.pc = "using"]
  <2>1. /\ thread[w].pc = "calling" /\ thread' = [thread EXCEPT ![w] = s]
        /\ UNCHANGED <<tableVars, diskVars, objectVars, timeVars, orphans>>
    BY <1>2 DEF Enter, Leave
  <2>2. ~thread[w].last
    BY <2>1 DEF IndInv, DetachedByOne
  <2>3. /\ s \in ThreadState /\ s.pc = "using" /\ s.prefix = thread[w].prefix
        /\ s.obj = thread[w].obj /\ s.last = thread[w].last
    BY ThreadFacts DEF ThreadState
  <2> HIDE DEF s
  <2> QED BY <2>1, <2>2, <2>3, ThreadFacts, ThreadFrame
<1> QED BY <1>1, <1>2

\* A backup that fails stops whatever the table has for the prefix and takes it
\* out.
LEMMA BackupStep == ASSUME IndInv, NEW w \in Thread, BackupFails(w) PROVE IndInv'
<1> USE DEF IndInv, diskVars, timeVars
<1> DEFINE p == thread[w].prefix
           s == [thread[w] EXCEPT !.pc = "reopen"]
<1>1. /\ thread[w].pc = "using" /\ p \in Prefix
      /\ map' = [map EXCEPT ![p] = Absent]
      /\ ref' = [o \in Obj |-> ref[o] /\ o # map[p]]
      /\ waiting' = [o \in Obj |-> waiting[o] /\ o # map[p]]
      /\ thread' = [thread EXCEPT ![w] = s]
      /\ UNCHANGED <<up, path, shelf, owner, made, timers, promised, orphans>>
  BY ThreadFacts DEF BackupFails, Stopped, Unposted
<1>2. /\ s \in ThreadState /\ s.pc = "reopen" /\ s.prefix = p
      /\ s.obj = thread[w].obj /\ ~s.last /\ s # Idle
  BY <1>1, ThreadFacts DEF ThreadState, DetachedByOne, Idle
<1> HIDE DEF s, p
<1>3. /\ thread'[w] = s /\ map'[p] = Absent
      /\ \A v \in Thread : v # w => thread'[v] = thread[v]
      /\ \A q \in Prefix : q # p => map'[q] = map[q]
      /\ \A o \in Obj : o # map[p] => ref'[o] = ref[o] /\ waiting'[o] = waiting[o]
      /\ \A o \in Obj : o = map[p] => ~ref'[o] /\ ~waiting'[o]
  BY <1>1 DEF TypeOK
<1>4. TypeOK'
  BY <1>1, <1>2 DEF TypeOK
<1>5. RefersToMade'
  <2>1. s.obj \in 1..made /\ owner[s.obj] = s.prefix /\ s.prefix \in Prefix
    BY <1>1, <1>2, ThreadFacts DEF p
  <2> QED BY <2>1, <1>1, <1>2, <1>3 DEF RefersToMade
<1>6. \A q \in Prefix : Removing(q) => Removing(q)'
  BY <1>1, <1>3 DEF Removing
<1>7. \A o \in Obj : Detaching(o) /\ ref'[o] => Detaching(o)'
  BY <1>1, <1>3 DEF Detaching
<1>8. PostedIsRemoved'
  BY <1>1, <1>2, <1>3, <1>6 DEF PostedIsRemoved, RefersToMade
<1>9. DetachedByOne'
  BY <1>1, <1>2, <1>3, <1>7, ThreadFacts DEF DetachedByOne
<1>10. ClosedOnlyWhileDetaching'
  BY <1>1, <1>3, <1>6 DEF ClosedOnlyWhileDetaching, RefersToMade
<1>11. DroppedIsDetaching'
  BY <1>1, <1>3, <1>7 DEF DroppedIsDetaching
<1>12. DenialHasTimer'
  BY <1>1, <1>3 DEF DenialHasTimer
<1> QED BY <1>4, <1>5, <1>8, <1>9, <1>10, <1>11, <1>12

\* The delayed handler becomes a thread that detaches the same object.
LEMMA AgainStep ==
  ASSUME IndInv, NEW w \in Thread, NEW o \in Obj, DetachAgain(w, o)
  PROVE  IndInv'
<1> USE DEF IndInv, tableVars, diskVars, timeVars
<1> DEFINE s == [pc |-> "detach", prefix |-> owner[o], obj |-> o, deny |-> 0, last |-> TRUE]
<1>1. /\ thread[w].pc = "idle" /\ waiting[o] /\ o <= made /\ owner[o] \in Prefix
      /\ waiting' = [waiting EXCEPT ![o] = FALSE]
      /\ thread' = [thread EXCEPT ![w] = s]
      /\ UNCHANGED <<map, up, path, shelf, owner, ref, made, timers, promised, orphans>>
  BY DEF DetachAgain, RefersToMade
<1>2. /\ s \in ThreadState /\ s.pc = "detach" /\ s.prefix = owner[o]
      /\ s.obj = o /\ s.last
  BY <1>1 DEF ThreadState, Names
<1> HIDE DEF s
<1>3. /\ thread'[w] = s
      /\ \A v \in Thread : v # w => thread'[v] = thread[v]
      /\ \A x \in Obj : x # o => waiting'[x] = waiting[x]
      /\ ~waiting'[o]
  BY <1>1 DEF TypeOK
<1>4. TypeOK'
  BY <1>1, <1>2 DEF TypeOK
<1>5. RefersToMade'
  <2>1. o \in 1..made
    BY <1>1 DEF TypeOK
  <2> QED BY <1>1, <1>2, <1>3, <2>1 DEF RefersToMade, Idle
<1>6. \A q \in Prefix : Removing(q) => Removing(q)'
  BY <1>1, <1>3 DEF Removing
<1>7. \A x \in Obj : Detaching(x) => Detaching(x)'
  BY <1>1, <1>2, <1>3 DEF Detaching
<1>8. PostedIsRemoved'
  BY <1>1, <1>2, <1>3, <1>6 DEF PostedIsRemoved
<1>9. DetachedByOne'
  BY <1>1, <1>2, <1>3, <1>7, ThreadFacts DEF DetachedByOne
<1>10. ClosedOnlyWhileDetaching' /\ DroppedIsDetaching' /\ DenialHasTimer'
  BY <1>1, <1>6, <1>7 DEF ClosedOnlyWhileDetaching, DroppedIsDetaching, DenialHasTimer
<1> QED BY <1>4, <1>5, <1>8, <1>9, <1>10

\* What the check of a detach does, in one of two ways.
LEMMA CheckFacts ==
  ASSUME IndInv, NEW w \in Thread, DetachCheck(w)
  PROVE  /\ thread[w].pc = "detach"
         /\ UNCHANGED <<map, up, path, shelf, owner, ref, made, timers, promised, orphans>>
         /\ \/ /\ ref[thread[w].obj] /\ waiting' = waiting
               /\ thread' = [thread EXCEPT ![w].pc = "clear"]
            \/ /\ ~ref[thread[w].obj] /\ waiting' = waiting
               /\ thread' = [thread EXCEPT ![w] = AfterDetach(w)]
            \/ /\ ref[thread[w].obj] /\ waiting' = [waiting EXCEPT ![thread[w].obj] = TRUE]
               /\ thread' = [thread EXCEPT ![w] = AfterDetach(w)]
BY DEF DetachCheck, BusyPosted, tableVars, diskVars, timeVars

\* What follows wrocksdb::detach_prefixes is the table, or nothing.
LEMMA AfterFacts ==
  ASSUME IndInv, NEW w \in Thread, thread[w].pc # "idle"
  PROVE  /\ AfterDetach(w) \in ThreadState
         /\ ~AfterDetach(w).last
         /\ thread[w].last => AfterDetach(w) = Idle
         /\ ~thread[w].last =>
              /\ AfterDetach(w).pc = "table" /\ AfterDetach(w) # Idle
              /\ AfterDetach(w).prefix = thread[w].prefix
              /\ AfterDetach(w).obj = thread[w].obj
<1>1. CASE thread[w].last
  BY <1>1, IdleFacts DEF AfterDetach
<1>2. CASE ~thread[w].last
  BY <1>2, IdleFacts, ThreadFacts DEF AfterDetach, ThreadState
<1> QED BY <1>1, <1>2

\* A detach that finds its object free goes on to stop it.
LEMMA ClearStep ==
  ASSUME IndInv, NEW w \in Thread, thread[w].pc = "detach",
         thread' = [thread EXCEPT ![w].pc = "clear"],
         UNCHANGED <<map, up, path, shelf, owner, ref, waiting, made, timers, promised, orphans>>
  PROVE  IndInv'
<1> USE DEF IndInv
<1> DEFINE s == [thread[w] EXCEPT !.pc = "clear"]
<1>1. /\ s \in ThreadState /\ s.pc = "clear" /\ s.prefix = thread[w].prefix
      /\ s.obj = thread[w].obj /\ s.last = thread[w].last /\ s # Idle
  BY ThreadFacts, IdleFacts DEF ThreadState
<1>2. thread' = [thread EXCEPT ![w] = s]
  OBVIOUS
<1> HIDE DEF s
<1>3. /\ thread'[w] = s
      /\ \A v \in Thread : v # w => thread'[v] = thread[v]
  BY <1>2 DEF TypeOK
<1>4. TypeOK'
  BY <1>1, <1>2 DEF TypeOK
<1>5. RefersToMade'
  BY <1>1, <1>3, ThreadFacts DEF RefersToMade
<1>6. \A q \in Prefix : Removing(q) => Removing(q)'
  BY <1>1, <1>3 DEF Removing
<1>7. \A x \in Obj : Detaching(x) => Detaching(x)'
  BY <1>1, <1>3 DEF Detaching
<1>8. PostedIsRemoved'
  BY <1>1, <1>3, <1>6 DEF PostedIsRemoved
<1>9. DetachedByOne'
  BY <1>1, <1>3, <1>7, ThreadFacts DEF DetachedByOne
<1>10. ClosedOnlyWhileDetaching' /\ DroppedIsDetaching' /\ DenialHasTimer'
  BY <1>6, <1>7 DEF ClosedOnlyWhileDetaching, DroppedIsDetaching, DenialHasTimer
<1> QED BY <1>4, <1>5, <1>8, <1>9, <1>10

\* A detach leaves its object to whoever stopped it, or to a posted handler.
LEMMA PassStep ==
  ASSUME IndInv, NEW w \in Thread, thread[w].pc = "detach",
         thread' = [thread EXCEPT ![w] = AfterDetach(w)],
         waiting' \in [Obj -> BOOLEAN],
         ~ref[thread[w].obj] \/ waiting'[thread[w].obj],
         \A x \in Obj : waiting[x] => waiting'[x],
         \A x \in Obj : x # thread[w].obj \/ ~ref[x] => waiting'[x] = waiting[x],
         UNCHANGED <<map, up, path, shelf, owner, ref, made, timers, promised, orphans>>
  PROVE  IndInv'
<1> USE DEF IndInv
<1> DEFINE s == AfterDetach(w)
           o == thread[w].obj
<1>1. /\ o \in Obj /\ o \in 1..made /\ o <= made
      /\ owner[o] = thread[w].prefix /\ owner[o] \in Prefix
  BY ThreadFacts DEF TypeOK
<1>2. /\ s \in ThreadState /\ ~s.last
      /\ thread[w].last => s = Idle
      /\ ~thread[w].last => /\ s.pc = "table" /\ s # Idle
                           /\ s.prefix = thread[w].prefix /\ s.obj = o
  BY AfterFacts
<1> HIDE DEF s, o
<1>3. /\ thread'[w] = s
      /\ \A v \in Thread : v # w => thread'[v] = thread[v]
  BY DEF TypeOK, s
<1>4. TypeOK'
  BY <1>2 DEF TypeOK, s
<1>5. RefersToMade'
  BY <1>1, <1>2, <1>3 DEF RefersToMade, o
<1>6. \A q \in Prefix : Removing(q) => Removing(q)'
  BY <1>2, <1>3 DEF Removing
<1>7. \A x \in Obj : Detaching(x) /\ ref[x] => Detaching(x)'
  <2> SUFFICES ASSUME NEW x \in Obj, Detaching(x), ref[x], ~waiting[x] PROVE Detaching(x)'
    BY DEF Detaching
  <2>1. PICK v \in Thread : thread[v].pc \in {"detach", "clear"} /\ thread[v].obj = x
    BY DEF Detaching
  <2>2. CASE v = w
    BY <2>1, <2>2 DEF Detaching
  <2>3. CASE v # w
    BY <2>1, <2>3, <1>3 DEF Detaching
  <2> QED BY <2>2, <2>3
<1>8. PostedIsRemoved'
  <2>1. ASSUME NEW p \in Prefix, map[p] \in Obj, waiting'[map[p]], ~waiting[map[p]]
        PROVE  Removing(p)
    <3>1. map[p] = o /\ owner[map[p]] = p
      BY <2>1 DEF RefersToMade, o
    <3>2. thread[w].prefix = p /\ thread[w].obj = map[p]
      BY <3>1, <1>1 DEF o
    <3> QED BY <2>1, <3>2 DEF PostedIsRemoved, Removing
  <2> QED BY <2>1, <1>2, <1>3, <1>6, IdleFacts DEF PostedIsRemoved
<1>9. DetachedByOne'
  <2> SUFFICES ASSUME NEW v \in Thread
               PROVE  (/\ thread[v].last => thread[v].pc \in {"detach", "clear", "closed"}
                       /\ thread[v].pc = "closed" => ~ref[thread[v].obj]
                       /\ thread[v].pc = "table" /\ ref[thread[v].obj]
                            => Detaching(thread[v].obj))'
    BY DEF DetachedByOne
  <2>1. CASE v = w
    BY <2>1, <1>2, <1>3, IdleFacts DEF Detaching, o
  <2>2. CASE v # w
    BY <2>2, <1>3, <1>7, ThreadFacts DEF DetachedByOne
  <2> QED BY <2>1, <2>2
<1>10. ClosedOnlyWhileDetaching' /\ DroppedIsDetaching' /\ DenialHasTimer'
  BY <1>6, <1>7 DEF ClosedOnlyWhileDetaching, DroppedIsDetaching, DenialHasTimer
<1> QED BY <1>4, <1>5, <1>8, <1>9, <1>10

\* The check of a detach, however it turns out.
LEMMA CheckStep == ASSUME IndInv, NEW w \in Thread, DetachCheck(w) PROVE IndInv'
<1> DEFINE o == thread[w].obj
<1>1. thread[w].pc = "detach" /\ o \in Obj /\ waiting \in [Obj -> BOOLEAN]
  BY CheckFacts, ThreadFacts DEF IndInv, TypeOK
<1>2. CASE thread' = [thread EXCEPT ![w].pc = "clear"] /\ waiting' = waiting
  BY <1>1, <1>2, CheckFacts, ClearStep
<1>3. CASE /\ ~ref[o] /\ waiting' = waiting
           /\ thread' = [thread EXCEPT ![w] = AfterDetach(w)]
  BY <1>1, <1>3, CheckFacts, PassStep
<1>4. CASE /\ ref[o] /\ waiting' = [waiting EXCEPT ![o] = TRUE]
           /\ thread' = [thread EXCEPT ![w] = AfterDetach(w)]
  <2>1. /\ waiting' \in [Obj -> BOOLEAN] /\ waiting'[o]
        /\ \A x \in Obj : waiting[x] => waiting'[x]
        /\ \A x \in Obj : x # o \/ ~ref[x] => waiting'[x] = waiting[x]
    BY <1>1, <1>4
  <2> QED BY <1>1, <1>4, <2>1, CheckFacts, PassStep
<1> QED BY <1>2, <1>3, <1>4, CheckFacts

\* stop_(true): the object is stopped, and what was posted for it is dropped.
LEMMA StopObjectStep == ASSUME IndInv, NEW w \in Thread, DetachStop(w) PROVE IndInv'
<1> USE DEF IndInv, tableVars, diskVars, timeVars
<1> DEFINE s == [thread[w] EXCEPT !.pc = "closed"]
           o == thread[w].obj
<1>1. /\ thread[w].pc = "clear" /\ o \in Obj
      /\ ref' = [x \in Obj |-> ref[x] /\ x # o]
      /\ waiting' = [x \in Obj |-> waiting[x] /\ x # o]
      /\ thread' = [thread EXCEPT ![w] = s]
      /\ UNCHANGED <<map, up, path, shelf, owner, made, timers, promised, orphans>>
  BY ThreadFacts DEF DetachStop, Stopped, Unposted
<1>2. /\ s \in ThreadState /\ s.pc = "closed" /\ s.prefix = thread[w].prefix
      /\ s.obj = o /\ s.last = thread[w].last /\ s # Idle
  BY ThreadFacts, IdleFacts DEF ThreadState
<1>3. o \in 1..made /\ owner[o] = thread[w].prefix /\ thread[w].prefix \in Prefix
  BY <1>1, ThreadFacts
<1> HIDE DEF s, o
<1>4. /\ thread'[w] = s
      /\ \A v \in Thread : v # w => thread'[v] = thread[v]
      /\ \A x \in Obj : x # o => ref'[x] = ref[x] /\ waiting'[x] = waiting[x]
      /\ ~ref'[o] /\ ~waiting'[o]
  BY <1>1 DEF TypeOK
<1>5. TypeOK'
  BY <1>1, <1>2 DEF TypeOK
<1>6. RefersToMade'
  BY <1>1, <1>2, <1>3, <1>4 DEF RefersToMade
<1>7. \A q \in Prefix : Removing(q) => Removing(q)'
  BY <1>1, <1>2, <1>4 DEF Removing
<1>8. \A x \in Obj : Detaching(x) /\ ref'[x] => Detaching(x)'
  BY <1>1, <1>2, <1>4 DEF Detaching, o
<1>9. PostedIsRemoved'
  <2>1. \A x \in Obj : waiting'[x] => waiting[x]
    BY <1>4
  <2>2. \A v \in Thread : thread'[v].last = thread[v].last /\ thread'[v].obj = thread[v].obj
    BY <1>2, <1>4 DEF o
  <2> QED BY <1>1, <1>7, <2>1, <2>2 DEF PostedIsRemoved
<1>10. DetachedByOne'
  BY <1>1, <1>2, <1>4, <1>8, ThreadFacts DEF DetachedByOne
<1>11. ClosedOnlyWhileDetaching'
  <2>1. ASSUME NEW p \in Prefix, map[p] = o PROVE Removing(p)
    <3>1. thread[w].prefix = p
      BY <2>1, <1>1, <1>3 DEF RefersToMade
    <3>2. CASE thread[w].last
      BY <3>2, <2>1, <1>1 DEF PostedIsRemoved, o
    <3>3. CASE ~thread[w].last
      BY <3>1, <3>3, <1>1 DEF Removing
    <3> QED BY <3>2, <3>3
  <2> QED BY <2>1, <1>1, <1>4, <1>7 DEF ClosedOnlyWhileDetaching
<1>12. DroppedIsDetaching'
  BY <1>1, <1>4, <1>8 DEF DroppedIsDetaching
<1>13. DenialHasTimer'
  BY <1>1 DEF DenialHasTimer
<1> QED BY <1>5, <1>6, <1>9, <1>10, <1>11, <1>12, <1>13

\* The directory moves; the object is stopped by now.
LEMMA MoveStep == ASSUME IndInv, NEW w \in Thread, DetachMove(w) PROVE IndInv'
<1> USE DEF IndInv, tableVars, objectVars, timeVars
<1> DEFINE s == AfterDetach(w)
           o == thread[w].obj
<1>1. /\ thread[w].pc = "closed" /\ o \in Obj /\ ~ref[o]
      /\ thread' = [thread EXCEPT ![w] = s]
      /\ path' \in [Prefix -> 0..(MaxObj + 1)] /\ shelf' \in [Prefix -> 0..(MaxObj + 1)]
      /\ UNCHANGED <<map, up, owner, ref, waiting, made, timers, promised, orphans>>
  BY ThreadFacts DEF DetachMove, DetachedByOne, TypeOK
<1>2. /\ s \in ThreadState /\ ~s.last
      /\ thread[w].last => s = Idle
      /\ ~thread[w].last => /\ s.pc = "table" /\ s # Idle
                           /\ s.prefix = thread[w].prefix /\ s.obj = o
  BY <1>1, AfterFacts
<1>3. o \in 1..made /\ owner[o] = thread[w].prefix /\ thread[w].prefix \in Prefix
  BY <1>1, ThreadFacts
<1> HIDE DEF s, o
<1>4. /\ thread'[w] = s
      /\ \A v \in Thread : v # w => thread'[v] = thread[v]
  BY <1>1 DEF TypeOK
<1>5. TypeOK'
  BY <1>1, <1>2 DEF TypeOK
<1>6. RefersToMade'
  BY <1>1, <1>2, <1>3, <1>4 DEF RefersToMade
<1>7. \A q \in Prefix : Removing(q) => Removing(q)'
  BY <1>1, <1>2, <1>4 DEF Removing
<1>8. \A x \in Obj : Detaching(x) => Detaching(x)'
  BY <1>1, <1>4 DEF Detaching
<1>9. PostedIsRemoved'
  BY <1>1, <1>2, <1>4, <1>7 DEF PostedIsRemoved
<1>10. DetachedByOne'
  BY <1>1, <1>2, <1>4, <1>8, IdleFacts, ThreadFacts DEF DetachedByOne
<1>11. ClosedOnlyWhileDetaching' /\ DroppedIsDetaching' /\ DenialHasTimer'
  BY <1>1, <1>7, <1>8 DEF ClosedOnlyWhileDetaching, DroppedIsDetaching, DenialHasTimer
<1> QED BY <1>5, <1>6, <1>9, <1>10, <1>11

\* A detach takes its prefix out of the table, or denies it and posts the end of
\* the denial; the object it may drop by this is in `orphans`.
LEMMA TableStep == ASSUME IndInv, NEW w \in Thread, DetachTable(w) PROVE IndInv'
<1> USE DEF IndInv, diskVars, objectVars
<1> DEFINE p == thread[w].prefix
           o == thread[w].obj
<1>1. /\ thread[w].pc = "table" /\ p \in Prefix /\ o \in Obj /\ thread[w].deny \in Nat
      /\ thread' = [thread EXCEPT ![w] = Idle]
      /\ promised' = [promised EXCEPT ![p] = thread[w].deny]
      /\ orphans' = IF map[p] \in Obj \ {o} THEN orphans \cup {map[p]} ELSE orphans
      /\ UNCHANGED <<up, path, shelf, owner, ref, waiting, made>>
  <2>1. thread[w].pc = "table"
    BY DEF DetachTable
  <2>2. p \in Prefix /\ o \in Obj /\ thread[w].deny \in Denials \cup {0}
    BY <2>1, ThreadFacts DEF ThreadState
  <2>3. thread[w].deny \in Nat
    <3>1. \A d \in Denials : d \in Nat
      BY DEF ConfigAssumption
    <3>2. thread[w].deny \in Denials \/ thread[w].deny = 0
      BY <2>2
    <3>3. 0 \in Nat
      OBVIOUS
    <3> QED BY <3>1, <3>2, <3>3, Zenon
  <2> HIDE DEF p, o
  <2>4. /\ thread' = [thread EXCEPT ![w] = Idle]
        /\ UNCHANGED <<up, path, shelf, owner, ref, waiting, made>>
    BY DEF DetachTable
  <2>5. promised' = [promised EXCEPT ![p] = thread[w].deny]
    BY DEF DetachTable, p
  <2>6. orphans' = IF map[p] \in Obj \ {o} THEN orphans \cup {map[p]} ELSE orphans
    BY DEF DetachTable, p, o
  <2> QED BY <2>1, <2>2, <2>3, <2>4, <2>5, <2>6
<1>2. PICK e \in {Absent, Denied} :
         /\ map' = [map EXCEPT ![p] = e]
         /\ timers \subseteq timers'
         /\ timers' \subseteq [prefix : Prefix, left : Nat]
         /\ e = Denied => [prefix |-> p, left |-> thread[w].deny] \in timers'
  BY <1>1 DEF DetachTable, TimerFor, TypeOK
<1> HIDE DEF p, o
<1>3. /\ thread'[w] = Idle /\ map'[p] = e /\ promised'[p] = thread[w].deny
      /\ \A v \in Thread : v # w => thread'[v] = thread[v]
      /\ \A q \in Prefix : q # p => map'[q] = map[q] /\ promised'[q] = promised[q]
  BY <1>1, <1>2 DEF TypeOK
<1>4. TypeOK'
  <2>1. map' \in [Prefix -> Obj \cup {Absent, Denied, Failed}] /\ orphans' \subseteq Obj
    BY <1>1, <1>2 DEF TypeOK
  <2>2. thread' \in [Thread -> ThreadState] /\ promised' \in [Prefix -> Nat]
    BY <1>1, IdleFacts DEF TypeOK
  <2> QED BY <1>1, <1>2, <2>1, <2>2 DEF TypeOK
<1>5. RefersToMade'
  BY <1>1, <1>2, <1>3 DEF RefersToMade
<1>6. \A q \in Prefix : q # p /\ Removing(q) => Removing(q)'
  BY <1>1, <1>3 DEF Removing, p
<1>7. \A x \in Obj : Detaching(x) => Detaching(x)'
  BY <1>1, <1>3 DEF Detaching
<1>8. PostedIsRemoved'
  BY <1>1, <1>2, <1>3, <1>6, IdleFacts DEF PostedIsRemoved
<1>9. DetachedByOne'
  <2> SUFFICES ASSUME NEW v \in Thread
               PROVE  (/\ thread[v].last => thread[v].pc \in {"detach", "clear", "closed"}
                       /\ thread[v].pc = "closed" => ~ref[thread[v].obj]
                       /\ thread[v].pc = "table" /\ ref[thread[v].obj]
                            => Detaching(thread[v].obj))'
    BY DEF DetachedByOne
  <2>1. CASE v = w
    BY <2>1, <1>3, IdleFacts
  <2>2. CASE v # w
    BY <2>2, <1>1, <1>3, <1>7, ThreadFacts DEF DetachedByOne
  <2> QED BY <2>1, <2>2
<1>10. ClosedOnlyWhileDetaching'
  BY <1>1, <1>2, <1>3, <1>6 DEF ClosedOnlyWhileDetaching
<1>11. DroppedIsDetaching'
  <2> SUFFICES ASSUME NEW x \in Obj, ref[x], \A q \in Prefix : map'[q] # x
               PROVE  Detaching(x) \/ x \in orphans'
    BY <1>1, <1>7 DEF DroppedIsDetaching
  <2>1. CASE \E q \in Prefix : map[q] = x
    <3>1. map[p] = x
      BY <2>1, <1>3
    <3>2. CASE x = o
      BY <3>2, <1>1 DEF DetachedByOne, o
    <3>3. CASE x # o
      BY <3>1, <3>3, <1>1
    <3> QED BY <3>2, <3>3
  <2>2. CASE \A q \in Prefix : map[q] # x
    BY <2>2, <1>1 DEF DroppedIsDetaching
  <2> QED BY <2>1, <2>2
<1>12. DenialHasTimer'
  <2> SUFFICES ASSUME NEW q \in Prefix, map'[q] = Denied
               PROVE  \E t \in timers' : t.prefix = q /\ t.left = promised'[q]
    BY DEF DenialHasTimer
  <2>1. CASE q = p
    BY <2>1, <1>2, <1>3
  <2>2. CASE q # p
    BY <2>2, <1>2, <1>3 DEF DenialHasTimer
  <2> QED BY <2>1, <2>2
<1> QED BY <1>4, <1>5, <1>8, <1>9, <1>10, <1>11, <1>12

\* The end of a denial, an attach and the clock touch no object and no thread.
LEMMA NullFrame ==
  ASSUME IndInv, TypeOK', DenialHasTimer',
         \A p \in Prefix : map[p] \in Obj \/ map'[p] \in Obj => map'[p] = map[p],
         UNCHANGED <<objectVars, thread, orphans>>
  PROVE  IndInv'
<1> USE DEF IndInv, objectVars
<1>1. RefersToMade'
  BY DEF RefersToMade
<1>2. \A p \in Prefix : Removing(p)' = Removing(p)
  BY DEF Removing
<1>3. \A o \in Obj : Detaching(o)' = Detaching(o)
  BY DEF Detaching
<1>4. PostedIsRemoved' /\ ClosedOnlyWhileDetaching'
  BY <1>2 DEF PostedIsRemoved, ClosedOnlyWhileDetaching
<1>5. DetachedByOne'
  BY DEF DetachedByOne, Detaching
<1>6. DroppedIsDetaching'
  BY <1>3 DEF DroppedIsDetaching
<1> QED BY <1>1, <1>4, <1>5, <1>6

LEMMA EndStep == ASSUME IndInv, NEW t \in timers, EndDenial(t) PROVE IndInv'
<1> USE DEF IndInv, diskVars, objectVars
<1>1. /\ t.prefix \in Prefix /\ timers' = timers \ {t}
      /\ map' = [map EXCEPT ![t.prefix] = IF @ \in Null THEN Absent ELSE @]
      /\ UNCHANGED <<up, path, shelf, thread, promised>>
  BY DEF EndDenial, Ended, TypeOK
<1>2. TypeOK'
  BY <1>1 DEF EndDenial, TypeOK
<1>3. DenialHasTimer'
  BY <1>1 DEF DenialHasTimer, TypeOK, Null
<1>4. \A p \in Prefix : map[p] \in Obj \/ map'[p] \in Obj => map'[p] = map[p]
  BY <1>1 DEF TypeOK, Null
<1> QED BY <1>2, <1>3, <1>4, NullFrame DEF EndDenial

LEMMA AttachStep == ASSUME IndInv, NEW p \in Prefix, Attach(p) PROVE IndInv'
<1> USE DEF IndInv, objectVars
<1>1. /\ map' = [map EXCEPT ![p] = IF @ \in Null THEN Absent ELSE @]
      /\ promised' = [promised EXCEPT ![p] = 0]
      /\ UNCHANGED <<up, thread, timers>>
  BY DEF Attach, Ended
<1>2. TypeOK'
  BY <1>1 DEF Attach, TypeOK
<1>3. DenialHasTimer'
  BY <1>1 DEF DenialHasTimer, TypeOK, Null
<1>4. \A q \in Prefix : map[q] \in Obj \/ map'[q] \in Obj => map'[q] = map[q]
  BY <1>1 DEF TypeOK, Null
<1> QED BY <1>2, <1>3, <1>4, NullFrame DEF Attach

LEMMA TickStep == ASSUME IndInv, Tick PROVE IndInv'
<1> USE DEF IndInv, tableVars, diskVars, objectVars
<1>1. /\ timers' = {[t EXCEPT !.left = Less(@)] : t \in timers}
      /\ promised' = [p \in Prefix |-> Less(promised[p])]
      /\ UNCHANGED <<map, up, path, shelf, objectVars, thread, orphans>>
  BY DEF Tick
<1>2. \A n \in Nat : Less(n) \in Nat
  BY DEF Less
<1>3. TypeOK'
  <2>1. timers' \subseteq [prefix : Prefix, left : Nat]
    <3> SUFFICES ASSUME NEW t \in timers
                 PROVE  [t EXCEPT !.left = Less(@)] \in [prefix : Prefix, left : Nat]
      BY <1>1
    <3>1. t \in [prefix : Prefix, left : Nat]
      BY DEF TypeOK
    <3>2. t.left \in Nat /\ Less(t.left) \in Nat
      BY <3>1, <1>2
    <3> QED BY <3>1, <3>2
  <2>2. promised' \in [Prefix -> Nat]
    BY <1>1, <1>2 DEF TypeOK
  <2> QED BY <1>1, <2>1, <2>2 DEF TypeOK
<1>4. DenialHasTimer'
  <2> SUFFICES ASSUME NEW p \in Prefix, map[p] = Denied
               PROVE  \E t \in timers' : t.prefix = p /\ t.left = promised'[p]
    BY <1>1 DEF DenialHasTimer
  <2>1. PICK t \in timers : t.prefix = p /\ t.left = promised[p]
    BY DEF DenialHasTimer
  <2>2. [t EXCEPT !.left = Less(@)] \in timers'
    BY <1>1
  <2> QED BY <1>1, <2>1, <2>2 DEF TypeOK
<1> QED BY <1>1, <1>3, <1>4, NullFrame

\* multidb::stop stops what is in the table and empties it.
LEMMA StopStep == ASSUME IndInv, Stop PROVE IndInv'
<1> USE DEF IndInv, diskVars
<1> DEFINE S == {map[p] : p \in Prefix}
<1>1. /\ map' = [p \in Prefix |-> Absent]
      /\ ref' = [o \in Obj |-> ref[o] /\ o \notin S]
      /\ waiting' = [o \in Obj |-> waiting[o] /\ o \notin S]
      /\ up' = FALSE /\ timers' = {} /\ promised' = [p \in Prefix |-> 0]
      /\ UNCHANGED <<path, shelf, owner, made, thread, orphans>>
  BY DEF Stop, Stopped, Unposted
<1>2. TypeOK'
  BY <1>1 DEF TypeOK
<1>3. \A o \in Obj : /\ o \notin S => ref'[o] = ref[o] /\ waiting'[o] = waiting[o]
                   /\ o \in S => ~ref'[o] /\ ~waiting'[o]
  BY <1>1 DEF TypeOK
<1> HIDE DEF S
<1>4. \A p \in Prefix : map'[p] = Absent
  BY <1>1
<1>5. RefersToMade'
  <2>1. \A o \in Obj : ref'[o] \/ waiting'[o] => o <= made /\ owner[o] \in Prefix
    <3>1. \A o \in Obj : (ref'[o] => ref[o]) /\ (waiting'[o] => waiting[o])
      BY <1>1
    <3> QED BY <3>1 DEF RefersToMade
  <2>2. \A v \in Thread : thread[v] # Idle =>
          /\ thread[v].pc # "idle" /\ thread[v].prefix \in Prefix
          /\ thread[v].obj \in 1..made /\ owner[thread[v].obj] = thread[v].prefix
    BY DEF RefersToMade
  <2>3. \A p \in Prefix : map'[p] \notin Obj
    BY <1>4
  <2> QED BY <1>1, <2>1, <2>2, <2>3 DEF RefersToMade
<1>6. \A o \in Obj : Detaching(o) /\ ref'[o] => Detaching(o)'
  BY <1>1, <1>3 DEF Detaching
<1>7. DetachedByOne'
  BY <1>1, <1>3, <1>6, ThreadFacts DEF DetachedByOne
<1>8. DroppedIsDetaching'
  BY <1>1, <1>3, <1>6 DEF DroppedIsDetaching, S
<1>9. PostedIsRemoved' /\ ClosedOnlyWhileDetaching' /\ DenialHasTimer'
  BY <1>4 DEF PostedIsRemoved, ClosedOnlyWhileDetaching, DenialHasTimer
<1> QED BY <1>2, <1>5, <1>7, <1>8, <1>9

-----------------------------------------------------------------------------
\* No step breaks the invariant.
LEMMA NextIndInv == IndInv /\ [Next]_vars => IndInv'
<1> SUFFICES ASSUME IndInv, [Next]_vars PROVE IndInv'
  OBVIOUS
<1>1. ASSUME NEW w \in Thread, Step(w) \/ BackupFails(w) PROVE IndInv'
  <2>1. CASE Reopen(w)
    <3>1. thread[w].prefix \in Prefix
      BY <2>1, ThreadFacts DEF Reopen
    <3> QED BY <2>1, <3>1, LookupStep DEF Reopen
  <2> QED BY <1>1, <2>1, UseStep, BackupStep, CheckStep, StopObjectStep, MoveStep, TableStep
          DEF Step
<1>2. ASSUME NEW w \in Thread, NEW p \in Prefix, NEW create \in BOOLEAN, Call(w, p, create)
      PROVE  IndInv'
  BY <1>2, LookupStep DEF Call
<1>3. ASSUME NEW w \in Thread, NEW p \in Prefix, NEW deny \in Denials, DetachCall(w, p, deny)
      PROVE  IndInv'
  BY <1>3, LookupStep DEF DetachCall
<1>4. ASSUME NEW w \in Thread, NEW o \in Obj, DetachAgain(w, o) PROVE IndInv'
  BY <1>4, AgainStep
<1>5. CASE \/ \E t \in timers : EndDenial(t)
           \/ \E p \in Prefix : Attach(p)
           \/ Stop \/ Tick
  BY <1>5, EndStep, AttachStep, StopStep, TickStep
<1>6. CASE UNCHANGED vars
  BY <1>6 DEF vars, tableVars, diskVars, objectVars, timeVars, IndInv, TypeOK, RefersToMade,
              PostedIsRemoved, DetachedByOne, ClosedOnlyWhileDetaching, DroppedIsDetaching,
              DenialHasTimer, Removing, Detaching
<1> QED BY <1>1, <1>2, <1>3, <1>4, <1>5, <1>6 DEF Next

\* The inductive invariant holds in every reachable state.
THEOREM Invariance == Spec => []IndInv
<1> QED BY InitIndInv, NextIndInv, PTL DEF Spec

\* A stopped database stays in the table only while the detach that will take it
\* out runs.
THEOREM NoClosedDatabaseIsServed == Spec => []ClosedOnlyWhileDetaching
<1>1. IndInv => ClosedOnlyWhileDetaching
  BY DEF IndInv
<1> QED BY <1>1, Invariance, PTL

\* A database that left the table is stopped or about to be, unless a detach of an
\* older object dropped it.
THEOREM NoDatabaseIsForgotten == Spec => []DroppedIsDetaching
<1>1. IndInv => DroppedIsDetaching
  BY DEF IndInv
<1> QED BY <1>1, Invariance, PTL

\* Every denial has the timer that will end it, due when the time is over.
THEOREM EveryDenialIsTimed == Spec => []DenialHasTimer
<1>1. IndInv => DenialHasTimer
  BY DEF IndInv
<1> QED BY <1>1, Invariance, PTL

-----------------------------------------------------------------------------
(* A slave that follows the prefixes of its master (PrefixSync). *)

HIDE DEF Obj, None, Absent, Denied, Failed
USE PrefixAssumption, ChangesAssumption

LEMMA AllowedArePrefixes == Allowed \subseteq Prefixes /\ Listable \subseteq Allowed
BY DEF Allowed, Listable

\* A call that is over, or waits for its timer, has nothing in hand.
LEMMA FreeFacts ==
  ASSUME NEW pc \in {"idle", "asked", "over"}
  PROVE  Free(pc) \in CallType /\ Free(pc).pc = pc /\ Free(pc).todo = {} /\ Free(pc).old = {}
BY DEF Free, CallType

LEMMA AfterCallFacts ==
  ASSUME NEW c \in Callers
  PROVE  /\ After(c) \in CallType /\ After(c).pc \in {"idle", "over"}
         /\ After(c).todo = {} /\ After(c).old = {}
         /\ c = "load" => After(c).pc = "over"
BY FreeFacts DEF After, Callers

LEMMA SyncStart == InitSync => SyncInv
<1> SUFFICES ASSUME InitSync PROVE SyncInv
  OBVIOUS
<1>1. /\ call \in [Callers -> CallType]
      /\ \A c \in Callers : call[c].todo = {} /\ call[c].pc \in {"idle", "over"}
      /\ ~loading => call["load"].pc = "over"
  BY FreeFacts DEF InitSync, Callers
<1>2. SyncTypeOK
  BY <1>1 DEF InitSync, SyncTypeOK
<1>3. KnownIsOpen /\ (polls => running) /\ kept = {}
  BY DEF InitSync, KnownIsOpen
<1>4. OneHandler
  BY <1>1 DEF OneHandler, Callers
<1> QED BY <1>1, <1>2, <1>3, <1>4 DEF SyncInv

\* Who is in its handler, where there is one.
LEMMA OnlyThePoll ==
  ASSUME SyncInv, NEW c \in Callers, call[c].pc # "over", ~loading PROVE c = "poll"
BY DEF SyncInv, OneHandler, Callers

LEMMA MasterKeeps ==
  ASSUME SyncInv, NEW x \in Prefixes, MasterOpen(x) \/ MasterClose(x) PROVE SyncInv'
<1> USE DEF SyncInv
<1>1. UNCHANGED <<table, disk, known, call, instance>>
  BY DEF MasterOpen, MasterClose
<1>2. kept' \subseteq kept /\ kept' \subseteq mopen'
  BY DEF MasterOpen, MasterClose
<1>3. mopen' \subseteq Prefixes /\ changes' \in 0..MaxChanges
  BY DEF MasterOpen, MasterClose, SyncTypeOK
<1>4. SyncTypeOK'
  BY <1>1, <1>2, <1>3 DEF SyncTypeOK, instance
<1>5. KnownIsOpen' /\ (polls' => running')
  BY <1>1 DEF KnownIsOpen, instance
<1>6. OneHandler'
  BY <1>1, <1>2 DEF OneHandler, instance
<1> QED BY <1>1, <1>2, <1>4, <1>5, <1>6

LEMMA LocalOpenKeeps ==
  ASSUME SyncInv, NEW x \in Prefixes, LocalOpen(x) PROVE SyncInv'
<1> USE DEF SyncInv
<1>1. /\ running /\ table' = [table EXCEPT ![x] = "open"] /\ disk' = disk \cup {x}
      /\ UNCHANGED <<masterVars, known, call, instance, kept>>
  BY DEF LocalOpen
<1>2. SyncTypeOK'
  BY <1>1 DEF SyncTypeOK, masterVars, instance
<1>3. KnownIsOpen' /\ (polls' => running')
  <2>1. table'[x] = "open" /\ \A y \in Prefixes : y # x => table'[y] = table[y]
    BY <1>1 DEF SyncTypeOK
  <2>2. known \subseteq Prefixes
    BY AllowedArePrefixes DEF SyncTypeOK
  <2> QED BY <1>1, <2>1, <2>2 DEF KnownIsOpen, instance
<1>4. OneHandler'
  BY <1>1 DEF OneHandler, instance
<1> QED BY <1>1, <1>2, <1>3, <1>4 DEF masterVars

\* A step that only a call takes, towards its answer or away from it.
LEMMA CallKeeps ==
  ASSUME SyncInv, NEW c \in Callers, NEW r \in CallType, call' = [call EXCEPT ![c] = r],
         UNCHANGED <<masterVars, table, disk, known, instance, kept>>,
         call[c].pc # "over", r.todo \subseteq Listable,
         r.pc \notin {"open", "detach"}, r.pc = "answered" => kept \subseteq r.todo
  PROVE  SyncInv'
<1> USE DEF SyncInv
<1>1. /\ call' \in [Callers -> CallType] /\ call'[c] = r
      /\ \A d \in Callers : d # c => call'[d] = call[d]
  BY DEF SyncTypeOK
<1>2. SyncTypeOK'
  BY <1>1 DEF SyncTypeOK, masterVars, instance
<1>3. KnownIsOpen' /\ (polls' => running')
  BY DEF KnownIsOpen, instance
<1>4. OneHandler'
  BY <1>1, OnlyThePoll DEF OneHandler, instance, Callers
<1>5. \A d \in Callers : call'[d].todo \subseteq Listable
  BY <1>1
<1> QED BY <1>2, <1>3, <1>4, <1>5 DEF masterVars

LEMMA AskKeeps ==
  ASSUME SyncInv, NEW c \in Callers, Ask(c) \/ Reply(c) \/ NoReply(c) PROVE SyncInv'
<1>1. CASE Ask(c)
  BY <1>1, FreeFacts, CallKeeps DEF Ask
<1>2. CASE NoReply(c)
  BY <1>2, AfterCallFacts, CallKeeps DEF NoReply, Again
<1>3. CASE Reply(c)
  <2> DEFINE r == [pc |-> "answered", todo |-> Wanted, old |-> {}]
  <2>1. Wanted \subseteq Listable /\ kept \subseteq Wanted
    BY DEF SyncInv, Wanted, Listed, Listable
  <2>2. r \in CallType
    BY <2>1, AllowedArePrefixes DEF CallType
  <2>3. r.todo = Wanted /\ r.pc = "answered"
    OBVIOUS
  <2>4. /\ call' = [call EXCEPT ![c] = r] /\ call[c].pc = "asked"
        /\ UNCHANGED <<masterVars, table, disk, known, instance, kept>>
    BY <1>3 DEF Reply
  <2> HIDE DEF r
  <2> QED BY <2>1, <2>2, <2>3, <2>4, CallKeeps
<1> QED BY <1>1, <1>2, <1>3

LEMMA HandleKeeps == ASSUME SyncInv, NEW c \in Callers, Handle(c) PROVE SyncInv'
<1> USE DEF SyncInv
<1>1. /\ call[c].pc = "answered"
      /\ UNCHANGED <<masterVars, table, disk, known, instance, kept>>
  BY DEF Handle
<1>2. /\ call' \in [Callers -> CallType]
      /\ call'[c].pc = "open" /\ call'[c].todo = call[c].todo /\ call'[c].old = known
      /\ \A d \in Callers : d # c => call'[d] = call[d]
  BY AllowedArePrefixes DEF Handle, SyncTypeOK, CallType
<1>3. SyncTypeOK'
  BY <1>1, <1>2 DEF SyncTypeOK, masterVars, instance
<1>4. KnownIsOpen' /\ (polls' => running')
  BY <1>1 DEF KnownIsOpen, instance
<1>5. OneHandler'
  BY <1>1, <1>2, OnlyThePoll DEF OneHandler, instance, Callers
<1>6. \A d \in Callers : call'[d].todo \subseteq Listable
  BY <1>2
<1> QED BY <1>1, <1>3, <1>4, <1>5, <1>6 DEF masterVars

LEMMA OpenKeeps ==
  ASSUME SyncInv, NEW c \in Callers, NEW x \in Prefixes, OpenListed(c, x) PROVE SyncInv'
<1> USE DEF SyncInv
<1>1. /\ call[c].pc = "open" /\ x \in call[c].todo /\ known' = known \cup {x}
      /\ kept' \subseteq kept \cup ({x} \cap mopen)
      /\ UNCHANGED <<masterVars, instance>>
  BY DEF OpenListed
<1>2. /\ call' \in [Callers -> CallType]
      /\ call'[c].pc = "open"
      /\ call'[c].todo = call[c].todo \ {x} /\ call'[c].old = call[c].old \ {x}
      /\ \A d \in Callers : d # c => call'[d] = call[d]
  <2>1. call' = [call EXCEPT ![c].todo = @ \ {x}, ![c].old = @ \ {x}]
    BY DEF OpenListed, Found
  <2> QED BY <1>1, <2>1 DEF SyncTypeOK, CallType
<1>3. /\ table' \in [Prefixes -> {"absent", "open", "null"}] /\ disk \subseteq disk'
      /\ disk' \subseteq Prefixes
      /\ \A y \in Prefixes : y # x => table'[y] = table[y]
      /\ table'[x] = "open" => x \in disk'
      /\ running => table'[x] # "absent"
      /\ ~running => table' = table
  BY DEF OpenListed, Serves, SyncTypeOK, KnownIsOpen
<1>4. x \in Listable /\ x \in Allowed
  BY <1>1, AllowedArePrefixes
<1>5. SyncTypeOK'
  BY <1>1, <1>2, <1>3, <1>4 DEF SyncTypeOK, masterVars, instance
<1>6. KnownIsOpen' /\ (polls' => running')
  <2>1. known \subseteq Prefixes
    BY AllowedArePrefixes DEF SyncTypeOK
  <2> QED BY <1>1, <1>3, <2>1 DEF KnownIsOpen, instance
<1>7. OneHandler'
  BY <1>1, <1>2, OnlyThePoll DEF OneHandler, instance, Callers
<1>8. \A d \in Callers : call'[d].todo \subseteq Listable
  BY <1>2
<1> QED BY <1>1, <1>4, <1>5, <1>6, <1>7, <1>8 DEF masterVars

LEMMA ForgetKeeps == ASSUME SyncInv, NEW c \in Callers, Forget(c) PROVE SyncInv'
<1> USE DEF SyncInv
<1>1. /\ call[c].pc = "open" /\ call[c].todo = {} /\ known' = known \ call[c].old
      /\ UNCHANGED <<masterVars, table, disk, instance, kept>>
  BY DEF Forget, Known
<1>2. /\ call' \in [Callers -> CallType]
      /\ \A d \in Callers : d # c => call'[d] = call[d]
      /\ call'[c].todo = {}
      /\ \/ call'[c].pc \in {"idle", "over"} /\ (c = "load" => call'[c].pc = "over")
         \/ call'[c].pc = "detach" /\ call'[c].old = call[c].old
  <2>1. CASE call[c].old = {}
    <3>1. call' = [call EXCEPT ![c] = After(c)]
      BY <2>1 DEF Forget, Gone
    <3> QED BY <3>1, AfterCallFacts DEF SyncTypeOK
  <2>2. CASE call[c].old # {}
    <3>1. call' = [call EXCEPT ![c] = [call[c] EXCEPT !.pc = "detach", !.old = call[c].old]]
      BY <2>2 DEF Forget, Gone
    <3> QED BY <1>1, <3>1 DEF SyncTypeOK, CallType
  <2> QED BY <2>1, <2>2
<1>3. SyncTypeOK'
  BY <1>1, <1>2 DEF SyncTypeOK, masterVars, instance
<1>4. KnownIsOpen' /\ (polls' => running')
  BY <1>1 DEF KnownIsOpen, instance
<1>5. OneHandler'
  BY <1>1, <1>2, OnlyThePoll DEF OneHandler, instance, Callers
<1>6. \A d \in Callers : call'[d].todo \subseteq Listable
  BY <1>2
<1> QED BY <1>1, <1>3, <1>4, <1>5, <1>6 DEF masterVars

LEMMA DetachKeeps ==
  ASSUME SyncInv, NEW c \in Callers, NEW x \in Prefixes, Detach(c, x) PROVE SyncInv'
<1> USE DEF SyncInv
<1>1. /\ call[c].pc = "detach" /\ x \in call[c].old
      /\ UNCHANGED <<masterVars, known, instance, kept>>
  BY DEF Detach
<1>2. /\ call' \in [Callers -> CallType]
      /\ \A d \in Callers : d # c => call'[d] = call[d]
      /\ call'[c].todo \subseteq call[c].todo
      /\ \/ call'[c].pc \in {"idle", "over"} /\ (c = "load" => call'[c].pc = "over")
         \/ call'[c].pc = "detach" /\ call'[c].old \subseteq call[c].old
  <2>1. CASE call[c].old \ {x} = {}
    <3>1. call' = [call EXCEPT ![c] = After(c)]
      BY <2>1 DEF Detach
    <3> QED BY <3>1, AfterCallFacts DEF SyncTypeOK
  <2>2. CASE call[c].old \ {x} # {}
    <3>1. call' = [call EXCEPT ![c] = [call[c] EXCEPT !.old = call[c].old \ {x}]]
      BY <2>2 DEF Detach
    <3> QED BY <1>1, <3>1 DEF SyncTypeOK, CallType
  <2> QED BY <2>1, <2>2
<1>3. /\ table' \in [Prefixes -> {"absent", "open", "null"}] /\ disk' \subseteq Prefixes
      /\ \A y \in Prefixes : y # x => table'[y] = table[y] /\ (y \in disk' <=> y \in disk)
      /\ table'[x] = "open" => x \in disk'
      /\ ~running => table' = table
  BY DEF Detach, Serves, SyncTypeOK, KnownIsOpen
<1>4. SyncTypeOK'
  BY <1>1, <1>2, <1>3 DEF SyncTypeOK, masterVars, instance
<1>5. KnownIsOpen' /\ (polls' => running')
  <2>1. known \subseteq Prefixes
    BY AllowedArePrefixes DEF SyncTypeOK
  <2>2. ~loading => x \notin known
    BY <1>1, OnlyThePoll DEF OneHandler
  <2> QED BY <1>1, <1>3, <2>1, <2>2 DEF KnownIsOpen, instance
<1>6. OneHandler'
  BY <1>1, <1>2, OnlyThePoll DEF OneHandler, instance, Callers
<1>7. \A d \in Callers : call'[d].todo \subseteq Listable
  BY <1>2
<1> QED BY <1>1, <1>4, <1>5, <1>6, <1>7 DEF masterVars

LEMMA StopKeeps == ASSUME SyncInv, StopInstance PROVE SyncInv'
<1> USE DEF SyncInv
<1>1. /\ running' = FALSE /\ polls' = FALSE /\ stops' = stops + 1 /\ stops < MaxStops
      /\ table' = [x \in Prefixes |-> "absent"]
      /\ UNCHANGED <<masterVars, disk, known, loading, restarts, kept>>
  BY DEF StopInstance
<1>2. /\ call' \in [Callers -> CallType] /\ call'["load"] = call["load"]
      /\ \/ call'["poll"] = call["poll"]
         \/ call'["poll"].pc = "over" /\ call'["poll"].todo = {}
  <2>1. CASE call["poll"].pc = "idle"
    <3>1. call' = [call EXCEPT !["poll"] = Free("over")]
      BY <2>1 DEF StopInstance
    <3> QED BY <3>1, FreeFacts DEF SyncTypeOK, Callers
  <2>2. CASE call["poll"].pc # "idle"
    <3>1. call' = call
      BY <2>2 DEF StopInstance
    <3> QED BY <3>1 DEF SyncTypeOK
  <2> QED BY <2>1, <2>2
<1>3. stops' \in 0..MaxStops
  BY <1>1 DEF SyncTypeOK
<1>4. SyncTypeOK'
  BY <1>1, <1>2, <1>3 DEF SyncTypeOK, masterVars
<1>5. KnownIsOpen'
  BY <1>1 DEF KnownIsOpen
<1>6. OneHandler'
  BY <1>1, <1>2 DEF OneHandler
<1>7. \A d \in Callers : call'[d].todo \subseteq Listable
  BY <1>2 DEF Callers
<1> QED BY <1>1, <1>4, <1>5, <1>6, <1>7 DEF masterVars

LEMMA StartAgainKeeps == ASSUME SyncInv, StartAgain PROVE SyncInv'
<1> USE DEF SyncInv
<1>1. /\ ~running /\ running' = TRUE /\ call["load"].pc = "over"
      /\ table' = [x \in Prefixes |-> IF x \in disk THEN "open" ELSE "absent"]
      /\ UNCHANGED <<masterVars, disk, known, loading, polls, stops, restarts, kept>>
  BY DEF StartAgain
<1>2. /\ call' \in [Callers -> CallType] /\ call'["poll"] = call["poll"]
      /\ \/ call' = call
         \/ loading /\ call'["load"].todo = {}
  <2>1. CASE loading
    <3>1. call' = [call EXCEPT !["load"] = Free("idle")]
      BY <2>1 DEF StartAgain
    <3> QED BY <2>1, <3>1, FreeFacts DEF SyncTypeOK, Callers
  <2>2. CASE ~loading
    <3>1. call' = call
      BY <2>2 DEF StartAgain
    <3> QED BY <3>1 DEF SyncTypeOK
  <2> QED BY <2>1, <2>2
<1>3. SyncTypeOK'
  BY <1>1, <1>2 DEF SyncTypeOK, masterVars
<1>4. KnownIsOpen' /\ (polls' => running')
  BY <1>1 DEF KnownIsOpen
<1>5. OneHandler'
  BY <1>1, <1>2 DEF OneHandler
<1>6. \A d \in Callers : call'[d].todo \subseteq Listable
  BY <1>2 DEF Callers
<1> QED BY <1>1, <1>3, <1>4, <1>5, <1>6 DEF masterVars

LEMMA RestartKeeps == ASSUME SyncInv, NEW load \in BOOLEAN, Restart(load) PROVE SyncInv'
<1> USE DEF SyncInv
<1>1. /\ restarts' = restarts + 1 /\ restarts < MaxRestarts /\ loading' = load
      /\ running' = TRUE /\ polls' = TRUE /\ known' = {} /\ kept' = {}
      /\ table' = [x \in Prefixes |-> IF x \in disk THEN "open" ELSE "absent"]
      /\ UNCHANGED <<masterVars, disk, stops>>
  BY DEF Restart
<1>2. /\ call' \in [Callers -> CallType]
      /\ \A c \in Callers : call'[c].todo = {} /\ call'[c].pc \in {"idle", "over"}
      /\ ~load => call'["load"].pc = "over"
  BY FreeFacts DEF Restart, Callers
<1>3. restarts' \in 0..MaxRestarts
  BY <1>1 DEF SyncTypeOK
<1>4. SyncTypeOK'
  BY <1>1, <1>2, <1>3 DEF SyncTypeOK, masterVars
<1>5. KnownIsOpen' /\ (polls' => running')
  BY <1>1 DEF KnownIsOpen
<1>6. OneHandler'
  BY <1>1, <1>2 DEF OneHandler, Callers
<1> QED BY <1>1, <1>2, <1>4, <1>5, <1>6 DEF masterVars

LEMMA NextKeeps == ASSUME SyncInv, [NextSync]_syncVars PROVE SyncInv'
<1>1. ASSUME NEW c \in Callers, Handler(c) PROVE SyncInv'
  BY <1>1, HandleKeeps, OpenKeeps, ForgetKeeps, DetachKeeps DEF Handler
<1>2. CASE UNCHANGED syncVars
  BY <1>2 DEF syncVars, masterVars, instance, SyncInv, SyncTypeOK, KnownIsOpen, OneHandler
<1> QED BY <1>1, <1>2, MasterKeeps, LocalOpenKeeps, AskKeeps, StopKeeps, StartAgainKeeps, RestartKeeps
        DEF NextSync

THEOREM SyncInvariance == SpecSync => []SyncInv
<1> QED BY SyncStart, NextKeeps, PTL DEF SpecSync

\* A stopped instance holds no database, what is open is on disk, and a prefix seen
\* listed is in the table until it is forgotten (multidb.cpp,
\* get_all_prefixes_generator_, prefix_, stop).
THEOREM KnownStaysOpen == SpecSync => []KnownIsOpen
<1>1. SyncInv => KnownIsOpen
  BY DEF SyncInv
<1> QED BY <1>1, SyncInvariance, PTL

\* While one handler runs at a time, no prefix is detached that the master has had open
\* ever since it was opened here (multidb.cpp, get_all_prefixes_generator_).
THEOREM OpenPrefixIsNotDetached == SpecSync => DetachedWasClosed
<1> DEFINE Deserved ==
      \A x \in Prefixes :
        restarts' = restarts /\ x \in disk \ disk' => loading \/ x \notin kept
<1>1. SyncInv /\ [NextSync]_syncVars => [Deserved]_syncVars
  <2> SUFFICES ASSUME SyncInv, NextSync, NEW x \in Prefixes, x \in disk, x \notin disk', ~loading
               PROVE  x \notin kept
    BY DEF syncVars
  <2>1. PICK c \in Callers : Detach(c, x)
    <3>1. ASSUME NEW c \in Callers, NEW y \in Prefixes, Detach(c, y) PROVE x = y
      BY <3>1 DEF Detach
    <3>2. ASSUME NEW c \in Callers, Handler(c), ~\E y \in Prefixes : Detach(c, y) PROVE FALSE
      BY <3>2 DEF Handler, Handle, Forget, OpenListed
    <3> QED BY <3>1, <3>2 DEF NextSync, MasterOpen, MasterClose, LocalOpen, Ask, Reply, NoReply, StopInstance,
               StartAgain, Restart
  <2>2. call[c].pc = "detach" /\ x \in call[c].old
    BY <2>1 DEF Detach
  <2> QED BY <2>2, OnlyThePoll DEF SyncInv, OneHandler
<1> QED BY <1>1, SyncInvariance, PTL DEF SpecSync, DetachedWasClosed
=============================================================================
