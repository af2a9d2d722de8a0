------------------------------- MODULE Remote -------------------------------
(***************************************************************************)
(* A request made in another process, of the gateway, which writes it in   *)
(* JSON and sends it; the service reads it and makes it of the domain      *)
(* object, as a caller in the process would (Console, RequestCheck).  The  *)
(* answers go back the same way.  A request made without a callback is a   *)
(* notification, that nobody hears of again; the connection may be lost    *)
(* at any time, and then the callback is given null.                       *)
(***************************************************************************)
EXTENDS Console, Wire

CONSTANT MaxMade \* bound: members of a request that are not as they were, but for all of them

ASSUME MaxMadeAssumption == MaxMade \in Nat

VARIABLES
  remote, \* the request made of the gateway, or none
  served, \* its members as the service read them
  heard   \* what the callback was given

allVars == <<vars, typed, remote, served, heard>>

NotMade == [method |-> "none"]
Unread == [kind |-> "none", prefix |-> NoPrefix]

\* Members that are not as they were: a prefix, one field, an interval of the keys, a
\* limit of one.
RequestLimit == 10
FieldsOf(m) == IF "fields" \in m THEN <<[key |-> 2, value |-> 1]>> ELSE <<>>
PrefixOf(m) == IF "prefix" \in m THEN 1 ELSE NoPrefix

\* The request the service makes of the domain object.
Made(method, m, cb) ==
  IF method \in {"set", "setnx", "inc", "add", "packed", "del"} THEN
    [kind |-> IF method = "del" THEN "del" ELSE "set", cb |-> cb,
     prefix |-> PrefixOf(m), fields |-> FieldsOf(m)]
  ELSE IF method = "range" THEN
    [kind |-> "range", cb |-> cb, prefix |-> PrefixOf(m),
     from |-> IF "from" \in m THEN 2 ELSE Nothing, to |-> IF "to" \in m THEN 3 ELSE Nothing,
     beg |-> "beg" \notin m, offset |-> IF "offset" \in m THEN 1 ELSE 0,
     stat |-> "stat" \in m, limit |-> IF "limit" \in m THEN 1 ELSE RequestLimit]
  ELSE
    [kind |-> IF "prefix" \in m \/ (method \notin {"compact_prefix", "repair_json"}
                                    /\ "prefix" \in Api[method].request)
              THEN "one" ELSE "all",
     cb |-> cb, prefix |-> PrefixOf(m), op |-> method]

InitRemote ==
  \/ /\ InitConsole /\ remote = NotMade /\ served = {} /\ heard = <<>>
  \/ /\ \E method \in Methods :
          \E m \in {m \in SUBSET Api[method].request :
                      Cardinality(m) <= MaxMade \/ m = Api[method].request}, cb \in BOOLEAN :
            /\ remote = [method |-> method, made |-> m, cb |-> cb]
            /\ conf \in IF method = "range" THEN {[range |-> n] : n \in RangeLimits}
                                            ELSE {Config(l) : l \in Limits}
     /\ typed = NotTyped /\ asked = Unread /\ prefix = NoPrefix /\ pc = "wire"
     /\ writable \in BOOLEAN /\ opens \in BOOLEAN /\ suspended \in BOOLEAN
     /\ keys = Keys /\ same = {}
     /\ answers = <<>> /\ done = FALSE /\ res = NoPage
     /\ served = {} /\ heard = <<>>

\* prefixdb_interface calls with the tag of the method; the service invokes it.
Invoke ==
  /\ pc = "wire" /\ pc' = "gate"
  /\ served' = Carried(remote.method, remote.made)
  /\ asked' = Made(remote.method, served', remote.cb)
  /\ prefix' = asked'.prefix
  /\ UNCHANGED <<conf, suspended, writable, opens, keys, same, answers, done, res,
                 typed, remote, heard>>

\* The first answer is heard: that of another with the same number is not waited for.
Status(answer) == IF answer \in CommonStatusJson THEN answer ELSE "null"
Hear ==
  /\ remote # NotMade /\ remote.cb /\ heard = <<>> /\ answers # <<>>
  /\ heard' = <<[status |-> Status(Head(answers)),
                 members |-> Returned(remote.method, Api[remote.method].answer)]>>
  /\ UNCHANGED <<vars, typed, remote, served>>

\* The connection is lost, before the request is read or after.
Lose ==
  /\ remote # NotMade /\ remote.cb /\ heard = <<>>
  /\ heard' = <<[status |-> "null", members |-> {}]>>
  /\ UNCHANGED <<vars, typed, remote, served>>

NextRemote ==
  \/ NextConsole /\ UNCHANGED <<remote, served, heard>>
  \/ Invoke \/ Hear \/ Lose

SpecRemote == InitRemote /\ [][NextRemote]_allVars
-----------------------------------------------------------------------------
(* Properties. *)

\* What get.hpp:14, has.hpp:14 and inc.hpp:17 say is not carried, and packed with them.
NotCarried(method) == IF method \in {"get", "has", "inc", "packed"} THEN {"noval"} ELSE {}

\* A remote request is served as it was made, whichever members it has, so that its
\* page is of the keys and the checks are of the fields that the client named; what
\* is heard is the whole of the first answer the caller in the process would have had,
\* or null, after which the request may have been done or not: OK is heard of nothing
\* that was not done.
RemoteAsLocal ==
  remote # NotMade /\ pc # "wire" =>
    /\ served = remote.made \ NotCarried(remote.method)
    /\ \A i \in DOMAIN heard :
         heard[i].status # "null" =>
           /\ heard[i] = [status |-> Head(answers), members |-> Api[remote.method].answer]
           /\ heard[i].status = "OK" /\ asked.kind # "all" => done
=============================================================================
