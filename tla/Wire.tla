-------------------------------- MODULE Wire --------------------------------
(***************************************************************************)
(* What a request and its answer are made of (api/X.hpp, here XApi), and   *)
(* what of it is carried in JSON (api/X_json.hpp, here XJson), for each    *)
(* method of iprefixdb.  A member is a name; the JSON of inc, add and      *)
(* packed writes `fields` as "update", that of range and repair_json       *)
(* writes `fin` as "final".                                                *)
(*                                                                         *)
(* A request is given by the members that differ from what the structure   *)
(* has of itself: what the JSON leaves out is that again on the far side,  *)
(* so that to carry a request is to take a part of that set.               *)
(***************************************************************************)

(***************************************************************************)
(* A definition named Op_Word is the form Op would have after a plausible  *)
(* mistake; nothing uses it but the check that a property would notice.    *)
(***************************************************************************)

Written  == {"prefix", "fields", "sync", "nores", "noval", "snapshot"}
Read     == {"prefix", "fields", "noval", "snapshot"}
Values   == [status |-> {"status"}, fields |-> {"status", "prefix", "fields"}]

SetApi    == [request |-> Written, answer |-> Values.fields]
SetnxApi  == [request |-> Written, answer |-> Values.fields]
DelApi    == [request |-> Written, answer |-> Values.fields]
IncApi    == [request |-> Written, answer |-> Values.fields]
AddApi    == [request |-> Written, answer |-> Values.fields]
PackedApi == [request |-> Written, answer |-> Values.fields]
GetApi    == [request |-> Read, answer |-> Values.fields]
HasApi    == [request |-> Read, answer |-> Values.fields]

SetJson    == [request |-> Written, answer |-> Values.fields]
SetnxJson  == [request |-> Written, answer |-> Values.fields]
DelJson    == [request |-> Written, answer |-> Values.fields]
IncJson    == [request |-> Written \ {"noval"}, answer |-> Values.fields]
AddJson    == [request |-> Written, answer |-> Values.fields]
PackedJson == [request |-> Written \ {"noval"}, answer |-> Values.fields]
GetJson    == [request |-> Read \ {"noval"}, answer |-> Values.fields]
HasJson    == [request |-> Read \ {"noval"}, answer |-> Values.fields]

Interval == {"prefix", "nores", "noval", "snapshot", "from", "to", "beg", "offset", "limit"}
Page     == {"status", "prefix", "fields", "fin"}

RangeApi == [request |-> Interval \cup {"stat", "repair_json"}, answer |-> Page \cup {"stat"}]
RepairApi ==
  [request |-> Interval \cup {"sync"}, answer |-> Page \cup {"total", "repaired", "last_key"}]

RangeJson_NoBeg == [request |-> (Interval \ {"beg"}) \cup {"stat", "repair_json"},
                    answer |-> Page \cup {"stat"}]
RangeJson == [request |-> Interval \cup {"stat", "repair_json"}, answer |-> Page \cup {"stat"}]
RepairJson ==
  [request |-> Interval \cup {"sync"}, answer |-> Page \cup {"total", "repaired", "last_key"}]

GetUpdatesSinceApi ==
  [request |-> {"prefix", "seq", "limit"},
   answer |-> {"status", "prefix", "seq_first", "seq_last", "seq_final", "logs"}]
GetUpdatesSinceJson ==
  [request |-> {"prefix", "seq", "limit"},
   answer |-> {"status", "prefix", "seq_first", "seq_last", "seq_final", "logs"}]

GetAllPrefixesApi  == [request |-> {"writable_only"}, answer |-> {"status", "prefixes"}]
GetAllPrefixesJson == [request |-> {"writable_only"}, answer |-> {"status", "prefixes"}]

CreateSnapshotApi ==
  [request |-> {"prefix", "release_timeout_s"},
   answer |-> {"status", "prefix", "snapshot", "last_seq"}]
CreateSnapshotJson ==
  [request |-> {"prefix", "release_timeout_s"},
   answer |-> {"status", "prefix", "snapshot", "last_seq"}]
ReleaseSnapshotApi  == [request |-> {"prefix", "snapshot"}, answer |-> {"status", "prefix"}]
ReleaseSnapshotJson == [request |-> {"prefix", "snapshot"}, answer |-> {"status", "prefix"}]
CompactPrefixApi    == [request |-> {"prefix", "from", "to"}, answer |-> {"status", "prefix"}]
CompactPrefixJson   == [request |-> {"prefix", "from", "to"}, answer |-> {"status", "prefix"}]

DetachPrefixesApi  == [request |-> {"prefixes", "deny_timeout_s"}, answer |-> Values.status]
DetachPrefixesJson == [request |-> {"prefixes", "deny_timeout_s"}, answer |-> Values.status]
AttachPrefixesApi  == [request |-> {"prefixes", "opendb"}, answer |-> Values.status]
AttachPrefixesJson == [request |-> {"prefixes", "opendb"}, answer |-> Values.status]
DelayBackgroundApi ==
  [request |-> {"prefixes", "delay_timeout_s", "contunue_force"}, answer |-> Values.status]
DelayBackgroundJson ==
  [request |-> {"prefixes", "delay_timeout_s", "contunue_force"}, answer |-> Values.status]
ContinueBackgroundApi  == [request |-> {"prefixes", "force"}, answer |-> Values.status]
ContinueBackgroundJson == [request |-> {"prefixes", "force"}, answer |-> Values.status]

\* The methods of iprefixdb, and of each what a caller in the process gives and gets.
Api ==
  [set |-> SetApi, setnx |-> SetnxApi, del |-> DelApi, inc |-> IncApi, add |-> AddApi,
   packed |-> PackedApi, get |-> GetApi, has |-> HasApi, range |-> RangeApi,
   repair_json |-> RepairApi, get_updates_since |-> GetUpdatesSinceApi,
   get_all_prefixes |-> GetAllPrefixesApi, create_snapshot |-> CreateSnapshotApi,
   release_snapshot |-> ReleaseSnapshotApi, compact_prefix |-> CompactPrefixApi,
   detach_prefixes |-> DetachPrefixesApi, attach_prefixes |-> AttachPrefixesApi,
   delay_background |-> DelayBackgroundApi, continue_background |-> ContinueBackgroundApi]

\* method_list of the gateway, that calls, and of the service, that invokes: what each
\* writes or reads of the JSON.
Calls ==
  [set |-> SetJson, setnx |-> SetnxJson, del |-> DelJson, inc |-> IncJson, add |-> AddJson,
   packed |-> PackedJson, get |-> GetJson, has |-> HasJson, range |-> RangeJson,
   repair_json |-> RepairJson, get_updates_since |-> GetUpdatesSinceJson,
   get_all_prefixes |-> GetAllPrefixesJson, create_snapshot |-> CreateSnapshotJson,
   release_snapshot |-> ReleaseSnapshotJson, compact_prefix |-> CompactPrefixJson,
   detach_prefixes |-> DetachPrefixesJson, attach_prefixes |-> AttachPrefixesJson,
   delay_background |-> DelayBackgroundJson, continue_background |-> ContinueBackgroundJson]

Invokes ==
  [set |-> SetJson, setnx |-> SetnxJson, del |-> DelJson, inc |-> IncJson, add |-> AddJson,
   packed |-> PackedJson, get |-> GetJson, has |-> HasJson, range |-> RangeJson,
   repair_json |-> RepairJson, get_updates_since |-> GetUpdatesSinceJson,
   get_all_prefixes |-> GetAllPrefixesJson, create_snapshot |-> CreateSnapshotJson,
   release_snapshot |-> ReleaseSnapshotJson, compact_prefix |-> CompactPrefixJson,
   detach_prefixes |-> DetachPrefixesJson, attach_prefixes |-> AttachPrefixesJson,
   delay_background |-> DelayBackgroundJson, continue_background |-> ContinueBackgroundJson]

Methods == DOMAIN Api

\* common_status has a name in the JSON for each of its values.
CommonStatus ==
  {"OK", "IOError", "InvalidFieldValue", "EmptyFields", "EmptyPrefix", "PrefixReadonly",
   "CreatePrefixFail", "CreateSnapshotFail", "CompactFail", "PrefixNotFound",
   "SnapshotNotFound", "TooManyKeys", "KeyLengthExceeded", "ValueLengthExceeded",
   "PrefixLengthExceeded", "RangeLimitExceeded", "InvalidSeqNumber"}
CommonStatusJson == CommonStatus

\* A request made, as it is served; an answer given, as it is heard.
Carried(method, made) == made \cap Calls[method].request \cap Invokes[method].request
Returned(method, given) == given \cap Invokes[method].answer \cap Calls[method].answer
=============================================================================
