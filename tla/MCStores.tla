------------------------------ MODULE MCStores ------------------------------
(***************************************************************************)
(* What stands between the search and its files: the registry of open      *)
(* indexes, a SQLite file that several processes share, the opening and    *)
(* repair of one, and the JSON file of a runtime without SQLite; and       *)
(* beside them in the data directory the usage log. They share no state,   *)
(* since each looks at the others' files as given, so a behaviour          *)
(* exercises one of them and the others stay as they start.                *)
(***************************************************************************)
EXTENDS SharedStore, JsonStore

CONSTANTS
  None,
  Libraries, Primary, Callers, MaxOpen, MaxHandles, RepairsOverlap,
  Embedders, Keys, Texts, Interrupted, MaxDbs, MaxOpens, MaxMishaps,
  DayLength, RetentionDays, MaxRows, FlushEvery, MaxNow, MaxEvents

VARIABLES
  part,  \* the component this behaviour exercises
  files, opened, entries, order, inflight, leases, call, shut, repairs,
  db, path, aside, json, text, server, deleted, opens, mishaps,
  now, log, rows, daily, readable, made, counted, pruned, losses

Registry == INSTANCE IndexRegistry WITH file <- files, handle <- opened, faults <- repairs
Opening == INSTANCE StoreOpening WITH Libraries <- Libraries \ {Primary}, faults <- mishaps,
                                      MaxFaults <- MaxMishaps
Usage == INSTANCE UsageLog WITH mishaps <- losses, MaxMishaps <- MaxFaults

ASSUME StoresAssumption ==
  Registry!RegistryAssumption /\ SharedAssumption /\ Opening!OpeningAssumption /\ Usage!UsageAssumption

registryVars == <<files, opened, entries, order, inflight, leases, call, shut, repairs>>
openingVars == <<db, path, aside, json, text, server, deleted, opens, mishaps>>
usageVars == <<now, log, rows, daily, readable, made, counted, pruned, losses>>
storesVars == <<part, registryVars, vars, openingVars, jsonVars, usageVars>>

StoresInit ==
  /\ part \in {"registry", "shared", "opening", "json", "usage"}
  /\ Registry!Init /\ (part # "registry" => \A l \in Libraries : files[l] = "sound")
  /\ Init /\ (part # "shared" => \A p \in Procs : host[p] = 1)
  /\ Opening!Init /\ (part # "opening" => json = None /\ path.main = None)
  /\ JsonInit /\ (part # "json" => jsonFile.readable)
  /\ Usage!UsageInit

StoresNext ==
  \/ /\ part = "registry" /\ Registry!Next
     /\ UNCHANGED <<part, vars, openingVars, jsonVars, usageVars>>
  \/ /\ part = "shared" /\ Next
     /\ UNCHANGED <<part, registryVars, openingVars, jsonVars, usageVars>>
  \/ /\ part = "opening" /\ Opening!Next
     /\ UNCHANGED <<part, registryVars, vars, jsonVars, usageVars>>
  \/ /\ part = "json" /\ JsonNext
     /\ UNCHANGED <<part, registryVars, vars, openingVars, usageVars>>
  \/ /\ part = "usage" /\ Usage!UsageNext
     /\ UNCHANGED <<part, registryVars, vars, openingVars, jsonVars>>

StoresSpec == StoresInit /\ [][StoresNext]_storesVars

\* No index in use is closed, nor is the file deleted that a build writes to; every open
\* index can be found and closed, and every call that waits for an opening waits for one
\* that is under way (index-registry.ts: "Two entries are never closed to make room"; repair.ts).
InUseKept == Registry!InUseKept /\ Registry!NothingLost

\* No database meets another one's log, no usable one is deleted, and every vector fits the
\* text beside it; no event of the usage log is dropped before a rollup has counted it
\* (sqlite-index.ts:868, :745, :1022, lib/usage/store.ts:213, :287).
PathsSafe == Opening!PathsSafe /\ Usage!CountedBeforePruned
=============================================================================
