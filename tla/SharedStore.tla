---------------------------- MODULE SharedStore ----------------------------
(***************************************************************************)
(* One index file under several Zoteus processes (sqlite-index.ts): every  *)
(* process keeps the meta row in memory, one of them at a time runs a      *)
(* build or an update under the lease in the file, and a process that      *)
(* writes puts back only the fields it changed itself.                     *)
(*                                                                         *)
(* What a job does to its rows in one process, and how its stamp and its   *)
(* checkpoint come about, is IndexJob's subject: here a job indexes what   *)
(* is left to index, item by item, and commits now and then.  The actions  *)
(* are the statements of the processes: SQLite lets one of them write at a *)
(* time, and what is not committed is seen by its writer alone.            *)
(***************************************************************************)
EXTENDS Naturals, FiniteSets

CONSTANTS
  Procs,      \* the processes that share the data directory
  Items,      \* the library's items
  MaxVersion, \* bound: the library's version
  MaxJobs,    \* bound: calls that ask for a job
  MaxFaults,  \* bound: crashes, failures and holds
  NoOne

SharedAssumption ==
  /\ NoOne \notin Procs
  /\ Items # {}
  /\ MaxVersion \in Nat \ {0}

VARIABLES
  host,    \* host[p]: the machine p runs on
  lib,     \* the version each item was last changed at; 0 before it exists
  file,    \* what is committed: rows, the meta row, the job lease
  proc,    \* the processes
  jobs,    \* leases taken so far, which number their tokens
  calls,   \* calls so far
  faults

vars == <<host, lib, file, proc, jobs, calls, faults>>

LibraryVersion == LET vs == {lib[i] : i \in Items} IN CHOOSE v \in vs : \A w \in vs : w <= v

\* The meta row: the version stamp, the version an interrupted build had begun
\* at, the durable hold.
Meta == [stamp : Nat, checkpoint : Nat, paused : BOOLEAN]
Fields == {"stamp", "checkpoint", "paused"}
EmptyMeta == [stamp |-> 0, checkpoint |-> 0, paused |-> FALSE]
NoRows == [i \in Items |-> 0]

\* The job lease: whose, its token, and whether its heartbeat is recent.
Lease == [holder : Procs \cup {NoOne}, token : Nat, fresh : BOOLEAN]
NoLease == [holder |-> NoOne, token |-> 0, fresh |-> FALSE]

Stages == {"down", "idle", "decided", "ready", "checked", "claimed", "working", "saved"}

\* A process: where its call stands, what it has in memory of the meta row and
\* the row it last read or wrote, whether another connection has committed
\* since, its open transaction, its lease, its job.
Proc == [at : Stages, wants : {"none", "update", "build"}, asked : {"none", "update", "build"},
         mem : Meta, baseline : Meta, rewrite : BOOLEAN, moved : BOOLEAN,
         open : BOOLEAN, rows : [Items -> Nat],
         born : Nat, token : Nat, version : Nat, todo : SUBSET Items, done : SUBSET Items]

SharedTypeOK ==
  /\ lib \in [Items -> 0..MaxVersion]
  /\ file.rows \in [Items -> Nat] /\ file.meta \in Meta /\ file.lease \in Lease
  /\ proc \in [Procs -> Proc]

Init ==
  /\ host \in [Procs -> {1, 2}]
  /\ lib = [i \in Items |-> 1]
  /\ file = [rows |-> NoRows, meta |-> EmptyMeta, lease |-> NoLease]
  /\ proc = [p \in Procs |-> [at |-> "idle", wants |-> "none", asked |-> "none",
                              mem |-> EmptyMeta, baseline |-> EmptyMeta, rewrite |-> FALSE,
                              moved |-> FALSE, open |-> FALSE, rows |-> NoRows,
                              born |-> 0, token |-> 0, version |-> 0, todo |-> {}, done |-> {}]]
  /\ jobs = 0
  /\ calls = 0
  /\ faults = 0

Fault == faults < MaxFaults /\ faults' = faults + 1
At(p, stage) == proc[p].at = stage

\* What p reads: its own transaction's rows, or what is committed.
Rows(p) == IF proc[p].open THEN proc[p].rows ELSE file.rows

-----------------------------------------------------------------------------
(* SQLite.                                                                 *)

\* p may write: no other process has a transaction open.
Writable(p) == \A q \in Procs \ {p} : ~proc[q].open

\* The other connections see that something was committed.
Noticed(p, me) ==
  [q \in Procs |-> IF q = p THEN me ELSE [proc[q] EXCEPT !.moved = TRUE]]

\* Seeded fault: the whole row is put back.
Merged_WholeRow(p, mem) == mem

\* writeMeta(): of the row, what p changed since it read it.
Merged(p, mem) ==
  [f \in Fields |-> IF proc[p].rewrite \/ mem[f] # proc[p].baseline[f]
                    THEN mem[f] ELSE file.meta[f]]

\* beatLease(): the heartbeat of a lease that is still p's.
Beaten(p) ==
  IF proc[p].token # 0 /\ file.lease.token = proc[p].token
  THEN [file.lease EXCEPT !.fresh = TRUE] ELSE file.lease

\* flush(): the meta row as it is in memory now, the heartbeat, the commit.
Flush(p, me) ==
  /\ Writable(p)
  /\ file' = [rows |-> Rows(p), meta |-> Merged(p, me.mem), lease |-> Beaten(p)]
  /\ proc' = Noticed(p, [me EXCEPT !.open = FALSE, !.rows = NoRows,
                                   !.baseline = me.mem, !.rewrite = FALSE])

\* loadMeta(): the row as the file has it.
Loaded(me) == [me EXCEPT !.mem = file.meta, !.baseline = file.meta, !.rewrite = FALSE, !.moved = FALSE]

\* refreshFromStore(), of a process without a job of its own.
Refreshed(p) == IF proc[p].moved THEN Loaded(proc[p]) ELSE proc[p]

-----------------------------------------------------------------------------
(* The lease.                                                              *)

\* Seeded fault: a process of another machine cannot be asked, and counts for
\* nothing.
Live_HereOnly(p, lease) ==
  /\ lease.holder # NoOne
  /\ host[lease.holder] = host[p]
  /\ proc[lease.holder].at # "down" /\ lease.token > proc[lease.holder].born

\* leaseIsLive(): a process of this machine is asked whether it runs, another
\* is judged by its heartbeat.
Live(p, lease) ==
  /\ lease.holder # NoOne
  /\ lease.fresh
  /\ host[lease.holder] = host[p] =>
       proc[lease.holder].at # "down" /\ lease.token > proc[lease.holder].born

Elsewhere(p) == Live(p, file.lease) /\ file.lease.token # proc[p].token

\* A heartbeat grows old, but not under a running job, which is taken to commit within the
\* margin, of 30 minutes or six hours.  An update on a slow API may not (sqlite-index.ts:272).
LeaseAges ==
  /\ file.lease.holder # NoOne /\ file.lease.fresh
  /\ proc[file.lease.holder].token # file.lease.token
  /\ file' = [file EXCEPT !.lease.fresh = FALSE]
  /\ UNCHANGED <<host, lib, proc, jobs, calls, faults>>

-----------------------------------------------------------------------------
(* A job: startIndexUpdate, startIndexBuild, beforeJob, the claim.         *)

\* updateBlocker(): what an update cannot start from.
Blocked(me) == me.mem.stamp = 0 \/ file.rows = NoRows

\* A call is refused at once while a job runs elsewhere.  An update that finds
\* nothing to start from becomes a build.
Decide(p, asked) ==
  /\ At(p, "idle")
  /\ calls < MaxJobs /\ calls' = calls + 1
  /\ ~proc[p].mem.paused
  /\ ~Elsewhere(p)
  /\ LET me == Refreshed(p) IN
     proc' = [proc EXCEPT ![p] =
                [me EXCEPT !.at = "decided", !.asked = asked,
                           !.wants = IF asked = "update" /\ ~Blocked(me) THEN "update" ELSE "build"]]
  /\ UNCHANGED <<host, lib, file, jobs, faults>>

BeforeJob(p) ==
  /\ At(p, "decided")
  /\ proc' = [proc EXCEPT ![p] = IF proc[p].mem.paused THEN [@ EXCEPT !.at = "idle"]
                                 ELSE [Refreshed(p) EXCEPT !.at = "ready"]]
  /\ UNCHANGED <<host, lib, file, jobs, calls, faults>>

\* The look without the lock.
Look(p) ==
  /\ At(p, "ready")
  /\ proc' = [proc EXCEPT ![p].at = IF Elsewhere(p) THEN "idle" ELSE "checked"]
  /\ UNCHANGED <<host, lib, file, jobs, calls, faults>>

\* Seeded fault: the lease is not read again under the lock.
Free_Looked(p) == TRUE

Free(p) == ~Elsewhere(p)

\* BEGIN IMMEDIATE, which waits its turn: the lease is read and taken in one.
Claim(p) ==
  /\ At(p, "checked")
  /\ Writable(p)
  /\ \/ /\ Free(p)
        /\ jobs' = jobs + 1
        /\ file' = [file EXCEPT !.lease = [holder |-> p, token |-> jobs', fresh |-> TRUE]]
        /\ proc' = Noticed(p, [proc[p] EXCEPT !.at = "claimed", !.token = jobs'])
     \/ /\ ~Free(p)
        /\ proc' = [proc EXCEPT ![p].at = "idle"]
        /\ UNCHANGED <<host, file, jobs>>
  /\ UNCHANGED <<host, lib, calls, faults>>

\* The wait for the lock has a limit.
ClaimTimesOut(p) ==
  /\ At(p, "checked")
  /\ ~Writable(p)
  /\ proc' = [proc EXCEPT ![p].at = "idle"]
  /\ UNCHANGED <<host, lib, file, jobs, calls, faults>>

Resumes(p) == proc[p].mem.checkpoint # 0 /\ file.rows # NoRows

\* The job begins: an update with what changed since the stamp, a build where
\* an interrupted one stopped, any other with an empty store.
Start(p) ==
  /\ At(p, "claimed") /\ ~proc[p].mem.paused
  /\ LET me == [proc[p] EXCEPT !.at = "working", !.done = {}] IN
     \/ /\ me.wants = "update"
        /\ proc' = [proc EXCEPT ![p] =
                      [me EXCEPT !.version = LibraryVersion,
                                 !.todo = {i \in Items : lib[i] > me.mem.stamp}]]
     \/ /\ me.wants = "build" /\ Resumes(p)
        /\ proc' = [proc EXCEPT ![p] =
                      [me EXCEPT !.version = me.mem.checkpoint,
                                 !.todo = {i \in Items : file.rows[i] = 0}]]
     \/ /\ me.wants = "build" /\ ~Resumes(p)
        /\ Writable(p)
        /\ proc' = [proc EXCEPT ![p] =
                      [me EXCEPT !.version = LibraryVersion, !.todo = Items,
                                 !.open = TRUE, !.rows = NoRows, !.rewrite = TRUE,
                                 !.mem = [@ EXCEPT !.stamp = 0, !.checkpoint = 0]]]
  /\ UNCHANGED <<host, lib, file, jobs, calls, faults>>

\* refuseIfPaused(), of a hold that the refresh before the claim has shown.
StartRefused(p) ==
  /\ At(p, "claimed") /\ proc[p].mem.paused
  /\ proc' = [proc EXCEPT ![p].at = "saved"]
  /\ UNCHANGED <<host, lib, file, jobs, calls, faults>>

IndexItem(p) ==
  /\ At(p, "working")
  /\ Writable(p)
  /\ \E i \in proc[p].todo :
       proc' = [proc EXCEPT ![p] =
                  [@ EXCEPT !.open = TRUE, !.rows = [Rows(p) EXCEPT ![i] = lib[i]],
                            !.todo = proc[p].todo \ {i}]]
  /\ UNCHANGED <<host, lib, file, jobs, calls, faults>>

\* A build commits as it goes, with its checkpoint.
Commit(p) ==
  /\ At(p, "working") /\ proc[p].wants = "build" /\ proc[p].open
  /\ Flush(p, [proc[p] EXCEPT !.mem.checkpoint = proc[p].version,
                              !.done = {i \in Items : proc[p].rows[i] # 0}])
  /\ UNCHANGED <<host, lib, jobs, calls, faults>>

\* The end: the stamp and the last rows are committed together.
Complete(p) ==
  /\ At(p, "working") /\ proc[p].todo = {}
  /\ Flush(p, [proc[p] EXCEPT !.at = "saved", !.done = {},
                              !.mem = [@ EXCEPT !.stamp = proc[p].version, !.checkpoint = 0]])
  /\ UNCHANGED <<host, lib, jobs, calls, faults>>

\* A build that fails or is stopped keeps what it wrote; an update's
\* transaction is rolled back and the row read again.
Fail(p) ==
  /\ At(p, "working")
  /\ Fault
  /\ \/ /\ proc[p].wants = "build"
        /\ Flush(p, [proc[p] EXCEPT !.at = "saved", !.done = {},
                                    !.mem.checkpoint = proc[p].version])
     \/ /\ proc[p].wants = "update"
        /\ proc' = [proc EXCEPT ![p] = [Loaded(@) EXCEPT !.at = "saved", !.done = {},
                                                         !.open = FALSE, !.rows = NoRows]]
        /\ UNCHANGED file
  /\ UNCHANGED <<host, lib, jobs, calls>>

Mine(p) == file.lease.token = proc[p].token

\* releaseJobLease(): a lease that is still p's is deleted, and what is open is
\* committed with that.
Released(p, me) ==
  /\ Writable(p)
  /\ file' = [file EXCEPT !.rows = Rows(p), !.lease = IF Mine(p) THEN NoLease ELSE @]
  /\ proc' = Noticed(p, [me EXCEPT !.token = 0, !.open = FALSE, !.rows = NoRows,
                                   !.wants = "none", !.asked = "none", !.todo = {}, !.version = 0])

Release(p) ==
  /\ At(p, "saved")
  /\ Released(p, [proc[p] EXCEPT !.at = "idle"])
  /\ UNCHANGED <<host, lib, jobs, calls, faults>>

\* A release that cannot write leaves its lease behind.
ReleaseFails(p) ==
  /\ At(p, "saved")
  /\ Fault
  /\ proc' = [proc EXCEPT ![p] = [@ EXCEPT !.at = "idle", !.token = 0, !.wants = "none", !.asked = "none",
                                           !.todo = {}, !.version = 0]]
  /\ UNCHANGED <<host, lib, file, jobs, calls>>

-----------------------------------------------------------------------------
(* Processes come and go, and hold the index.                              *)

\* persistPaused(), of a process without a job: the one flag.
SetPaused(p, hold) ==
  /\ At(p, "idle")
  /\ Fault
  /\ proc[p].mem.paused # hold
  /\ Writable(p)
  /\ file' = [file EXCEPT !.meta.paused = hold]
  /\ proc' = Noticed(p, [proc[p] EXCEPT !.mem.paused = hold, !.baseline.paused = hold])
  /\ UNCHANGED <<host, lib, jobs, calls>>

Crashed(me) == [Loaded(me) EXCEPT !.at = "down", !.wants = "none", !.asked = "none", !.open = FALSE, !.rows = NoRows,
                                  !.token = 0, !.version = 0, !.todo = {}, !.done = {}]

\* The process dies: its transaction is gone, its lease stays.
Crash(p) ==
  /\ ~At(p, "down")
  /\ Fault
  /\ proc' = [proc EXCEPT ![p] = Crashed(@)]
  /\ UNCHANGED <<host, lib, file, jobs, calls>>

\* close() of an idle process: its row is flushed.
Close(p) ==
  /\ At(p, "idle")
  /\ Flush(p, [proc[p] EXCEPT !.at = "down"])
  /\ UNCHANGED <<host, lib, jobs, calls, faults>>

Open(p) ==
  /\ At(p, "down")
  /\ proc' = [proc EXCEPT ![p] = [Loaded(@) EXCEPT !.at = "idle", !.born = jobs]]
  /\ UNCHANGED <<host, lib, file, jobs, calls, faults>>

\* Another client changes an item.
Modify(i) ==
  /\ LibraryVersion < MaxVersion
  /\ lib' = [lib EXCEPT ![i] = LibraryVersion + 1]
  /\ UNCHANGED <<host, file, proc, jobs, calls, faults>>

JobStep(p) ==
  \/ BeforeJob(p) \/ Look(p) \/ Claim(p) \/ ClaimTimesOut(p)
  \/ Start(p) \/ StartRefused(p) \/ IndexItem(p) \/ Commit(p) \/ Complete(p) \/ Fail(p)
  \/ Release(p) \/ ReleaseFails(p)

Next ==
  \/ LeaseAges
  \/ \E i \in Items : Modify(i)
  \/ \E p \in Procs :
       \/ \E asked \in {"update", "build"} : Decide(p, asked)
       \/ JobStep(p)
       \/ \E hold \in BOOLEAN : SetPaused(p, hold)
       \/ Crash(p) \/ Close(p) \/ Open(p)

Spec == Init /\ [][Next]_vars

-----------------------------------------------------------------------------

\* Of all the processes one at most runs a job, whichever looked, waited for
\* the lock, died or came back when (sqlite-index.ts:2344).
OneJob ==
  \A p, q \in Procs : At(p, "working") /\ At(q, "working") => p = q

\* What a running build has committed stays in the file: nobody empties the
\* store under it (index-manager.ts:664).
CommittedStays ==
  \A p \in Procs : At(p, "working") => \A i \in proc[p].done : file.rows[i] # 0

\* A job has the store to itself.
JobAlone == SharedTypeOK /\ OneJob /\ CommittedStays

\* The stamp and the checkpoint in the file change at the hand of the process
\* that runs the job: one that comes, goes or sits idle never puts back what it
\* remembers of them (sqlite-index.ts:1319).
StampKept ==
  [][\/ file'.meta.stamp # file.meta.stamp
     \/ file'.meta.checkpoint # file.meta.checkpoint
     => \E p \in Procs : /\ At(p, "working") /\ proc[p].token = file.lease.token
                         /\ (proc[p].rewrite \/ proc'[p].baseline # proc[p].baseline)]_vars
=============================================================================
