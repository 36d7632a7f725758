----------------------------- MODULE StoreProofs -----------------------------
(***************************************************************************)
(* The two files an index can be in: the SQLite file that any number of    *)
(* processes share, and the JSON file of a runtime without SQLite.         *)
(*                                                                         *)
(* The shared file.  A job has the store to itself, and the stamp changes  *)
(* at its hand alone.  A process is given the job with a lease that names  *)
(* it, under a number no other lease has borne and that its process was    *)
(* started before.  While it runs, beats and commits, whoever else reads   *)
(* that lease finds it live, so of all the processes the one the file's    *)
(* lease names is the only one that owns a job, the only one with an open  *)
(* transaction, and the only one whose meta row differs from the one it    *)
(* read.                                                                   *)
(*                                                                         *)
(* The JSON file ends up with the last state its last writer was asked to  *)
(* write, and with the hold that writer is under.  A handle's invariant    *)
(* follows a snapshot through its queue.  What was asked for last is at    *)
(* the queue's end, or is what the file was last left with; and while a    *)
(* hold is being set or lifted, the write that does it is the last of the  *)
(* queue, because every save waits for it.                                 *)
(***************************************************************************)
EXTENDS SharedStore, JsonStore, SequenceTheorems, WellFoundedInduction, TLAPS

-----------------------------------------------------------------------------
(* The file that processes share.                                          *)

\* p has taken the lease and not given it back.
Owns(s) == s.at \in {"claimed", "working", "saved"}

\* What holds of process p in state s, with the file f and n leases taken.
ProcOK(p, s, f, n) ==
  /\ Owns(s) => /\ f.lease.holder = p /\ f.lease.token = s.token /\ f.lease.fresh
                /\ s.born < s.token /\ s.token <= n
  /\ ~Owns(s) => s.token = 0
  /\ s.born <= n
  /\ s.at # "working" => ~s.open /\ ~s.rewrite /\ s.mem = s.baseline
  /\ s.at = "working" => \A i \in s.done : f.rows[i] # 0

FileTypes ==
  /\ lib \in [Items -> 0..MaxVersion]
  /\ file \in [rows : [Items -> Nat], meta : Meta, lease : Lease]
  /\ file.lease.token <= jobs
  /\ jobs \in Nat

SharedInv ==
  /\ FileTypes
  /\ proc \in [Procs -> Proc]
  /\ \A p \in Procs : ProcOK(p, proc[p], file, jobs)

-----------------------------------------------------------------------------

\* The library's version is a number: the latest of the items' versions.
LEMMA LibraryVersionType ==
  ASSUME SharedAssumption, FileTypes
  PROVE  LibraryVersion \in 0..MaxVersion
<1> DEFINE vs == {lib[i] : i \in Items}
           T == {MaxVersion - v : v \in vs}
<1>1. vs # {} /\ vs \subseteq 0..MaxVersion /\ MaxVersion \in Nat
  BY DEF SharedAssumption, FileTypes
<1> HIDE DEF vs
<1>2. T # {} /\ T \subseteq Nat
  <2>1. \A v \in vs : MaxVersion - v \in Nat
    BY <1>1
  <2> QED BY <1>1, <2>1
<1>3. PICK x \in T : \A y \in T : ~(<<y, x>> \in OpToRel(<, Nat))
  BY <1>2, NatLessThanWellFounded, WFMin
<1>4. \A y \in T : ~(y < x)
  BY <1>2, <1>3 DEF OpToRel
<1>5. PICK v \in vs : x = MaxVersion - v
  BY <1>3
<1>6. \A w \in vs : w <= v
  BY <1>1, <1>4, <1>5
<1> QED BY <1>1, <1>6 DEF LibraryVersion, vs

LEMMA MergedIsMeta ==
  ASSUME NEW p \in Procs, NEW mem \in Meta, FileTypes
  PROVE  Merged(p, mem) \in Meta
BY DEF Merged, Meta, Fields, FileTypes

LEMMA InitSharedInv ==
  ASSUME SharedAssumption, Init
  PROVE  SharedInv
<1>1. EmptyMeta \in Meta /\ NoRows \in [Items -> Nat] /\ NoLease \in Lease
  BY DEF EmptyMeta, Meta, NoRows, NoLease, Lease
<1>2. FileTypes
  BY <1>1 DEF Init, FileTypes, SharedAssumption, NoLease
<1>3. proc \in [Procs -> Proc]
  BY <1>1 DEF Init, Proc, Stages
<1>4. \A p \in Procs : ProcOK(p, proc[p], file, jobs)
  BY DEF Init, ProcOK, Owns
<1> QED BY <1>2, <1>3, <1>4 DEF SharedInv

\* A step of p that commits nothing.
LEMMA Alone ==
  ASSUME SharedInv, NEW p \in Procs, NEW s \in Proc,
         proc' = [proc EXCEPT ![p] = s], UNCHANGED <<lib, file, jobs>>,
         ProcOK(p, s, file, jobs)
  PROVE  SharedInv'
BY DEF SharedInv, FileTypes

\* A commit of p: what the others own and have committed is left alone.
LEMMA Committing ==
  ASSUME SharedInv, NEW p \in Procs, NEW s \in Proc, UNCHANGED lib,
         proc' = Noticed(p, s), FileTypes', jobs <= jobs',
         ProcOK(p, s, file', jobs'),
         \A q \in Procs \ {p} : Owns(proc[q]) => file'.lease = file.lease /\ file'.rows = file.rows
  PROVE  SharedInv'
<1>1. \A q \in Procs : proc'[q] = IF q = p THEN s ELSE [proc[q] EXCEPT !.moved = TRUE]
  BY DEF Noticed
<1>2. proc' \in [Procs -> Proc]
  BY DEF Noticed, SharedInv, Proc
<1>3. ASSUME NEW q \in Procs \ {p} PROVE ProcOK(q, proc'[q], file', jobs')
  <2>1. ProcOK(q, proc[q], file, jobs) /\ proc[q] \in Proc
    BY DEF SharedInv
  <2> DEFINE o == proc[q]
  <2> SUFFICES ASSUME NEW z, z = [o EXCEPT !.moved = TRUE] PROVE ProcOK(q, z, file', jobs')
    BY <1>1
  <2>2. /\ z.at = o.at /\ z.token = o.token /\ z.born = o.born /\ z.open = o.open
        /\ z.rewrite = o.rewrite /\ z.mem = o.mem /\ z.baseline = o.baseline /\ z.done = o.done
    BY <2>1 DEF Proc
  <2>3. o.born \in Nat /\ o.token \in Nat /\ jobs \in Nat /\ jobs' \in Nat
    BY <2>1 DEF Proc, FileTypes, SharedInv
  <2>4. Owns(o) => file'.lease = file.lease /\ file'.rows = file.rows
    OBVIOUS
  <2> HIDE DEF o
  <2>5. ProcOK(q, o, file, jobs)
    BY <2>1 DEF o
  <2> QED BY <2>2, <2>3, <2>4, <2>5 DEF ProcOK, Owns
<1> QED BY <1>1, <1>2, <1>3 DEF SharedInv

\* Who owns a job is named by the lease; nobody else does, or has one open.
LEMMA OneOwner ==
  ASSUME SharedInv, NEW p \in Procs, Owns(proc[p])
  PROVE  \A q \in Procs \ {p} : ~Owns(proc[q]) /\ ~proc[q].open
<1>1. \A q \in Procs : Owns(proc[q]) => file.lease.holder = q
  BY DEF SharedInv, ProcOK
<1>2. \A q \in Procs : proc[q].open => Owns(proc[q])
  BY DEF SharedInv, ProcOK, Owns
<1> QED BY <1>1, <1>2

\* What a process commits besides the meta row: its own rows, if it has any.
LEMMA RowsType ==
  ASSUME SharedInv, NEW p \in Procs
  PROVE  /\ Rows(p) \in [Items -> Nat]
         /\ ~Owns(proc[p]) => Rows(p) = file.rows
BY DEF SharedInv, ProcOK, Owns, Rows, FileTypes, Proc

-----------------------------------------------------------------------------
(* The steps that commit nothing.                                          *)

LEMMA LoadedType ==
  ASSUME SharedInv, NEW s \in Proc
  PROVE  /\ Loaded(s) \in Proc
         /\ Loaded(s).mem = Loaded(s).baseline /\ ~Loaded(s).rewrite
         /\ Loaded(s).at = s.at /\ Loaded(s).token = s.token /\ Loaded(s).born = s.born
         /\ Loaded(s).open = s.open /\ Loaded(s).done = s.done
BY DEF Loaded, Proc, SharedInv, FileTypes

LEMMA RefreshedOK ==
  ASSUME SharedInv, NEW p \in Procs, ~Owns(proc[p])
  PROVE  /\ Refreshed(p) \in Proc /\ ProcOK(p, Refreshed(p), file, jobs)
         /\ ~Owns(Refreshed(p))
<1>1. proc[p] \in Proc /\ ProcOK(p, proc[p], file, jobs)
  BY DEF SharedInv
<1>2. CASE proc[p].moved
  BY <1>1, <1>2, LoadedType DEF Refreshed, ProcOK, Owns
<1>3. CASE ~proc[p].moved
  BY <1>1, <1>3 DEF Refreshed
<1> QED BY <1>2, <1>3

\* A process that owns no job goes on to another stage.
LEMMA Quiet ==
  ASSUME SharedInv, NEW p \in Procs, ~Owns(proc[p]),
         NEW s \in {proc[p], Refreshed(p)}, NEW at \in Stages \ {"claimed", "working", "saved"},
         NEW asked \in {"none", "update", "build"}, NEW wants \in {"none", "update", "build"},
         UNCHANGED <<lib, file, jobs>>,
         \/ proc' = [proc EXCEPT ![p] = [s EXCEPT !.at = at]]
         \/ proc' = [proc EXCEPT ![p] = [s EXCEPT !.at = at, !.asked = asked, !.wants = wants]]
  PROVE  SharedInv'
<1>1. s \in Proc /\ ProcOK(p, s, file, jobs) /\ ~Owns(s)
  BY RefreshedOK DEF SharedInv
<1>2. PICK z : /\ z \in {[s EXCEPT !.at = at], [s EXCEPT !.at = at, !.asked = asked, !.wants = wants]}
               /\ proc' = [proc EXCEPT ![p] = z]
  OBVIOUS
<1>3. /\ z.at = at /\ z.token = s.token /\ z.born = s.born /\ z.open = s.open
      /\ z.rewrite = s.rewrite /\ z.mem = s.mem /\ z.baseline = s.baseline /\ z \in Proc
  BY <1>1, <1>2 DEF Proc
<1>4. ProcOK(p, z, file, jobs)
  BY <1>1, <1>3 DEF ProcOK, Owns
<1> QED BY <1>2, <1>3, <1>4, Alone

\* A call is decided, waits its turn and looks for another job.
LEMMA CallSteps ==
  ASSUME SharedInv, NEW p \in Procs,
         \/ \E asked \in {"update", "build"} : Decide(p, asked)
         \/ BeforeJob(p) \/ Look(p) \/ ClaimTimesOut(p)
  PROVE  SharedInv'
<1>1. ~Owns(proc[p]) /\ UNCHANGED <<lib, file, jobs>>
  BY DEF Decide, BeforeJob, Look, ClaimTimesOut, At, Owns
<1>2. ASSUME NEW asked \in {"update", "build"}, Decide(p, asked) PROVE SharedInv'
  <2>1. PICK wants \in {"none", "update", "build"} :
          proc' = [proc EXCEPT ![p] = [Refreshed(p) EXCEPT !.at = "decided", !.asked = asked, !.wants = wants]]
    BY <1>2 DEF Decide
  <2> QED BY <1>1, <2>1, Quiet DEF Stages
<1>3. CASE BeforeJob(p)
  <2>1. CASE proc[p].mem.paused
    BY <1>1, <1>3, <2>1, Quiet DEF BeforeJob, Stages
  <2>2. CASE ~proc[p].mem.paused
    BY <1>1, <1>3, <2>2, Quiet DEF BeforeJob, Stages
  <2> QED BY <2>1, <2>2
<1>4. CASE Look(p)
  <2>1. PICK at \in {"idle", "checked"} : proc' = [proc EXCEPT ![p] = [proc[p] EXCEPT !.at = at]]
    BY <1>4 DEF Look
  <2> QED BY <1>1, <2>1, Quiet DEF Stages
<1>5. CASE ClaimTimesOut(p)
  BY <1>1, <1>5, Quiet DEF ClaimTimesOut, Stages
<1> QED BY <1>2, <1>3, <1>4, <1>5

\* The job begins, with the rows it finds or with none.
LEMMA StartStep ==
  ASSUME SharedAssumption, SharedInv, NEW p \in Procs, Start(p)
  PROVE  SharedInv'
<1> SUFFICES ASSUME NEW s, s = proc[p] PROVE SharedInv'
  OBVIOUS
<1>1. s \in Proc /\ ProcOK(p, s, file, jobs) /\ s.at = "claimed" /\ UNCHANGED <<lib, file, jobs>>
  BY DEF SharedInv, Start, At
<1>2. LibraryVersion \in Nat /\ s.mem \in Meta /\ NoRows \in [Items -> Nat]
  BY <1>1, LibraryVersionType DEF SharedInv, FileTypes, SharedAssumption, Proc, NoRows
<1>3. ASSUME NEW z \in Proc, z.at = "working", z.done = {}, z.token = s.token, z.born = s.born,
             proc' = [proc EXCEPT ![p] = z]
      PROVE  SharedInv'
  <2>1. ProcOK(p, z, file, jobs)
    BY <1>1, <1>3 DEF ProcOK, Owns
  <2> QED BY <1>1, <1>3, <2>1, Alone
<1> DEFINE me == [s EXCEPT !.at = "working", !.done = {}]
<1>4. /\ me \in Proc /\ me.at = "working" /\ me.done = {} /\ me.token = s.token /\ me.born = s.born
      /\ me.wants = s.wants /\ me.mem = s.mem
  BY <1>1 DEF Proc, Stages
<1>5. \/ proc' = [proc EXCEPT ![p] = [me EXCEPT !.version = LibraryVersion,
                                                !.todo = {i \in Items : lib[i] > me.mem.stamp}]]
      \/ proc' = [proc EXCEPT ![p] = [me EXCEPT !.version = me.mem.checkpoint,
                                                !.todo = {i \in Items : file.rows[i] = 0}]]
      \/ proc' = [proc EXCEPT ![p] = [me EXCEPT !.version = LibraryVersion, !.todo = Items,
                                                !.open = TRUE, !.rows = NoRows, !.rewrite = TRUE,
                                                !.mem = [me.mem EXCEPT !.stamp = 0, !.checkpoint = 0]]]
  BY DEF Start
<1> HIDE DEF me
<1>6. ASSUME NEW v \in Nat, NEW c \in SUBSET Items,
             proc' = [proc EXCEPT ![p] = [me EXCEPT !.version = v, !.todo = c]]
      PROVE  SharedInv'
  <2>1. [me EXCEPT !.version = v, !.todo = c] \in Proc
    BY <1>4 DEF Proc
  <2> QED BY <1>3, <1>4, <1>6, <2>1 DEF Proc
<1>7. CASE proc' = [proc EXCEPT ![p] = [me EXCEPT !.version = LibraryVersion,
                                                  !.todo = {i \in Items : lib[i] > me.mem.stamp}]]
  BY <1>2, <1>6, <1>7
<1>8. CASE proc' = [proc EXCEPT ![p] = [me EXCEPT !.version = me.mem.checkpoint,
                                                  !.todo = {i \in Items : file.rows[i] = 0}]]
  <2>1. me.mem.checkpoint \in Nat
    BY <1>2, <1>4 DEF Meta
  <2> QED BY <1>6, <1>8, <2>1
<1>9. ASSUME NEW z, z = [me EXCEPT !.version = LibraryVersion, !.todo = Items,
                                   !.open = TRUE, !.rows = NoRows, !.rewrite = TRUE,
                                   !.mem = [me.mem EXCEPT !.stamp = 0, !.checkpoint = 0]],
             proc' = [proc EXCEPT ![p] = z]
      PROVE  SharedInv'
  <2>1. [me.mem EXCEPT !.stamp = 0, !.checkpoint = 0] \in Meta
    BY <1>2, <1>4 DEF Meta
  <2>2. z \in Proc /\ z.at = me.at /\ z.done = me.done /\ z.token = me.token /\ z.born = me.born
    BY <1>2, <1>4, <1>9, <2>1 DEF Proc
  <2> QED BY <1>3, <1>4, <1>9, <2>2
<1> QED BY <1>5, <1>7, <1>8, <1>9

LEMMA IndexItemStep ==
  ASSUME SharedInv, NEW p \in Procs, IndexItem(p)
  PROVE  SharedInv'
<1>1. PICK i \in proc[p].todo :
        proc' = [proc EXCEPT ![p] =
                   [proc[p] EXCEPT !.open = TRUE, !.rows = [Rows(p) EXCEPT ![i] = lib[i]],
                                   !.todo = proc[p].todo \ {i}]]
  BY DEF IndexItem
<1> SUFFICES ASSUME NEW s, s = proc[p],
                    NEW z, z = [s EXCEPT !.open = TRUE, !.rows = [Rows(p) EXCEPT ![i] = lib[i]],
                                         !.todo = s.todo \ {i}]
             PROVE  SharedInv'
  OBVIOUS
<1>2. s \in Proc /\ ProcOK(p, s, file, jobs) /\ s.at = "working" /\ UNCHANGED <<lib, file, jobs>>
  BY DEF SharedInv, IndexItem, At
<1>3. [Rows(p) EXCEPT ![i] = lib[i]] \in [Items -> Nat]
  <2>1. i \in Items /\ Rows(p) \in [Items -> Nat]
    BY <1>2, RowsType DEF Proc
  <2>2. lib[i] \in Nat
    BY <2>1 DEF SharedInv, FileTypes
  <2> QED BY <2>1, <2>2
<1>4. /\ z.at = "working" /\ z.done = s.done /\ z.token = s.token /\ z.born = s.born /\ z \in Proc
  BY <1>2, <1>3 DEF Proc
<1>5. ProcOK(p, z, file, jobs)
  BY <1>2, <1>4 DEF ProcOK, Owns
<1> QED BY <1>1, <1>2, <1>4, <1>5, Alone

\* A process that is stopped is a process still.
LEMMA StoppedType ==
  ASSUME NEW l \in Proc, NoRows \in [Items -> Nat]
  PROVE  [l EXCEPT !.at = "down", !.wants = "none", !.asked = "none", !.open = FALSE, !.rows = NoRows,
                   !.token = 0, !.version = 0, !.todo = {}, !.done = {}] \in Proc
<1> SUFFICES ASSUME NEW y, y = [l EXCEPT !.at = "down", !.wants = "none", !.asked = "none", !.open = FALSE]
             PROVE  [y EXCEPT !.rows = NoRows, !.token = 0, !.version = 0, !.todo = {}, !.done = {}] \in Proc
  OBVIOUS
<1>1. y \in Proc
  BY DEF Proc, Stages
<1> QED BY <1>1 DEF Proc

\* The job is refused, rolled back, or given up without a word in the file.
LEMMA JobEnds ==
  ASSUME SharedInv, NEW p \in Procs,
         StartRefused(p) \/ ReleaseFails(p) \/ Crash(p) \/ Open(p)
         \/ (Fail(p) /\ proc[p].wants = "update")
  PROVE  SharedInv'
<1> SUFFICES ASSUME NEW s, s = proc[p] PROVE SharedInv'
  OBVIOUS
<1>1. s \in Proc /\ ProcOK(p, s, file, jobs) /\ NoRows \in [Items -> Nat] /\ jobs \in Nat
  BY DEF SharedInv, FileTypes, NoRows
<1>2. CASE StartRefused(p)
  <2> SUFFICES ASSUME NEW z, z = [s EXCEPT !.at = "saved"] PROVE SharedInv'
    OBVIOUS
  <2>1. s.at = "claimed" /\ proc' = [proc EXCEPT ![p] = z] /\ UNCHANGED <<lib, file, jobs>>
    BY <1>2 DEF StartRefused, At
  <2>2. /\ z \in Proc /\ z.at = "saved" /\ z.token = s.token /\ z.born = s.born /\ z.open = s.open
        /\ z.rewrite = s.rewrite /\ z.mem = s.mem /\ z.baseline = s.baseline
    BY <1>1 DEF Proc, Stages
  <2>3. ProcOK(p, z, file, jobs)
    BY <1>1, <2>1, <2>2 DEF ProcOK, Owns
  <2> QED BY <2>1, <2>2, <2>3, Alone
<1>3. CASE ReleaseFails(p)
  <2> SUFFICES ASSUME NEW z, z = [s EXCEPT !.at = "idle", !.token = 0, !.wants = "none", !.asked = "none",
                                           !.todo = {}, !.version = 0] PROVE SharedInv'
    OBVIOUS
  <2>1. s.at = "saved" /\ proc' = [proc EXCEPT ![p] = z] /\ UNCHANGED <<lib, file, jobs>>
    BY <1>3 DEF ReleaseFails, At
  <2>2. /\ z \in Proc /\ z.at = "idle" /\ z.token = 0 /\ z.born = s.born /\ z.open = s.open
        /\ z.rewrite = s.rewrite /\ z.mem = s.mem /\ z.baseline = s.baseline
    BY <1>1 DEF Proc, Stages
  <2>3. ProcOK(p, z, file, jobs)
    BY <1>1, <2>1, <2>2 DEF ProcOK, Owns
  <2> QED BY <2>1, <2>2, <2>3, Alone
<1>4. CASE Crash(p)
  <2> SUFFICES ASSUME NEW z, z = Crashed(s) PROVE SharedInv'
    OBVIOUS
  <2>1. proc' = [proc EXCEPT ![p] = z] /\ UNCHANGED <<lib, file, jobs>>
    BY <1>4 DEF Crash
  <2>2. /\ z \in Proc /\ z.at = "down" /\ z.token = 0 /\ z.born = s.born /\ ~z.open
        /\ ~z.rewrite /\ z.mem = z.baseline
    <3>1. PICK l : l = Loaded(s)
      OBVIOUS
    <3>2. l \in Proc /\ l.mem = l.baseline /\ ~l.rewrite /\ l.born = s.born
      BY <1>1, <3>1, LoadedType
    <3>3. z = [l EXCEPT !.at = "down", !.wants = "none", !.asked = "none", !.open = FALSE, !.rows = NoRows,
                        !.token = 0, !.version = 0, !.todo = {}, !.done = {}]
      BY <3>1 DEF Crashed
    <3>4. z \in Proc
      BY <1>1, <3>2, <3>3, StoppedType
    <3>5. z.at = "down" /\ z.token = 0 /\ z.born = l.born /\ ~z.open
          /\ z.rewrite = l.rewrite /\ z.mem = l.mem /\ z.baseline = l.baseline
      BY <3>2, <3>3 DEF Proc
    <3> QED BY <3>2, <3>4, <3>5
  <2>3. ProcOK(p, z, file, jobs)
    BY <1>1, <2>2 DEF ProcOK, Owns
  <2> QED BY <2>1, <2>2, <2>3, Alone
<1>5. CASE Open(p)
  <2> SUFFICES ASSUME NEW z, z = [Loaded(s) EXCEPT !.at = "idle", !.born = jobs] PROVE SharedInv'
    OBVIOUS
  <2>1. s.at = "down" /\ proc' = [proc EXCEPT ![p] = z] /\ UNCHANGED <<lib, file, jobs>>
    BY <1>5 DEF Open, At
  <2>2. /\ z \in Proc /\ z.at = "idle" /\ z.token = s.token /\ z.born = jobs /\ z.open = s.open
        /\ ~z.rewrite /\ z.mem = z.baseline
    BY <1>1, LoadedType DEF Proc, Stages
  <2>3. ProcOK(p, z, file, jobs)
    BY <1>1, <2>1, <2>2 DEF ProcOK, Owns
  <2> QED BY <2>1, <2>2, <2>3, Alone
<1>6. CASE Fail(p) /\ proc[p].wants = "update"
  <2> SUFFICES ASSUME NEW z, z = [Loaded(s) EXCEPT !.at = "saved", !.done = {}, !.open = FALSE, !.rows = NoRows]
               PROVE  SharedInv'
    OBVIOUS
  <2>1. s.at = "working" /\ proc' = [proc EXCEPT ![p] = z] /\ UNCHANGED <<lib, file, jobs>>
    BY <1>6 DEF Fail, At
  <2>2. /\ z \in Proc /\ z.at = "saved" /\ z.token = s.token /\ z.born = s.born /\ ~z.open
        /\ ~z.rewrite /\ z.mem = z.baseline
    BY <1>1, LoadedType DEF Proc, Stages
  <2>3. ProcOK(p, z, file, jobs)
    BY <1>1, <2>1, <2>2 DEF ProcOK, Owns
  <2> QED BY <2>1, <2>2, <2>3, Alone
<1> QED BY <1>2, <1>3, <1>4, <1>5, <1>6

-----------------------------------------------------------------------------
(* The steps that commit.                                                  *)

\* A commit of what p has open: the lease stays as it is, fresh if it is p's.
LEMMA Flushing ==
  ASSUME SharedInv, NEW p \in Procs, NEW s, UNCHANGED <<lib, jobs>>, Flush(p, s), s \in Proc,
         s.token = proc[p].token, s.born = proc[p].born,
         Owns(s) <=> Owns(proc[p]), s.open \in BOOLEAN,
         s.at = "working" => \A i \in s.done : Rows(p)[i] # 0
  PROVE  SharedInv'
<1> DEFINE z == [s EXCEPT !.open = FALSE, !.rows = NoRows, !.baseline = s.mem, !.rewrite = FALSE]
<1>1. /\ file' = [rows |-> Rows(p), meta |-> Merged(p, s.mem), lease |-> Beaten(p)]
      /\ proc' = Noticed(p, z)
  BY DEF Flush
<1>2. NoRows \in [Items -> Nat] /\ s.mem \in Meta
  BY DEF NoRows, Proc
<1>3. /\ z \in Proc /\ z.at = s.at /\ z.token = s.token /\ z.born = s.born /\ ~z.open /\ ~z.rewrite
      /\ z.mem = z.baseline /\ z.done = s.done
  BY <1>2 DEF Proc
<1> SUFFICES ASSUME NEW y, y = z PROVE SharedInv'
  OBVIOUS
<1> HIDE DEF z
<1>4. proc[p] \in Proc /\ ProcOK(p, proc[p], file, jobs) /\ file.lease \in Lease /\ file.lease.token <= jobs
  BY DEF SharedInv, FileTypes
<1>5. /\ Owns(proc[p]) => Beaten(p) = file.lease
      /\ ~Owns(proc[p]) => Beaten(p) = file.lease
      /\ Beaten(p) = file.lease
  <2>1. CASE Owns(proc[p])
    <3>1. file.lease.fresh /\ file.lease.fresh \in BOOLEAN
      BY <1>4, <2>1 DEF ProcOK, Lease
    <3>2. [file.lease EXCEPT !.fresh = TRUE] = file.lease
      BY <1>4, <3>1 DEF Lease
    <3> QED BY <2>1, <3>2 DEF Beaten
  <2>2. CASE ~Owns(proc[p])
    BY <1>4, <2>2 DEF ProcOK, Beaten
  <2> QED BY <2>1, <2>2
<1>6. FileTypes' /\ Rows(p) \in [Items -> Nat]
  <2>1. Rows(p) \in [Items -> Nat] /\ Merged(p, s.mem) \in Meta /\ Beaten(p) \in Lease
    BY <1>2, <1>4, <1>5, RowsType, MergedIsMeta DEF SharedInv
  <2> QED BY <1>1, <1>4, <1>5, <2>1 DEF SharedInv, FileTypes
<1>7. file'.rows = Rows(p) /\ file'.lease = file.lease
  BY <1>1, <1>5
<1>8. ProcOK(p, y, file', jobs')
  BY <1>3, <1>4, <1>7 DEF ProcOK, Owns
<1>9. \A q \in Procs \ {p} : Owns(proc[q]) => file'.lease = file.lease /\ file'.rows = file.rows
  BY <1>7, OneOwner, RowsType
<1>10. jobs <= jobs'
  BY DEF SharedInv, FileTypes
<1> QED BY <1>1, <1>3, <1>6, <1>8, <1>9, <1>10, Committing

\* A running build commits what it has, with its checkpoint; a job ends.
LEMMA FlushSteps ==
  ASSUME SharedInv, NEW p \in Procs,
         Commit(p) \/ Complete(p) \/ (Fail(p) /\ proc[p].wants = "build") \/ Close(p)
  PROVE  SharedInv'
<1> SUFFICES ASSUME NEW s, s = proc[p] PROVE SharedInv'
  OBVIOUS
<1>1. s \in Proc /\ s.mem \in Meta /\ s.version \in Nat /\ UNCHANGED <<lib, jobs>>
  BY DEF SharedInv, Proc, Commit, Complete, Fail, Close
<1>2. [s.mem EXCEPT !.checkpoint = s.version] \in Meta
      /\ [s.mem EXCEPT !.stamp = s.version, !.checkpoint = 0] \in Meta
  BY <1>1 DEF Meta
<1>3. CASE Commit(p)
  <2> SUFFICES ASSUME NEW c, c = {i \in Items : s.rows[i] # 0},
                      NEW z, z = [s EXCEPT !.mem = [s.mem EXCEPT !.checkpoint = s.version], !.done = c]
               PROVE  SharedInv'
    OBVIOUS
  <2>1. s.at = "working" /\ s.open /\ Flush(p, z)
    BY <1>3 DEF Commit, At
  <2>2. z \in Proc /\ z.at = s.at /\ z.token = s.token /\ z.born = s.born /\ z.open \in BOOLEAN /\ z.done = c
    BY <1>1, <1>2 DEF Proc
  <2>3. \A i \in c : Rows(p)[i] # 0
    BY <2>1 DEF Rows
  <2> QED BY <1>1, <2>1, <2>2, <2>3, Flushing DEF Owns
<1>4. CASE Complete(p)
  <2> SUFFICES ASSUME NEW z, z = [s EXCEPT !.at = "saved", !.done = {},
                                           !.mem = [s.mem EXCEPT !.stamp = s.version, !.checkpoint = 0]]
               PROVE  SharedInv'
    OBVIOUS
  <2>1. s.at = "working" /\ Flush(p, z)
    BY <1>4 DEF Complete, At
  <2>2. z \in Proc /\ z.at = "saved" /\ z.token = s.token /\ z.born = s.born /\ z.open \in BOOLEAN
    BY <1>1, <1>2 DEF Proc, Stages
  <2> QED BY <1>1, <2>1, <2>2, Flushing DEF Owns
<1>5. CASE Fail(p) /\ proc[p].wants = "build"
  <2> SUFFICES ASSUME NEW z, z = [s EXCEPT !.at = "saved", !.done = {},
                                           !.mem = [s.mem EXCEPT !.checkpoint = s.version]]
               PROVE  SharedInv'
    OBVIOUS
  <2>1. s.at = "working" /\ Flush(p, z)
    BY <1>5 DEF Fail, At
  <2>2. z \in Proc /\ z.at = "saved" /\ z.token = s.token /\ z.born = s.born /\ z.open \in BOOLEAN
    BY <1>1, <1>2 DEF Proc, Stages
  <2> QED BY <1>1, <2>1, <2>2, Flushing DEF Owns
<1>6. CASE Close(p)
  <2> SUFFICES ASSUME NEW z, z = [s EXCEPT !.at = "down"] PROVE SharedInv'
    OBVIOUS
  <2>1. s.at = "idle" /\ Flush(p, z)
    BY <1>6 DEF Close, At
  <2>2. z \in Proc /\ z.at = "down" /\ z.token = s.token /\ z.born = s.born /\ z.open \in BOOLEAN
    BY <1>1 DEF Proc, Stages
  <2> QED BY <1>1, <2>1, <2>2, Flushing DEF Owns
<1> QED BY <1>3, <1>4, <1>5, <1>6

\* Whoever owns the job is found at work by everybody else.
LEMMA OwnerSeen ==
  ASSUME SharedAssumption, SharedInv, NEW p \in Procs, ~Owns(proc[p]),
         NEW q \in Procs, Owns(proc[q])
  PROVE  Elsewhere(p)
<1>1. /\ ProcOK(p, proc[p], file, jobs) /\ ProcOK(q, proc[q], file, jobs)
      /\ proc[q] \in Proc
  BY DEF SharedInv
<1>2. proc[p].token = 0 /\ proc[q].born \in Nat /\ proc[q].token \in Nat /\ q # NoOne
  BY <1>1 DEF ProcOK, Proc, SharedAssumption
<1>3. /\ file.lease.holder = q /\ file.lease.token = proc[q].token /\ file.lease.fresh
      /\ proc[q].born < proc[q].token /\ proc[q].at # "down"
  BY <1>1 DEF ProcOK, Owns
<1> QED BY <1>2, <1>3 DEF Elsewhere, Live

\* The lease is taken when nobody owns the job.
LEMMA ClaimStep ==
  ASSUME SharedAssumption, SharedInv, NEW p \in Procs, Claim(p)
  PROVE  SharedInv'
<1> SUFFICES ASSUME NEW s, s = proc[p] PROVE SharedInv'
  OBVIOUS
<1>1. s \in Proc /\ ProcOK(p, s, file, jobs) /\ s.at = "checked" /\ ~Owns(s) /\ UNCHANGED lib
  BY DEF SharedInv, Claim, At, Owns
<1>2. CASE ~Free(p)
  <2>1. UNCHANGED <<lib, file, jobs>> /\ proc' = [proc EXCEPT ![p] = [s EXCEPT !.at = "idle"]]
    BY <1>2 DEF Claim
  <2> QED BY <1>1, <2>1, Quiet DEF Stages
<1>3. CASE Free(p)
  <2> SUFFICES ASSUME NEW n, n = jobs + 1, NEW z, z = [s EXCEPT !.at = "claimed", !.token = n]
               PROVE  SharedInv'
    OBVIOUS
  <2>1. /\ jobs' = n /\ proc' = Noticed(p, z)
        /\ file' = [file EXCEPT !.lease = [holder |-> p, token |-> n, fresh |-> TRUE]]
    BY <1>3 DEF Claim
  <2>2. n \in Nat /\ jobs \in Nat /\ jobs < n
    BY DEF SharedInv, FileTypes
  <2>3. FileTypes'
    <3> DEFINE l == [holder |-> p, token |-> n, fresh |-> TRUE]
    <3>1. l \in Lease /\ l.token <= n
      BY <2>2 DEF Lease
    <3>2. file' = [file EXCEPT !.lease = l]
      BY <2>1
    <3> HIDE DEF l
    <3> QED BY <1>1, <2>1, <2>2, <3>1, <3>2 DEF SharedInv, FileTypes
  <2>4. /\ z \in Proc /\ z.at = "claimed" /\ z.token = n /\ z.born = s.born /\ z.open = s.open
        /\ z.rewrite = s.rewrite /\ z.mem = s.mem /\ z.baseline = s.baseline /\ s.born \in Nat
    BY <1>1, <2>2 DEF Proc, Stages
  <2>5. file'.lease.holder = p /\ file'.lease.token = n /\ file'.lease.fresh
    BY <2>1 DEF SharedInv, FileTypes
  <2>6. ProcOK(p, z, file', jobs')
    BY <1>1, <2>1, <2>2, <2>4, <2>5 DEF ProcOK, Owns
  <2>7. \A q \in Procs : ~Owns(proc[q])
    BY <1>1, <1>3, OwnerSeen DEF Free
  <2>8. jobs <= jobs'
    BY <2>1, <2>2
  <2> QED BY <1>1, <2>1, <2>3, <2>4, <2>6, <2>7, <2>8, Committing
<1> QED BY <1>2, <1>3

LEMMA ReleaseStep ==
  ASSUME SharedInv, NEW p \in Procs, Release(p)
  PROVE  SharedInv'
<1> SUFFICES ASSUME NEW s, s = proc[p],
                    NEW m, m = [s EXCEPT !.at = "idle"],
                    NEW z, z = [m EXCEPT !.token = 0, !.open = FALSE, !.rows = NoRows,
                                         !.wants = "none", !.asked = "none", !.todo = {}, !.version = 0]
             PROVE  SharedInv'
  OBVIOUS
<1>1. s \in Proc /\ ProcOK(p, s, file, jobs) /\ s.at = "saved" /\ Owns(s) /\ UNCHANGED <<lib, jobs>>
  BY DEF SharedInv, Release, At, Owns
<1>2. /\ file' = [file EXCEPT !.rows = Rows(p), !.lease = IF Mine(p) THEN NoLease ELSE file.lease]
      /\ proc' = Noticed(p, z)
  BY DEF Release, Released
<1>3. NoRows \in [Items -> Nat]
  BY DEF NoRows
<1>4. m \in Proc /\ m.at = "idle" /\ m.born = s.born /\ m.rewrite = s.rewrite
      /\ m.mem = s.mem /\ m.baseline = s.baseline
  BY <1>1 DEF Proc, Stages
<1>5. z \in Proc /\ z.at = "idle" /\ z.token = 0 /\ z.born = s.born /\ ~z.open
      /\ z.rewrite = s.rewrite /\ z.mem = s.mem /\ z.baseline = s.baseline
  BY <1>3, <1>4 DEF Proc
<1>6. Rows(p) \in [Items -> Nat]
  BY RowsType
<1>7. FileTypes'
  <2>1. NoLease \in Lease /\ NoLease.token = 0
    BY DEF NoLease, Lease
  <2>2. file.lease.token <= jobs /\ jobs \in Nat
    BY DEF SharedInv, FileTypes
  <2>3. PICK l : l \in {NoLease, file.lease} /\ file' = [file EXCEPT !.rows = Rows(p), !.lease = l]
    BY <1>2
  <2>4. l \in Lease /\ l.token <= jobs
    BY <2>1, <2>2, <2>3 DEF SharedInv, FileTypes
  <2> QED BY <1>1, <1>6, <2>2, <2>3, <2>4 DEF SharedInv, FileTypes
<1>8. ProcOK(p, z, file', jobs')
  BY <1>1, <1>5 DEF ProcOK, Owns
<1>9. \A q \in Procs \ {p} : ~Owns(proc[q])
  BY <1>1, OneOwner
<1>10. jobs <= jobs'
  BY <1>1 DEF SharedInv, FileTypes
<1> QED BY <1>1, <1>2, <1>5, <1>7, <1>8, <1>9, <1>10, Committing

LEMMA SetPausedStep ==
  ASSUME SharedInv, NEW p \in Procs, NEW hold \in BOOLEAN, SetPaused(p, hold)
  PROVE  SharedInv'
<1> SUFFICES ASSUME NEW s, s = proc[p],
                    NEW z, z = [s EXCEPT !.mem = [s.mem EXCEPT !.paused = hold],
                                         !.baseline = [s.baseline EXCEPT !.paused = hold]]
             PROVE  SharedInv'
  OBVIOUS
<1>1. s \in Proc /\ ProcOK(p, s, file, jobs) /\ s.at = "idle" /\ UNCHANGED <<lib, jobs>>
  BY DEF SharedInv, SetPaused, At
<1>2. /\ file' = [file EXCEPT !.meta = [file.meta EXCEPT !.paused = hold]]
      /\ proc' = Noticed(p, z)
  BY DEF SetPaused
<1>3. /\ [s.mem EXCEPT !.paused = hold] \in Meta /\ [s.baseline EXCEPT !.paused = hold] \in Meta
      /\ [file.meta EXCEPT !.paused = hold] \in Meta
  BY <1>1 DEF Proc, Meta, SharedInv, FileTypes
<1>4. z \in Proc /\ z.at = "idle" /\ z.token = s.token /\ z.born = s.born /\ z.open = s.open
      /\ z.rewrite = s.rewrite
      /\ z.mem = [s.mem EXCEPT !.paused = hold] /\ z.baseline = [s.baseline EXCEPT !.paused = hold]
  BY <1>1, <1>3 DEF Proc
<1>5. FileTypes' /\ file'.lease = file.lease /\ file'.rows = file.rows
  BY <1>1, <1>2, <1>3 DEF SharedInv, FileTypes
<1>6. ProcOK(p, z, file', jobs')
  BY <1>1, <1>4 DEF ProcOK, Owns
<1>7. jobs <= jobs'
  BY <1>1 DEF SharedInv, FileTypes
<1> QED BY <1>1, <1>2, <1>4, <1>5, <1>6, <1>7, Committing

\* A lease whose job is gone grows old; the library changes.
LEMMA SurroundingSteps ==
  ASSUME SharedAssumption, SharedInv, LeaseAges \/ (\E i \in Items : Modify(i)) \/ UNCHANGED vars
  PROVE  SharedInv'
<1>1. CASE LeaseAges
  <2> SUFFICES ASSUME NEW l, l = [file.lease EXCEPT !.fresh = FALSE] PROVE SharedInv'
    OBVIOUS
  <2>1. /\ file' = [file EXCEPT !.lease = l] /\ UNCHANGED <<lib, proc, jobs>>
        /\ proc[file.lease.holder].token # file.lease.token
    BY <1>1 DEF LeaseAges
  <2>2. l \in Lease /\ l.token = file.lease.token
    BY DEF Lease, SharedInv, FileTypes
  <2>3. FileTypes' /\ file'.rows = file.rows
    BY <2>1, <2>2 DEF SharedInv, FileTypes
  <2>4. \A p \in Procs : ~Owns(proc[p])
    BY <2>1 DEF SharedInv, ProcOK
  <2>5. \A p \in Procs : ProcOK(p, proc[p], file', jobs)
    BY <2>3, <2>4 DEF SharedInv, ProcOK, Owns
  <2> QED BY <2>1, <2>3, <2>5 DEF SharedInv
<1>2. ASSUME NEW i \in Items, Modify(i) PROVE SharedInv'
  <2>1. LibraryVersion \in Nat /\ LibraryVersion < MaxVersion
    BY <1>2, LibraryVersionType DEF Modify, SharedInv, SharedAssumption
  <2>2. lib' \in [Items -> 0..MaxVersion] /\ UNCHANGED <<file, proc, jobs>>
    BY <1>2, <2>1 DEF Modify, SharedInv, FileTypes, SharedAssumption
  <2> QED BY <2>2 DEF SharedInv, FileTypes
<1>3. CASE UNCHANGED vars
  BY <1>3 DEF vars, SharedInv, FileTypes
<1> QED BY <1>1, <1>2, <1>3

LEMMA SharedInvKept ==
  ASSUME SharedAssumption, SharedInv, [Next]_vars
  PROVE  SharedInv'
<1>1. CASE LeaseAges \/ (\E i \in Items : Modify(i)) \/ UNCHANGED vars
  BY <1>1, SurroundingSteps
<1>2. ASSUME NEW p \in Procs,
             \/ \E asked \in {"update", "build"} : Decide(p, asked)
             \/ BeforeJob(p) \/ Look(p) \/ ClaimTimesOut(p)
      PROVE  SharedInv'
  BY <1>2, CallSteps
<1>3. ASSUME NEW p \in Procs, Claim(p) \/ Start(p) \/ IndexItem(p) \/ Release(p)
      PROVE  SharedInv'
  BY <1>3, ClaimStep, StartStep, IndexItemStep, ReleaseStep
<1>4. ASSUME NEW p \in Procs, Commit(p) \/ Complete(p) \/ Close(p)
      PROVE  SharedInv'
  BY <1>4, FlushSteps
<1>5. ASSUME NEW p \in Procs, StartRefused(p) \/ ReleaseFails(p) \/ Crash(p) \/ Open(p)
      PROVE  SharedInv'
  BY <1>5, JobEnds
<1>6. ASSUME NEW p \in Procs, Fail(p) PROVE SharedInv'
  <2>1. proc[p].wants = "build" \/ proc[p].wants = "update"
    BY <1>6 DEF Fail
  <2> QED BY <1>6, <2>1, FlushSteps, JobEnds
<1>7. ASSUME NEW p \in Procs, NEW hold \in BOOLEAN, SetPaused(p, hold) PROVE SharedInv'
  BY <1>7, SetPausedStep
<1> QED BY <1>1, <1>2, <1>3, <1>4, <1>5, <1>6, <1>7 DEF Next, JobStep

-----------------------------------------------------------------------------

LEMMA SharedInvHolds ==
  ASSUME SharedAssumption
  PROVE  Spec => []SharedInv
BY InitSharedInv, SharedInvKept, PTL DEF Spec

\* Of any number of processes one at most runs a job, whichever looked, waited
\* for the lock, died or came back when, and nobody empties the store under it
\* (sqlite-index.ts:2344, index-manager.ts:664).
THEOREM JobsAreAlone ==
  ASSUME SharedAssumption
  PROVE  Spec => []JobAlone
<1>1. ASSUME SharedInv PROVE JobAlone
  <2>1. SharedTypeOK
    BY <1>1 DEF SharedInv, FileTypes, SharedTypeOK
  <2>2. OneJob
    BY <1>1, OneOwner DEF OneJob, At, Owns
  <2>3. CommittedStays
    BY <1>1 DEF SharedInv, ProcOK, CommittedStays, At
  <2> QED BY <2>1, <2>2, <2>3 DEF JobAlone
<1> QED BY <1>1, SharedInvHolds, PTL

\* What a process without a job writes back of the meta row is what it read: the
\* stamp and the checkpoint in the file are the running job's to change
\* (sqlite-index.ts:1319).
THEOREM StampsAreKept ==
  ASSUME SharedAssumption
  PROVE  Spec => StampKept
<1> DEFINE Moved == file'.meta.stamp # file.meta.stamp \/ file'.meta.checkpoint # file.meta.checkpoint
           ByJob == \E p \in Procs : /\ At(p, "working") /\ proc[p].token = file.lease.token
                                     /\ (proc[p].rewrite \/ proc'[p].baseline # proc[p].baseline)
<1>1. ASSUME SharedInv, NEW p \in Procs, NEW s \in Proc, s.token = proc[p].token, Flush(p, s),
             s.mem = proc[p].mem \/ proc[p].at = "working"
      PROVE  Moved => ByJob
  <2> SUFFICES ASSUME Moved PROVE ByJob
    OBVIOUS
  <2>1. /\ file'.meta = Merged(p, s.mem) /\ file.meta \in Meta /\ s.mem \in Meta
        /\ proc[p] \in Proc /\ ProcOK(p, proc[p], file, jobs)
    BY <1>1 DEF Flush, SharedInv, FileTypes, Proc
  <2>2. proc[p].rewrite \/ s.mem # proc[p].baseline
    <3> SUFFICES ASSUME ~proc[p].rewrite, s.mem = proc[p].baseline PROVE FALSE
      OBVIOUS
    <3>1. \A f \in Fields : Merged(p, s.mem)[f] = file.meta[f]
      BY DEF Merged
    <3> QED BY <2>1, <3>1 DEF Fields
  <2>3. proc[p].at = "working"
    BY <1>1, <2>1, <2>2 DEF ProcOK
  <2>4. proc'[p].baseline = s.mem
    BY <1>1, <2>1 DEF Flush, Noticed, Proc
  <2> QED BY <2>1, <2>2, <2>3, <2>4 DEF ProcOK, Owns, At
<1>2. ASSUME SharedInv, NEW p \in Procs, Commit(p) \/ Complete(p) \/ Close(p) \/ Fail(p)
      PROVE  Moved => ByJob
  <2>1. proc[p] \in Proc /\ proc[p].mem \in Meta /\ proc[p].version \in Nat
    BY <1>2 DEF SharedInv, Proc
  <2>2. CASE Close(p)
    <3>1. /\ [proc[p] EXCEPT !.at = "down"] \in Proc
          /\ [proc[p] EXCEPT !.at = "down"].token = proc[p].token
          /\ [proc[p] EXCEPT !.at = "down"].mem = proc[p].mem
      BY <2>1 DEF Proc, Stages
    <3> QED BY <1>1, <1>2, <2>2, <3>1 DEF Close
  <2>3. CASE Commit(p) \/ Complete(p) \/ (Fail(p) /\ proc[p].wants = "build")
    <3>1. [proc[p].mem EXCEPT !.checkpoint = proc[p].version] \in Meta
          /\ [proc[p].mem EXCEPT !.stamp = proc[p].version, !.checkpoint = 0] \in Meta
      BY <2>1 DEF Meta
    <3>2. PICK z : z \in Proc /\ z.token = proc[p].token /\ Flush(p, z)
      <4>1. CASE Commit(p)
        <5> DEFINE z == [proc[p] EXCEPT !.mem = [proc[p].mem EXCEPT !.checkpoint = proc[p].version],
                                        !.done = {i \in Items : proc[p].rows[i] # 0}]
        <5>1. Flush(p, z)
          BY <4>1 DEF Commit
        <5>2. z \in Proc /\ z.token = proc[p].token
          BY <2>1, <3>1 DEF Proc
        <5> QED BY <5>1, <5>2
      <4>2. CASE Complete(p)
        <5> DEFINE z == [proc[p] EXCEPT !.at = "saved", !.done = {},
                           !.mem = [proc[p].mem EXCEPT !.stamp = proc[p].version, !.checkpoint = 0]]
        <5>1. Flush(p, z)
          BY <4>2 DEF Complete
        <5>2. z \in Proc /\ z.token = proc[p].token
          BY <2>1, <3>1 DEF Proc, Stages
        <5> QED BY <5>1, <5>2
      <4>3. CASE Fail(p) /\ proc[p].wants = "build"
        <5> DEFINE z == [proc[p] EXCEPT !.at = "saved", !.done = {},
                           !.mem = [proc[p].mem EXCEPT !.checkpoint = proc[p].version]]
        <5>1. Flush(p, z)
          BY <4>3 DEF Fail
        <5>2. z \in Proc /\ z.token = proc[p].token
          BY <2>1, <3>1 DEF Proc, Stages
        <5> QED BY <5>1, <5>2
      <4> QED BY <2>3, <4>1, <4>2, <4>3
    <3>3. proc[p].at = "working"
      BY <2>3 DEF Commit, Complete, Fail, At
    <3> QED BY <1>1, <1>2, <3>2, <3>3
  <2>4. CASE Fail(p) /\ proc[p].wants = "update"
    BY <2>4 DEF Fail
  <2> QED BY <1>2, <2>2, <2>3, <2>4 DEF Fail
<1>3. ASSUME SharedInv, [Next]_vars, Moved PROVE ByJob
  <2>1. ASSUME NEW p \in Procs, Commit(p) \/ Complete(p) \/ Close(p) \/ Fail(p) PROVE ByJob
    BY <1>2, <1>3, <2>1
  <2>2. ASSUME NEW p \in Procs, NEW hold \in BOOLEAN, SetPaused(p, hold) PROVE FALSE
    BY <1>3, <2>2 DEF SetPaused, SharedInv, FileTypes, Meta
  <2>3. ASSUME NEW p \in Procs, Release(p) \/ Claim(p) PROVE FALSE
    BY <1>3, <2>3 DEF Release, Released, Claim, SharedInv, FileTypes
  <2>4. CASE LeaseAges
    BY <1>3, <2>4 DEF LeaseAges, SharedInv, FileTypes
  <2>5. ASSUME NEW p \in Procs,
               \/ \E asked \in {"update", "build"} : Decide(p, asked)
               \/ BeforeJob(p) \/ Look(p) \/ ClaimTimesOut(p) \/ Start(p) \/ StartRefused(p)
               \/ IndexItem(p) \/ ReleaseFails(p) \/ Crash(p) \/ Open(p)
        PROVE  FALSE
    BY <1>3, <2>5 DEF Decide, BeforeJob, Look, ClaimTimesOut, Start, StartRefused, IndexItem,
                      ReleaseFails, Crash, Open
  <2>6. CASE (\E i \in Items : Modify(i)) \/ UNCHANGED vars
    BY <1>3, <2>6 DEF Modify, vars
  <2> HIDE DEF Moved, ByJob
  <2> QED BY <1>3, <2>1, <2>2, <2>3, <2>4, <2>5, <2>6 DEF Next, JobStep
<1> DEFINE Kept == \/ file'.meta.stamp # file.meta.stamp
                   \/ file'.meta.checkpoint # file.meta.checkpoint
                   => \E p \in Procs : /\ At(p, "working") /\ proc[p].token = file.lease.token
                                       /\ (proc[p].rewrite \/ proc'[p].baseline # proc[p].baseline)
<1>4. SharedInv /\ [Next]_vars => [Kept]_vars
  BY <1>3
<1>5. Spec => [][Kept]_vars
  <2>1. Spec => [][Next]_vars
    BY DEF Spec
  <2> HIDE DEF Kept
  <2> QED BY <1>4, <2>1, SharedInvHolds, PTL
<1> QED BY <1>5 DEF StampKept

-----------------------------------------------------------------------------
(* The JSON file.                                                          *)

State == [content : Nat, paused : BOOLEAN]

File == [id : Nat, by : Writers \cup {"none"}, state : State, readable : BOOLEAN]

Me == [at : {"closed", "loading", "open"}, state : State, artifact : State, stamp : Nat,
       queue : Seq(State), renamed : BOOLEAN, transition : {"none", "hold", "clear"},
       waiting : BOOLEAN, faulted : BOOLEAN, asked : State]

StoreTypeOK ==
  /\ jsonFile \in File
  /\ handle \in [Writers -> Me]
  /\ contents \in Nat

\* Only a handle that is open has anything under way.
Still(me) ==
  me.at # "open" => me.queue = <<>> /\ ~me.waiting /\ me.transition = "none"

LastOr(q, s) == IF q = <<>> THEN s ELSE q[Len(q)]

\* What was asked for last is the last to be written.
AskedLast(me) == me.asked = LastOr(me.queue, me.artifact)

\* The hold a transition is leaving, and what the file is to say once it ended.
Before(me) == me.transition # "hold"

\* Outside a transition all that is written and to be written says what the
\* handle says of the hold; in one, only the last write differs.
HoldsAgree(me) ==
  IF me.transition = "none"
  THEN /\ me.artifact.paused = me.state.paused
       /\ \A i \in DOMAIN me.queue : me.queue[i].paused = me.state.paused
  ELSE /\ me.queue # <<>>
       /\ me.state.paused
       /\ me.artifact.paused = Before(me)
       /\ me.queue[Len(me.queue)].paused = ~Before(me)
       /\ \A i \in DOMAIN me.queue : i < Len(me.queue) => me.queue[i].paused = Before(me)

\* The file, while it is the handle's own.
FileOf(f, h, me) ==
  f.by = h =>
    /\ me.at = "loading" => f.state = me.state
    /\ me.at = "open" => f.state = IF me.renamed THEN Head(me.queue) ELSE me.artifact

HandleInv(f, h, me) ==
  /\ Still(me)
  /\ me.renamed => me.queue # <<>>
  /\ AskedLast(me)
  /\ me.at = "open" => HoldsAgree(me)
  /\ FileOf(f, h, me)

StoreInv ==
  /\ StoreTypeOK
  /\ jsonFile.readable \/ jsonFile.state = Empty
  /\ \A h \in Writers : HandleInv(jsonFile, h, handle[h])

-----------------------------------------------------------------------------
(* A queue of snapshots that grows at its end and shrinks at its head.     *)

LEMMA Appended ==
  ASSUME NEW q \in Seq(State), NEW s \in State
  PROVE  /\ Append(q, s) \in Seq(State) /\ Append(q, s) # <<>>
         /\ Len(Append(q, s)) = Len(q) + 1 /\ Len(q) \in Nat
         /\ \A i \in DOMAIN Append(q, s) : i \in DOMAIN q \/ i = Len(q) + 1
         /\ \A i \in DOMAIN q : i <= Len(q) /\ Append(q, s)[i] = q[i]
         /\ Append(q, s)[Len(q) + 1] = s
         /\ LastOr(Append(q, s), s) = s
         /\ q # <<>> => Head(Append(q, s)) = Head(q)
  BY DEF LastOr

LEMMA Tailed ==
  ASSUME NEW q \in Seq(State), q # <<>>
  PROVE  /\ Tail(q) \in Seq(State) /\ Head(q) \in State /\ Head(q) = q[1]
         /\ Len(Tail(q)) = Len(q) - 1 /\ Len(q) \in Nat \ {0} /\ 1 \in DOMAIN q
         /\ Tail(q) = <<>> <=> Len(q) = 1
         /\ \A i \in DOMAIN Tail(q) : i + 1 \in DOMAIN q /\ i \in Nat /\ Tail(q)[i] = q[i + 1]
         /\ \A s : LastOr(Tail(q), Head(q)) = LastOr(q, s)
<1>1. /\ Tail(q) \in Seq(State) /\ Head(q) \in State /\ Head(q) = q[1]
      /\ Len(Tail(q)) = Len(q) - 1 /\ Len(q) \in Nat \ {0} /\ 1 \in DOMAIN q
      /\ \A i \in DOMAIN Tail(q) : i + 1 \in DOMAIN q /\ i \in Nat /\ Tail(q)[i] = q[i + 1]
  BY EmptySeq, LenProperties
<1>2. Tail(q) = <<>> <=> Len(q) = 1
  <2>1. \A s \in Seq(State) : s = <<>> <=> Len(s) = 0
    BY EmptySeq
  <2>2. Tail(q) = <<>> <=> Len(Tail(q)) = 0
    BY <1>1, <2>1, Zenon
  <2> QED BY <1>1, <2>2
<1>3. Tail(q) # <<>> => Tail(q)[Len(Tail(q))] = q[Len(q)]
  <2> SUFFICES ASSUME Tail(q) # <<>> PROVE Tail(q)[Len(q) - 1] = q[Len(q)]
    BY <1>1
  <2>1. Len(q) - 1 \in DOMAIN Tail(q)
    BY <1>1, <1>2, LenProperties
  <2> QED BY <1>1, <2>1
<1>4. ASSUME NEW s PROVE LastOr(Tail(q), Head(q)) = LastOr(q, s)
  BY <1>1, <1>2, <1>3 DEF LastOr
<1> QED BY <1>1, <1>2, <1>4

-----------------------------------------------------------------------------
(* One step of one handle.                                                 *)

\* A step that leaves its own handle in order, and touches the file only to
\* make it its own, leaves the others in order.
LEMMA OneHandle ==
  ASSUME StoreInv, NEW h \in Writers, NEW me \in Me, Put(h, me),
         jsonFile' \in File, contents' \in Nat, jsonFile'.readable \/ jsonFile'.state = Empty,
         HandleInv(jsonFile', h, me), jsonFile' = jsonFile \/ jsonFile'.by = h
  PROVE  StoreInv'
<1>1. handle \in [Writers -> Me] /\ handle' = [handle EXCEPT ![h] = me]
  BY DEF StoreInv, StoreTypeOK, Put
<1>2. handle' \in [Writers -> Me] /\ handle'[h] = me
  BY <1>1
<1>3. ASSUME NEW g \in Writers PROVE HandleInv(jsonFile', g, handle'[g])
  <2>1. CASE g = h
    BY <1>2, <2>1
  <2>2. CASE g # h
    <3>1. handle'[g] = handle[g] /\ HandleInv(jsonFile, g, handle[g])
      BY <1>1, <2>2 DEF StoreInv
    <3> QED BY <2>2, <3>1 DEF HandleInv, FileOf
  <2> QED BY <2>1, <2>2
<1> QED BY <1>2, <1>3 DEF StoreInv, StoreTypeOK

LEMMA LoadKeeps ==
  ASSUME StoreInv, NEW h \in Writers, Load(h) \/ JsonLoaded(h) \/ CloseJson(h) \/ CrashJson(h)
  PROVE  StoreInv'
<1>0. /\ handle[h] \in Me /\ jsonFile \in File /\ contents \in Nat /\ HandleInv(jsonFile, h, handle[h])
      /\ jsonFile.readable \/ jsonFile.state = Empty
  BY DEF StoreInv, StoreTypeOK
<1>1. Empty \in State /\ <<>> \in Seq(State)
  BY DEF Empty, State
<1>2. Closed \in Me /\ HandleInv(jsonFile, h, Closed)
  BY <1>1 DEF Closed, Me, HandleInv, Still, AskedLast, LastOr, FileOf
<1>3. CASE Load(h)
  <2> DEFINE st == IF jsonFile.readable THEN jsonFile.state ELSE Empty
             me == [Closed EXCEPT !.at = "loading", !.state = st, !.faulted = ~jsonFile.readable]
  <2>1. Put(h, me) /\ UNCHANGED <<jsonFile, contents>>
    BY <1>3 DEF Load
  <2>2. st = jsonFile.state
    BY <1>0
  <2> HIDE DEF st
  <2>3. /\ me \in Me
        /\ me.at = "loading" /\ me.state = jsonFile.state /\ me.artifact = Empty /\ me.asked = Empty
        /\ me.queue = <<>> /\ ~me.renamed /\ me.transition = "none" /\ ~me.waiting
    BY <1>0, <1>1, <2>2 DEF Closed, Me, File
  <2> HIDE DEF me
  <2>4. HandleInv(jsonFile, h, me)
    BY <2>3 DEF HandleInv, Still, AskedLast, LastOr, FileOf
  <2> QED BY <1>0, <2>1, <2>3, <2>4, OneHandle
<1>4. CASE JsonLoaded(h)
  <2> DEFINE old == handle[h]
             me == [old EXCEPT !.at = "open", !.artifact = old.state, !.asked = old.state,
                               !.stamp = jsonFile.id]
  <2>1. Put(h, me) /\ UNCHANGED <<jsonFile, contents>> /\ old.at = "loading"
    BY <1>4 DEF JsonLoaded
  <2>2. old \in Me /\ HandleInv(jsonFile, h, old)
    BY <1>0
  <2> HIDE DEF old
  <2>3. /\ me \in Me /\ me.at = "open" /\ me.artifact = old.state /\ me.asked = old.state
        /\ me.state = old.state /\ me.queue = old.queue /\ me.renamed = old.renamed
        /\ me.transition = old.transition /\ me.waiting = old.waiting
    BY <1>0, <2>2 DEF Me, File
  <2> HIDE DEF me
  <2>4. /\ me.queue = <<>> /\ me.transition = "none" /\ ~me.renamed /\ ~me.waiting
        /\ jsonFile.by = h => jsonFile.state = me.artifact
    BY <2>1, <2>2, <2>3 DEF HandleInv, Still, FileOf
  <2>5. HandleInv(jsonFile, h, me)
    BY <2>3, <2>4 DEF HandleInv, Still, AskedLast, LastOr, FileOf, HoldsAgree
  <2> QED BY <1>0, <2>1, <2>3, <2>5, OneHandle
<1>5. CASE CloseJson(h) \/ CrashJson(h)
  <2>1. Put(h, Closed) /\ UNCHANGED <<jsonFile, contents>>
    BY <1>5 DEF CloseJson, CrashJson
  <2> QED BY <1>0, <1>2, <2>1, OneHandle
<1> QED BY <1>3, <1>4, <1>5

LEMMA IndexKeeps ==
  ASSUME StoreInv, NEW h \in Writers, Index(h)
  PROVE  StoreInv'
<1> DEFINE old == handle[h]
           me  == [old EXCEPT !.state.content = contents']
<1>1. Put(h, me) /\ UNCHANGED jsonFile /\ contents' = contents + 1 /\ old.at = "open"
  BY DEF Index, JsonOpen
<1>2. /\ old \in Me /\ HandleInv(jsonFile, h, old) /\ jsonFile \in File /\ contents \in Nat
      /\ jsonFile.readable \/ jsonFile.state = Empty
  BY DEF StoreInv, StoreTypeOK
<1> HIDE DEF old
<1> DEFINE st == [old.state EXCEPT !.content = contents']
<1>a. st \in State /\ st.paused = old.state.paused
  <2>1. contents' \in Nat
    BY <1>1, <1>2
  <2>2. old.state \in State
    BY <1>2 DEF Me
  <2>3. ASSUME NEW n \in Nat, NEW s \in State
        PROVE  [s EXCEPT !.content = n] \in State /\ [s EXCEPT !.content = n].paused = s.paused
    BY DEF State
  <2> QED BY <2>1, <2>2, <2>3
<1>b. me = [old EXCEPT !.state = st]
  BY <1>2 DEF Me, State
<1> HIDE DEF st, me
<1>3. /\ me \in Me /\ me.at = old.at /\ me.state = st
      /\ me.artifact = old.artifact /\ me.asked = old.asked
      /\ me.queue = old.queue /\ me.renamed = old.renamed
      /\ me.transition = old.transition /\ me.waiting = old.waiting
  BY <1>2, <1>a, <1>b DEF Me
<1>4. HandleInv(jsonFile, h, me)
  BY <1>1, <1>2, <1>3, <1>a DEF HandleInv, Still, AskedLast, FileOf, HoldsAgree, Before
<1> QED BY <1>1, <1>2, <1>3, <1>4, OneHandle

\* A snapshot joins the queue outside a transition only, so it says what those
\* before it say of the hold.
LEMMA EnqueuedKeeps ==
  ASSUME NEW f, NEW h, NEW me \in Me, HandleInv(f, h, me), me.at = "open", Settled(me)
  PROVE  Enqueued(me) \in Me /\ HandleInv(f, h, Enqueued(me))
<1>1. CASE Skips(me)
  <2> DEFINE m2 == [me EXCEPT !.waiting = FALSE]
  <2>1. Enqueued(me) = m2
    BY <1>1 DEF Enqueued
  <2>2. /\ m2 \in Me /\ m2.at = me.at /\ m2.state = me.state
        /\ m2.artifact = me.artifact /\ m2.asked = me.asked
        /\ m2.queue = me.queue /\ m2.renamed = me.renamed
        /\ m2.transition = me.transition
    BY DEF Me
  <2> HIDE DEF m2
  <2>3. HandleInv(f, h, m2)
    BY <2>2 DEF HandleInv, Still, AskedLast, FileOf, HoldsAgree, Before
  <2> QED BY <2>1, <2>2, <2>3
<1>2. CASE ~Skips(me)
  <2> DEFINE q2 == Append(me.queue, me.state)
             m2 == [me EXCEPT !.queue = q2, !.asked = me.state, !.waiting = FALSE]
  <2>1. Enqueued(me) = m2
    BY <1>2 DEF Enqueued
  <2>2. me.queue \in Seq(State) /\ me.state \in State
    BY DEF Me
  <2>3. /\ q2 \in Seq(State) /\ q2 # <<>>
        /\ \A i \in DOMAIN q2 : i \in DOMAIN me.queue \/ i = Len(me.queue) + 1
        /\ \A i \in DOMAIN me.queue : q2[i] = me.queue[i]
        /\ q2[Len(me.queue) + 1] = me.state
        /\ Len(q2) = Len(me.queue) + 1
        /\ me.queue # <<>> => Head(q2) = Head(me.queue)
    BY <2>2, Appended
  <2> HIDE DEF q2
  <2>4. /\ m2 \in Me /\ m2.at = me.at /\ m2.state = me.state
        /\ m2.artifact = me.artifact /\ m2.asked = me.state
        /\ m2.queue = q2 /\ m2.renamed = me.renamed
        /\ m2.transition = "none"
    BY <2>2, <2>3 DEF Me, Settled
  <2> HIDE DEF m2
  <2>5. me.transition = "none" /\ HoldsAgree(me)
    BY DEF Settled, HandleInv
  <2>6. HoldsAgree(m2)
    <3>1. \A i \in DOMAIN q2 : q2[i].paused = me.state.paused
      BY <2>3, <2>5 DEF HoldsAgree
    <3> QED BY <2>4, <2>5, <3>1 DEF HoldsAgree
  <2>7. AskedLast(m2)
    BY <2>3, <2>4 DEF AskedLast, LastOr
  <2>8. FileOf(f, h, m2)
    BY <2>3, <2>4 DEF FileOf, HandleInv
  <2>9. m2.at = "open" /\ m2.queue # <<>>
    BY <2>3, <2>4
  <2> QED BY <2>1, <2>4, <2>6, <2>7, <2>8, <2>9 DEF HandleInv, Still
<1> QED BY <1>1, <1>2

LEMMA SaveKeeps ==
  ASSUME StoreInv, NEW h \in Writers, Save(h) \/ SaveGoesOn(h)
  PROVE  StoreInv'
<1> DEFINE old == handle[h]
<1>1. /\ old \in Me /\ HandleInv(jsonFile, h, old) /\ jsonFile \in File /\ contents \in Nat
      /\ jsonFile.readable \/ jsonFile.state = Empty
  BY DEF StoreInv, StoreTypeOK
<1>2. UNCHANGED <<jsonFile, contents>> /\ old.at = "open"
  BY <1>1 DEF Save, SaveGoesOn, JsonOpen, HandleInv, Still
<1>3. CASE Settled(old) /\ Put(h, Enqueued(old))
  <2> HIDE DEF old
  <2>1. Enqueued(old) \in Me /\ HandleInv(jsonFile, h, Enqueued(old))
    BY <1>1, <1>2, <1>3, EnqueuedKeeps
  <2> QED BY <1>1, <1>2, <1>3, <2>1, OneHandle
<1>4. CASE Put(h, [old EXCEPT !.waiting = TRUE])
  <2> DEFINE me == [old EXCEPT !.waiting = TRUE]
  <2> HIDE DEF old
  <2>1. /\ me \in Me /\ me.at = old.at /\ me.state = old.state
        /\ me.artifact = old.artifact /\ me.asked = old.asked
        /\ me.queue = old.queue /\ me.renamed = old.renamed
        /\ me.transition = old.transition
    BY <1>1 DEF Me
  <2>2. Put(h, me)
    BY <1>4
  <2> HIDE DEF me
  <2>3. HandleInv(jsonFile, h, me)
    BY <1>1, <1>2, <2>1 DEF HandleInv, Still, AskedLast, FileOf, HoldsAgree, Before
  <2> QED BY <1>1, <1>2, <2>1, <2>2, <2>3, OneHandle
<1> QED BY <1>3, <1>4 DEF Save, SaveGoesOn

\* A hold being set or lifted is the last write of the queue from then on.
LEMMA SetPausedKeeps ==
  ASSUME StoreInv, NEW h \in Writers, NEW hold \in BOOLEAN, SetJsonPaused(h, hold)
  PROVE  StoreInv'
<1> DEFINE old     == handle[h]
           written == [old.state EXCEPT !.paused = hold]
           q2      == Append(old.queue, written)
           turn    == IF hold THEN "hold" ELSE "clear"
           me      == [old EXCEPT !.transition = turn, !.state.paused = TRUE,
                                  !.queue = q2, !.asked = written]
<1>1. /\ old \in Me /\ HandleInv(jsonFile, h, old) /\ jsonFile \in File /\ contents \in Nat
      /\ jsonFile.readable \/ jsonFile.state = Empty
  BY DEF StoreInv, StoreTypeOK
<1>2. /\ UNCHANGED <<jsonFile, contents>> /\ old.at = "open" /\ Put(h, me)
      /\ old.transition = "none" /\ old.state.paused # hold
  BY DEF SetJsonPaused, JsonOpen
<1> HIDE DEF old
<1>3. old.queue \in Seq(State) /\ written \in State /\ written.paused = hold
  BY <1>1 DEF Me, State
<1> HIDE DEF written
<1>4. /\ q2 \in Seq(State) /\ q2 # <<>>
      /\ \A i \in DOMAIN q2 : i \in DOMAIN old.queue \/ i = Len(old.queue) + 1
      /\ \A i \in DOMAIN old.queue : i <= Len(old.queue) /\ q2[i] = old.queue[i]
      /\ q2[Len(old.queue) + 1] = written
      /\ Len(q2) = Len(old.queue) + 1 /\ Len(old.queue) \in Nat
      /\ old.queue # <<>> => Head(q2) = Head(old.queue)
  BY <1>3, Appended
<1>5. turn \in {"hold", "clear"} /\ (turn = "hold" <=> hold)
  OBVIOUS
<1> HIDE DEF q2, turn
<1>6. /\ me \in Me /\ me.at = old.at /\ me.state.paused = TRUE
      /\ me.artifact = old.artifact /\ me.asked = written
      /\ me.queue = q2 /\ me.renamed = old.renamed
      /\ me.transition = turn
  BY <1>1, <1>3, <1>4, <1>5 DEF Me, State
<1> HIDE DEF me
<1>7. old.state.paused = ~hold
  BY <1>1, <1>2 DEF Me, State
<1>8. /\ old.artifact.paused = ~hold
      /\ \A i \in DOMAIN old.queue : old.queue[i].paused = ~hold
  BY <1>1, <1>2, <1>7 DEF HandleInv, HoldsAgree
<1>9. HoldsAgree(me)
  <2>1. Before(me) = ~hold
    BY <1>5, <1>6 DEF Before
  <2>2. q2[Len(q2)].paused = hold
    BY <1>3, <1>4
  <2>3. ASSUME NEW i \in DOMAIN q2, i < Len(q2) PROVE q2[i].paused = ~hold
    <3>1. i \in DOMAIN old.queue
      BY <1>4, <2>3
    <3> QED BY <1>4, <1>8, <3>1
  <2> QED BY <1>4, <1>5, <1>6, <1>8, <2>1, <2>2, <2>3 DEF HoldsAgree
<1>10. AskedLast(me)
  BY <1>4, <1>6 DEF AskedLast, LastOr
<1>11. FileOf(jsonFile, h, me)
  <2>1. CASE old.renamed
    BY <1>1, <1>2, <1>4, <1>6, <2>1 DEF FileOf, HandleInv
  <2>2. CASE ~old.renamed
    BY <1>1, <1>2, <1>4, <1>6, <2>2 DEF FileOf, HandleInv
  <2> QED BY <2>1, <2>2
<1>12. HandleInv(jsonFile, h, me)
  BY <1>2, <1>4, <1>6, <1>9, <1>10, <1>11 DEF HandleInv, Still
<1> QED BY <1>1, <1>2, <1>6, <1>12, OneHandle

LEMMA WriteKeeps ==
  ASSUME StoreInv, NEW h \in Writers, Write(h)
  PROVE  StoreInv'
<1> DEFINE old == handle[h]
           me  == [old EXCEPT !.renamed = TRUE]
           f2  == [id |-> jsonFile.id + 1, by |-> h, state |-> Head(old.queue), readable |-> TRUE]
<1>1. /\ old \in Me /\ HandleInv(jsonFile, h, old) /\ jsonFile \in File /\ contents \in Nat
      /\ jsonFile.readable \/ jsonFile.state = Empty
  BY DEF StoreInv, StoreTypeOK
<1>2. contents' = contents /\ Put(h, me) /\ jsonFile' = f2 /\ old.queue # <<>> /\ ~old.renamed
  BY DEF Write
<1> HIDE DEF old
<1>3. Head(old.queue) \in State
  BY <1>1, <1>2, Tailed DEF Me
<1>4. f2 \in File /\ f2.by = h /\ f2.state = Head(old.queue) /\ f2.readable
  BY <1>1, <1>3 DEF File
<1> HIDE DEF f2
<1>5. /\ me \in Me /\ me.at = old.at /\ me.state = old.state
      /\ me.artifact = old.artifact /\ me.asked = old.asked
      /\ me.queue = old.queue /\ me.renamed
      /\ me.transition = old.transition /\ me.waiting = old.waiting
  BY <1>1 DEF Me
<1> HIDE DEF me
<1>6. old.at = "open"
  BY <1>1, <1>2 DEF HandleInv, Still
<1>7. HandleInv(f2, h, me)
  BY <1>1, <1>2, <1>4, <1>5, <1>6 DEF HandleInv, Still, AskedLast, FileOf, HoldsAgree, Before
<1> QED BY <1>1, <1>2, <1>4, <1>5, <1>7, OneHandle

\* The head of the queue is written or given up: those behind it still say what
\* they said of the hold, and with the last one a transition ends.
LEMMA HoldsGoOn ==
  ASSUME NEW me \in Me, me.queue # <<>>, HoldsAgree(me)
  PROVE  /\ ~Ends(me) /\ me.transition = "none" =>
              /\ Head(me.queue).paused = me.state.paused
              /\ \A i \in DOMAIN Tail(me.queue) : Tail(me.queue)[i].paused = me.state.paused
         /\ ~Ends(me) /\ me.transition # "none" =>
              /\ Tail(me.queue) # <<>>
              /\ Head(me.queue).paused = Before(me)
              /\ Tail(me.queue)[Len(Tail(me.queue))].paused = ~Before(me)
              /\ \A i \in DOMAIN Tail(me.queue) :
                   i < Len(Tail(me.queue)) => Tail(me.queue)[i].paused = Before(me)
         /\ Ends(me) => /\ Tail(me.queue) = <<>>
                        /\ Head(me.queue).paused = ~Before(me)
<1> DEFINE q == me.queue
           r == Tail(q)
<1>1. q \in Seq(State)
  BY DEF Me
<1>2. /\ r \in Seq(State) /\ Head(q) \in State /\ Head(q) = q[1]
      /\ Len(r) = Len(q) - 1 /\ Len(q) \in Nat \ {0} /\ 1 \in DOMAIN q
      /\ r = <<>> <=> Len(q) = 1
      /\ \A i \in DOMAIN r : i + 1 \in DOMAIN q /\ i \in Nat /\ r[i] = q[i + 1]
  BY <1>1, Tailed
<1>3. \A s \in Seq(State) : s # <<>> => Len(s) \in DOMAIN s /\ Len(s) \in Nat
  BY EmptySeq, LenProperties
<1> DEFINE n == Len(q)
<1>4. n = Len(me.queue)
  OBVIOUS
<1> HIDE DEF q, r, n
<1>5. ASSUME ~Ends(me), me.transition = "none"
      PROVE  Head(q).paused = me.state.paused /\ \A i \in DOMAIN r : r[i].paused = me.state.paused
  BY <1>2, <1>5 DEF HoldsAgree, q
<1>6. ASSUME ~Ends(me), me.transition # "none"
      PROVE  /\ r # <<>> /\ Head(q).paused = Before(me) /\ r[Len(r)].paused = ~Before(me)
             /\ \A i \in DOMAIN r : i < Len(r) => r[i].paused = Before(me)
  <2>1. n # 1 /\ r # <<>>
    BY <1>2, <1>6 DEF Ends, q, n
  <2>2. /\ q[n].paused = ~Before(me)
        /\ \A i \in DOMAIN q : i < n => q[i].paused = Before(me)
    BY <1>6 DEF HoldsAgree, q, n
  <2>3. Head(q).paused = Before(me)
    BY <1>2, <2>1, <2>2 DEF n
  <2>4. r[Len(r)] = q[n]
    <3>1. Len(r) \in DOMAIN r
      BY <1>2, <1>3, <2>1
    <3>2. Len(r) + 1 = n
      BY <1>2 DEF n
    <3> QED BY <1>2, <3>1, <3>2
  <2>5. ASSUME NEW i \in DOMAIN r, i < Len(r) PROVE r[i].paused = Before(me)
    <3>1. i + 1 \in DOMAIN q /\ i + 1 < n /\ r[i] = q[i + 1]
      BY <1>2, <2>5 DEF n
    <3> QED BY <2>2, <3>1
  <2> QED BY <2>1, <2>2, <2>3, <2>4, <2>5
<1>7. ASSUME Ends(me) PROVE r = <<>> /\ Head(q).paused = ~Before(me)
  <2>1. Len(q) = 1 /\ me.transition # "none"
    BY <1>7 DEF Ends, q
  <2> QED BY <1>2, <2>1 DEF HoldsAgree, q
<1> QED BY <1>5, <1>6, <1>7 DEF q, r

LEMMA WrittenKeeps ==
  ASSUME StoreInv, NEW h \in Writers, Written(h)
  PROVE  StoreInv'
<1> DEFINE old == handle[h]
           r   == Tail(old.queue)
           hd  == Head(old.queue)
           turn == IF Ends(old) THEN "none" ELSE old.transition
           held == IF Ends(old) THEN hd.paused ELSE old.state.paused
           st  == [old.state EXCEPT !.paused = held]
           me  == [old EXCEPT !.queue = r, !.renamed = FALSE, !.artifact = hd, !.stamp = jsonFile.id,
                              !.transition = turn, !.state = st]
<1>1. /\ old \in Me /\ HandleInv(jsonFile, h, old) /\ jsonFile \in File /\ contents \in Nat
      /\ jsonFile.readable \/ jsonFile.state = Empty
  BY DEF StoreInv, StoreTypeOK
<1>2. UNCHANGED <<jsonFile, contents>> /\ old.renamed
  BY DEF Written
<1>3. Put(h, me)
  BY <1>1 DEF Written, Put, Me, State
<1> HIDE DEF old
<1>4. old.queue # <<>> /\ old.at = "open" /\ old.queue \in Seq(State)
  BY <1>1, <1>2 DEF HandleInv, Still, Me
<1>5. /\ r \in Seq(State) /\ hd \in State /\ LastOr(r, hd) = LastOr(old.queue, old.artifact)
  BY <1>4, Tailed
<1>6. st \in State /\ st.paused = held
  <2>1. held \in BOOLEAN
    BY <1>1, <1>5 DEF Me, State
  <2>2. old.state \in State
    BY <1>1 DEF Me
  <2> HIDE DEF held
  <2> QED BY <2>1, <2>2 DEF State
<1>7. turn \in {"none", "hold", "clear"}
  BY <1>1 DEF Me
<1>8. HoldsAgree(old)
  BY <1>1, <1>4 DEF HandleInv
<1>9. jsonFile.by = h => jsonFile.state = hd
  BY <1>1, <1>2, <1>4 DEF HandleInv, FileOf
<1> HIDE DEF st
<1>10. /\ me \in Me /\ me.at = old.at /\ me.state = st
       /\ me.artifact = hd /\ me.asked = old.asked
       /\ me.queue = r /\ ~me.renamed /\ me.transition = turn /\ me.waiting = old.waiting
  BY <1>1, <1>5, <1>6, <1>7 DEF Me, File
<1> HIDE DEF me
<1>11. HoldsAgree(me)
  <2>1. CASE Ends(old)
    <3>1. r = <<>> /\ turn = "none" /\ held = hd.paused
      BY <1>4, <1>8, <2>1, HoldsGoOn, <1>1
    <3>2. DOMAIN r = {}
      BY <3>1
    <3> HIDE DEF r, hd, turn, held
    <3> QED BY <1>6, <1>10, <3>1, <3>2 DEF HoldsAgree
  <2>2. CASE ~Ends(old) /\ old.transition = "none"
    <3>1. /\ hd.paused = old.state.paused /\ turn = "none" /\ held = old.state.paused
          /\ \A i \in DOMAIN r : r[i].paused = old.state.paused
      BY <1>1, <1>4, <1>8, <2>2, HoldsGoOn
    <3> HIDE DEF r, hd, turn, held
    <3> QED BY <1>6, <1>10, <3>1 DEF HoldsAgree
  <2>3. CASE ~Ends(old) /\ old.transition # "none"
    <3>1. /\ hd.paused = Before(old) /\ turn = old.transition /\ held = old.state.paused
          /\ r # <<>> /\ r[Len(r)].paused = ~Before(old)
          /\ \A i \in DOMAIN r : i < Len(r) => r[i].paused = Before(old)
      BY <1>1, <1>4, <1>8, <2>3, HoldsGoOn
    <3>2. old.state.paused
      BY <1>8, <2>3 DEF HoldsAgree
    <3> HIDE DEF r, hd, turn, held
    <3> QED BY <1>6, <1>10, <2>3, <3>1, <3>2 DEF HoldsAgree, Before
  <2> QED BY <2>1, <2>2, <2>3
<1>12. AskedLast(me)
  BY <1>1, <1>5, <1>10 DEF AskedLast, HandleInv
<1>13. HandleInv(jsonFile, h, me)
  BY <1>4, <1>9, <1>10, <1>11, <1>12 DEF HandleInv, Still, FileOf
<1> QED BY <1>1, <1>2, <1>3, <1>10, <1>13, OneHandle

LEMMA WriteFailsKeeps ==
  ASSUME StoreInv, NEW h \in Writers, WriteFails(h)
  PROVE  StoreInv'
<1> DEFINE old == handle[h]
           r   == Tail(old.queue)
           turn == IF Ends(old) THEN "none" ELSE old.transition
           held == IF Ends(old) THEN old.transition = "clear" ELSE old.state.paused
           st  == [old.state EXCEPT !.paused = held]
           ask == IF Len(old.queue) = 1 THEN old.artifact ELSE old.asked
           me  == [old EXCEPT !.queue = r, !.transition = turn, !.state = st, !.asked = ask]
<1>1. /\ old \in Me /\ HandleInv(jsonFile, h, old) /\ jsonFile \in File /\ contents \in Nat
      /\ jsonFile.readable \/ jsonFile.state = Empty
  BY DEF StoreInv, StoreTypeOK
<1>2. UNCHANGED <<jsonFile, contents>> /\ ~old.renamed /\ old.queue # <<>>
  BY DEF WriteFails
<1>3. Put(h, me)
  BY <1>1 DEF WriteFails, Put, Me, State
<1> HIDE DEF old
<1>4. old.at = "open" /\ old.queue \in Seq(State)
  BY <1>1, <1>2 DEF HandleInv, Still, Me
<1>5. /\ r \in Seq(State) /\ LastOr(r, Head(old.queue)) = LastOr(old.queue, old.artifact)
      /\ r = <<>> <=> Len(old.queue) = 1
  BY <1>2, <1>4, Tailed
<1>6. st \in State /\ st.paused = held
  <2>1. held \in BOOLEAN
    BY <1>1 DEF Me, State
  <2>2. old.state \in State
    BY <1>1 DEF Me
  <2> HIDE DEF held
  <2> QED BY <2>1, <2>2 DEF State
<1>7. turn \in {"none", "hold", "clear"} /\ ask \in State
  BY <1>1 DEF Me
<1>8. HoldsAgree(old)
  BY <1>1, <1>4 DEF HandleInv
<1> HIDE DEF st
<1>10. /\ me \in Me /\ me.at = old.at /\ me.state = st
       /\ me.artifact = old.artifact /\ me.asked = ask
       /\ me.queue = r /\ me.renamed = old.renamed /\ me.transition = turn /\ me.waiting = old.waiting
  BY <1>1, <1>5, <1>6, <1>7 DEF Me
<1> HIDE DEF me
<1>11. HoldsAgree(me)
  <2>1. CASE Ends(old)
    <3>1. r = <<>> /\ turn = "none" /\ held = (old.transition = "clear")
      BY <1>2, <1>4, <1>8, <2>1, HoldsGoOn, <1>1
    <3>2. old.artifact.paused = (old.transition = "clear")
      <4>1. old.transition \in {"hold", "clear"} /\ old.artifact.paused = Before(old)
        BY <1>1, <1>8, <2>1 DEF HoldsAgree, Ends, Me
      <4> QED BY <4>1 DEF Before
    <3>3. DOMAIN r = {}
      BY <3>1
    <3> HIDE DEF r, turn, held
    <3> QED BY <1>6, <1>10, <3>1, <3>2, <3>3 DEF HoldsAgree
  <2>2. CASE ~Ends(old) /\ old.transition = "none"
    <3>1. /\ turn = "none" /\ held = old.state.paused
          /\ \A i \in DOMAIN r : r[i].paused = old.state.paused
      BY <1>1, <1>2, <1>4, <1>8, <2>2, HoldsGoOn
    <3> HIDE DEF r, turn, held
    <3> QED BY <1>6, <1>8, <1>10, <2>2, <3>1 DEF HoldsAgree
  <2>3. CASE ~Ends(old) /\ old.transition # "none"
    <3>1. /\ turn = old.transition /\ held = old.state.paused
          /\ r # <<>> /\ r[Len(r)].paused = ~Before(old)
          /\ \A i \in DOMAIN r : i < Len(r) => r[i].paused = Before(old)
      BY <1>1, <1>2, <1>4, <1>8, <2>3, HoldsGoOn
    <3>2. old.state.paused /\ old.artifact.paused = Before(old)
      BY <1>8, <2>3 DEF HoldsAgree
    <3> HIDE DEF r, turn, held
    <3> QED BY <1>6, <1>10, <2>3, <3>1, <3>2 DEF HoldsAgree, Before
  <2> QED BY <2>1, <2>2, <2>3
<1>12. AskedLast(me)
  <2>1. CASE Len(old.queue) = 1
    BY <1>5, <1>10, <2>1 DEF AskedLast, LastOr
  <2>2. CASE Len(old.queue) # 1
    BY <1>1, <1>5, <1>10, <2>2 DEF AskedLast, HandleInv, LastOr
  <2> QED BY <2>1, <2>2
<1>13. FileOf(jsonFile, h, me)
  BY <1>1, <1>2, <1>4, <1>10 DEF HandleInv, FileOf
<1>14. HandleInv(jsonFile, h, me)
  BY <1>2, <1>4, <1>10, <1>11, <1>12, <1>13 DEF HandleInv, Still
<1> QED BY <1>1, <1>2, <1>3, <1>10, <1>14, OneHandle

-----------------------------------------------------------------------------

LEMMA StoreInvKept == StoreInv /\ [JsonNext]_jsonVars => StoreInv'
<1> SUFFICES ASSUME StoreInv, [JsonNext]_jsonVars PROVE StoreInv'
  OBVIOUS
<1>1. CASE UNCHANGED jsonVars
  BY <1>1 DEF jsonVars, StoreInv, StoreTypeOK
<1>2. ASSUME NEW h \in Writers, Load(h) \/ JsonLoaded(h) \/ CloseJson(h) \/ CrashJson(h) PROVE StoreInv'
  BY <1>2, LoadKeeps
<1>3. ASSUME NEW h \in Writers, Index(h) PROVE StoreInv'
  BY <1>3, IndexKeeps
<1>4. ASSUME NEW h \in Writers, Save(h) \/ SaveGoesOn(h) PROVE StoreInv'
  BY <1>4, SaveKeeps
<1>5. ASSUME NEW h \in Writers, NEW hold \in BOOLEAN, SetJsonPaused(h, hold) PROVE StoreInv'
  BY <1>5, SetPausedKeeps
<1>6. ASSUME NEW h \in Writers, Write(h) PROVE StoreInv'
  BY <1>6, WriteKeeps
<1>7. ASSUME NEW h \in Writers, Written(h) PROVE StoreInv'
  BY <1>7, WrittenKeeps
<1>8. ASSUME NEW h \in Writers, WriteFails(h) PROVE StoreInv'
  BY <1>8, WriteFailsKeeps
<1> QED BY <1>1, <1>2, <1>3, <1>4, <1>5, <1>6, <1>7, <1>8 DEF JsonNext

LEMMA InitStoreInv == JsonInit => StoreInv
<1> SUFFICES ASSUME JsonInit PROVE StoreInv
  OBVIOUS
<1>1. Empty \in State /\ <<>> \in Seq(State)
  BY DEF Empty, State
<1>2. Closed \in Me
  BY <1>1 DEF Closed, Me
<1>3. jsonFile \in File /\ jsonFile.state = Empty
  BY <1>1 DEF JsonInit, File
<1>4. ASSUME NEW h PROVE HandleInv(jsonFile, h, Closed)
  BY DEF Closed, HandleInv, Still, AskedLast, LastOr, FileOf
<1> QED BY <1>2, <1>3, <1>4 DEF JsonInit, StoreInv, StoreTypeOK

\* Once a handle has nothing left to write, the file it wrote last holds the
\* last state it was asked to write and the hold it is under, whatever was
\* queued, failed, died or was replaced meanwhile (index-manager.ts:3537).
THEOREM LastAskedHolds == JsonSpec => []LastAskedIsWritten
<1>1. StoreInv => LastAskedIsWritten
  <2> SUFFICES ASSUME StoreInv, NEW h \in Writers, JsonOpen(h), handle[h].queue = <<>>,
                      handle[h].transition = "none", jsonFile.by = h
               PROVE  /\ jsonFile.state = handle[h].asked
                      /\ jsonFile.state.paused = handle[h].state.paused
    BY DEF LastAskedIsWritten
  <2> DEFINE me == handle[h]
  <2>1. HandleInv(jsonFile, h, me) /\ me.at = "open" /\ me.queue = <<>> /\ me.transition = "none"
    BY DEF StoreInv, JsonOpen
  <2> HIDE DEF me
  <2>2. jsonFile.state = me.artifact /\ me.asked = me.artifact
    BY <2>1 DEF HandleInv, FileOf, AskedLast, LastOr
  <2>3. me.artifact.paused = me.state.paused
    BY <2>1 DEF HandleInv, HoldsAgree
  <2> QED BY <2>2, <2>3 DEF me
<1> QED BY <1>1, InitStoreInv, StoreInvKept, PTL DEF JsonSpec
=============================================================================
