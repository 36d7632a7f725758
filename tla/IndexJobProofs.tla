--------------------------- MODULE IndexJobProofs ---------------------------
(***************************************************************************)
(* What the index jobs promise for every library, page size, cap and API,  *)
(* and for any number of changes and faults.                               *)
(***************************************************************************)
EXTENDS IndexJob, FiniteSetTheorems, FunctionTheorems, TLAPS

\* A running job has been assigned the API it reads.
JobServed == job.kind # "idle" => job.backend \in Backends

TypeInv == TypeOK /\ JobServed

-----------------------------------------------------------------------------
(* Types of what the actions are built from.                               *)

LEMMA NoJobType == NoJob \in Job
BY DEF NoJob, Job, Phase

LEMMA ResetType ==
  ASSUME NEW idx \in Index
  PROVE  Reset(idx) \in Index
BY DEF Reset, EmptyIndex, Index

LEMMA HeldType ==
  ASSUME NEW idx \in Index
  PROVE  Held(idx) \subseteq Items /\ Missing(idx) \subseteq Items
BY DEF Held, Missing

LEMMA VersionOfType ==
  ASSUME NEW b \in Backends, NEW t \in Nat
  PROVE  VersionOf(b, t) \in Nat
BY ConstantsAssumption DEF VersionOf

LEMMA NoteCheckpointType ==
  ASSUME NEW j \in Job, j.backend \in Backends
  PROVE  NoteCheckpoint(j) \in Checkpoint
BY DEF NoteCheckpoint, Job, Checkpoint

LEMMA AtHeadType ==
  ASSUME NEW j \in Job
  PROVE  /\ AtHead(j) \in Job
         /\ AtHead(j).kind = j.kind
         /\ AtHead(j).backend = j.backend
BY DEF AtHead, Job, Phase

LEMMA FiniteCount ==
  ASSUME NEW S \in SUBSET Items
  PROVE  Cardinality(S) \in Nat
BY ConstantsAssumption, FS_Subset, FS_CardinalityType

LEMMA PageType ==
  ASSUME NEW S \in SUBSET Items, NEW from \in Nat, NEW size \in Nat,
         mver \in [Items -> Nat]
  PROVE  /\ Page(S, from, size) \in SUBSET Entry
         /\ Cardinality(Page(S, from, size)) \in Nat
<1> DEFINE P == {k \in S : from <= Rank(S, k) /\ Rank(S, k) < from + size}
<1>1. \A i \in S : Rank(S, i) \in Nat
  <2> TAKE i \in S
  <2>1. {k \in S : mver[k] > mver[i]} \in SUBSET Items
    OBVIOUS
  <2> QED BY <2>1, FiniteCount DEF Rank
<1>2. Page(S, from, size) = {[pos |-> Rank(S, i), key |-> i, ver |-> mver[i]] : i \in P}
  BY DEF Page
<1>3. Page(S, from, size) \in SUBSET Entry
  <2> SUFFICES ASSUME NEW i \in P
               PROVE  [pos |-> Rank(S, i), key |-> i, ver |-> mver[i]] \in Entry
    BY <1>2
  <2>1. i \in S /\ i \in Items /\ mver[i] \in Nat
    OBVIOUS
  <2>2. Rank(S, i) \in Nat
    BY <1>1, <2>1
  <2> QED BY <2>1, <2>2 DEF Entry
<1>4. IsFiniteSet(P)
  <2>1. P \subseteq Items
    OBVIOUS
  <2> QED BY <2>1, ConstantsAssumption, FS_Subset
<1>5. IsFiniteSet(Page(S, from, size))
  <2> DEFINE Q == Page(S, from, size)
             f == [i \in P |-> [pos |-> Rank(S, i), key |-> i, ver |-> mver[i]]]
  <2>1. f \in [P -> Q] /\ \A e \in Q : \E i \in P : f[i] = e
    BY <1>2
  <2>2. f \in Surjection(P, Q)
    BY <2>1 DEF Surjection
  <2> HIDE DEF P, Q, f
  <2>3. IsFiniteSet(Q)
    BY <2>2, <1>4, FS_Surjection
  <2> QED BY <2>3 DEF Q
<1> QED BY <1>3, <1>5, FS_CardinalityType

-----------------------------------------------------------------------------
(* Every action keeps the types.                                           *)

LEMMA LibraryTypes ==
  ASSUME TypeInv, NEW i \in Items, Modify(i) \/ Remove(i)
  PROVE  TypeInv'
BY DEF TypeInv, TypeOK, JobServed, Modify, Remove, libraryVars

LEMMA PersistType ==
  ASSUME NEW idx \in Index, Persist(idx), disk \in Index, faults \in Nat
  PROVE  disk' \in Index /\ faults' \in Nat
BY DEF Persist, Fault

LEMMA FaultType ==
  ASSUME Fault, faults \in Nat
  PROVE  faults' \in Nat
BY DEF Fault

LEMMA StartBuildTypes ==
  ASSUME TypeInv, NEW b \in Backends, NEW fresh \in BOOLEAN, StartBuild(b, fresh)
  PROVE  TypeInv'
<1> DEFINE new == [NoJob EXCEPT !.kind = "build", !.backend = b, !.startedAt = clock]
           cp == mem.checkpoint
           res == [new EXCEPT !.resumed = TRUE, !.unverified = TRUE,
                              !.start = cp.crawlOffset,
                              !.itemsAvailable = cp.itemsAvailable,
                              !.crawlVersion = cp.crawlVersion,
                              !.known = Held(mem),
                              !.pending = cp.pending \cap Held(mem)]
<1>1. clock \in Nat /\ mem \in Index /\ disk \in Index /\ faults \in Nat
  BY DEF TypeInv, TypeOK
<1>2. new \in Job /\ new.kind = "build" /\ new.backend = b
  BY <1>1 DEF NoJob, Job, Phase
<1>3. CASE CanResume(fresh) /\ job' = AtHead(res) /\ UNCHANGED mem
  <2>1. cp \in Checkpoint
    BY <1>1, <1>3 DEF CanResume, Index
  <2>2. res \in Job /\ res.kind = "build" /\ res.backend = b
    <3>1. Held(mem) \in SUBSET Items
      BY <1>1, HeldType
    <3>2. /\ cp.crawlOffset \in Nat /\ cp.itemsAvailable \in Nat
          /\ cp.crawlVersion \in Nat
      BY <2>1 DEF Checkpoint
    <3> HIDE DEF cp
    <3> QED BY <1>1, <3>1, <3>2 DEF NoJob, Job, Phase
  <2> HIDE DEF res, cp, new
  <2>3. job' \in Job /\ job'.backend = b
    BY <1>3, <2>2, AtHeadType
  <2>4. mem' \in Index /\ disk' \in Index /\ faults' \in Nat
    BY <1>1, <1>3 DEF StartBuild, OpenTransactionCommitted
  <2> QED BY <2>3, <2>4 DEF TypeInv, TypeOK, JobServed, StartBuild, LibraryUnchanged, libraryVars
<1>4. CASE job' = AtHead(new) /\ mem' = Reset(mem)
  <2> HIDE DEF new
  <2>3. job' \in Job /\ job'.backend = b
    BY <1>4, <1>2, AtHeadType
  <2>4. mem' \in Index /\ disk' \in Index /\ faults' \in Nat
    BY <1>1, <1>4, ResetType DEF StartBuild, OpenTransactionCommitted
  <2> QED BY <2>3, <2>4 DEF TypeInv, TypeOK, JobServed, StartBuild, LibraryUnchanged, libraryVars
<1> QED BY <1>3, <1>4 DEF StartBuild

(* Most steps of a job keep its kind and its API; what they change is in   *)
(* their conclusion.                                                       *)
LEMMA JobStepTypes ==
  ASSUME TypeInv, LibraryUnchanged, mem' \in Index, disk' \in Index, faults' \in Nat,
         job' \in Job,
         job'.kind # "idle" => job.kind # "idle" /\ job'.backend = job.backend
  PROVE  TypeInv'
BY DEF TypeInv, TypeOK, JobServed, LibraryUnchanged, libraryVars

LEMMA RecrawlTypes ==
  ASSUME TypeInv, RecrawlFromTop
  PROVE  TypeInv'
<1> DEFINE j == [job EXCEPT !.unverified = FALSE, !.start = 0, !.itemsAvailable = 0]
<1>1. job \in Job /\ job.kind = "build" /\ job' = AtHead(j)
  BY DEF TypeInv, TypeOK, RecrawlFromTop, Fetching
<1>2. j \in Job /\ j.kind = job.kind /\ j.backend = job.backend
  BY <1>1 DEF Job
<1> HIDE DEF j
<1>3. job' \in Job /\ job'.backend = job.backend
  BY <1>1, <1>2, AtHeadType
<1>4. LibraryUnchanged /\ mem' \in Index /\ disk' \in Index /\ faults' \in Nat
  BY DEF TypeInv, TypeOK, RecrawlFromTop
<1> QED BY <1>1, <1>3, <1>4, JobStepTypes

LEMMA CrawlVersionType ==
  ASSUME TypeInv, job.kind # "idle"
  PROVE  CrawlVersion(job) \in Nat
BY VersionOfType DEF TypeInv, TypeOK, JobServed, CrawlVersion, Job

LEMMA ReadPageTypes ==
  ASSUME TypeInv, ReadPage
  PROVE  TypeInv'
<1> DEFINE batch == Page(live, job.start, PageSize)
           v == CrawlVersion(job)
           n == Cardinality(live)
           seen == [job EXCEPT !.unverified = FALSE, !.crawlVersion = v]
<1>1. job \in Job /\ job.kind = "build"
  BY DEF TypeInv, TypeOK, ReadPage, Fetching
<1>2. v \in Nat
  BY <1>1, CrawlVersionType
<1>3. n \in Nat
  BY FiniteCount DEF TypeInv, TypeOK
<1>4. batch \in SUBSET Entry
  BY <1>1, PageType, ConstantsAssumption DEF TypeInv, TypeOK, Job
<1>5. \/ job' = [seen EXCEPT !.pc = "drain"]
      \/ job' = [seen EXCEPT !.pc = "items", !.batch = batch, !.consumed = 0,
                             !.total = n, !.itemsAvailable = IF @ = 0 THEN n ELSE @]
  BY DEF ReadPage
<1>6. job' \in Job /\ job'.backend = job.backend
  <2>1. seen \in Job /\ seen.backend = job.backend
    <3> HIDE DEF v
    <3> QED BY <1>1, <1>2 DEF Job
  <2> HIDE DEF batch, v, n, seen
  <2>2. CASE job' = [seen EXCEPT !.pc = "drain"]
    BY <2>1, <2>2 DEF Job, Phase
  <2>3. CASE job' = [seen EXCEPT !.pc = "items", !.batch = batch, !.consumed = 0,
                                 !.total = n, !.itemsAvailable = IF @ = 0 THEN n ELSE @]
    <3>1. (IF seen.itemsAvailable = 0 THEN n ELSE seen.itemsAvailable) \in Nat
      BY <1>3, <2>1 DEF Job
    <3>2. job' = [seen EXCEPT !.pc = "items", !.batch = batch, !.consumed = 0, !.total = n,
                              !.itemsAvailable = IF seen.itemsAvailable = 0 THEN n
                                                 ELSE seen.itemsAvailable]
      BY <2>1, <2>3 DEF Job
    <3> QED BY <1>3, <1>4, <2>1, <3>1, <3>2 DEF Job, Phase
  <2> QED BY <1>5, <2>2, <2>3
<1>7. LibraryUnchanged /\ mem' \in Index /\ disk' \in Index /\ faults' \in Nat
  BY DEF TypeInv, TypeOK, ReadPage
<1> QED BY <1>1, <1>6, <1>7, JobStepTypes

LEMMA IndexItemTypes ==
  ASSUME TypeInv, IndexItem
  PROVE  TypeInv'
<1>1. job \in Job /\ job.kind = "build" /\ mem \in Index
  BY DEF TypeInv, TypeOK, IndexItem
<1>2. PICK e \in job.batch :
        \/ job' = [job EXCEPT !.consumed = @ + 1] /\ mem' = mem
        \/ /\ job' = [job EXCEPT !.consumed = @ + 1,
                                !.indexed = @ \cup {e.key},
                                !.pending = IF job.embedderError THEN @
                                            ELSE @ \cup {e.key}]
           /\ mem' = [mem EXCEPT !.rows[e.key] = e.ver]
  BY DEF IndexItem
<1>3. e.key \in Items /\ e.ver \in Nat
  BY <1>1 DEF Job, Entry
<1>4. job' \in Job /\ job'.backend = job.backend
  <2>1. job.consumed + 1 \in Nat
    BY <1>1 DEF Job
  <2>2. CASE job' = [job EXCEPT !.consumed = @ + 1]
    BY <1>1, <2>1, <2>2 DEF Job
  <2>3. CASE job' = [job EXCEPT !.consumed = @ + 1, !.indexed = @ \cup {e.key},
                                !.pending = IF job.embedderError THEN @
                                            ELSE @ \cup {e.key}]
    <3> DEFINE p == IF job.embedderError THEN job.pending ELSE job.pending \cup {e.key}
               i == job.indexed \cup {e.key}
    <3>1. p \in SUBSET Items /\ i \in SUBSET Items
      BY <1>1, <1>3 DEF Job
    <3>2. job' = [job EXCEPT !.consumed = job.consumed + 1, !.indexed = i, !.pending = p]
      BY <1>1, <2>3 DEF Job
    <3> HIDE DEF p, i
    <3> QED BY <1>1, <2>1, <3>1, <3>2 DEF Job
  <2> QED BY <1>2, <2>2, <2>3
<1>5. mem' \in Index
  BY <1>1, <1>2, <1>3 DEF Index
<1>6. LibraryUnchanged /\ disk' \in Index /\ faults' \in Nat
  BY DEF TypeInv, TypeOK, IndexItem
<1> QED BY <1>1, <1>4, <1>5, <1>6, JobStepTypes

LEMMA EndPageTypes ==
  ASSUME TypeInv, EndPage
  PROVE  TypeInv'
<1>1. job \in Job /\ job.kind = "build"
  BY DEF TypeInv, TypeOK, EndPage
<1>2. Advance(job) \in Nat
  BY <1>1 DEF Advance, Job
<1>3. job' \in Job /\ job'.backend = job.backend
  BY <1>1, <1>2 DEF EndPage, Job, Phase
<1>4. LibraryUnchanged /\ mem' \in Index /\ disk' \in Index /\ faults' \in Nat
  BY DEF TypeInv, TypeOK, EndPage
<1> QED BY <1>1, <1>3, <1>4, JobStepTypes

\* A batch of what waits to be embedded; a build's queue or an update's.
LEMMA EmbedTypes ==
  ASSUME TypeInv, EmbedBatch \/ EmbedDeferred
  PROVE  TypeInv'
<1>1. job \in Job /\ job.kind # "idle" /\ mem \in Index /\ disk \in Index
  BY DEF TypeInv, TypeOK, EmbedBatch, EmbedDeferred
<1>2. PICK b \in SUBSET job.pending :
        /\ mem' = [mem EXCEPT !.vectors = @ \cup b]
        /\ job' = [job EXCEPT !.pending = @ \ b]
  BY DEF EmbedBatch, EmbedDeferred
<1>3. mem' \in Index
  BY <1>1, <1>2 DEF Index, Job
<1>4. job' \in Job /\ job'.backend = job.backend
  BY <1>1, <1>2 DEF Job
<1>5. LibraryUnchanged /\ disk' \in Index /\ faults' \in Nat
  BY <1>1 DEF TypeInv, TypeOK, EmbedBatch, EmbedDeferred, YieldWriteLock
<1> QED BY <1>1, <1>3, <1>4, <1>5, JobStepTypes

LEMMA EmbedFailsTypes ==
  ASSUME TypeInv, EmbedFails \/ DeferredFails
  PROVE  TypeInv'
<1>1. job \in Job /\ job.kind # "idle" /\ mem \in Index /\ disk \in Index
  BY DEF TypeInv, TypeOK, EmbedFails, DeferredFails
<1>2. job' = [job EXCEPT !.embedderError = TRUE, !.pending = {}]
  BY DEF EmbedFails, DeferredFails
<1>3. job' \in Job /\ job'.backend = job.backend
  BY <1>1, <1>2 DEF Job
<1>4. LibraryUnchanged /\ mem' \in Index /\ disk' \in Index /\ faults' \in Nat
  BY <1>1, FaultType DEF TypeInv, TypeOK, EmbedFails, DeferredFails, YieldWriteLock
<1> QED BY <1>1, <1>3, <1>4, JobStepTypes

LEMMA WithCheckpointType ==
  ASSUME NEW idx \in Index, NEW j \in Job, j.backend \in Backends
  PROVE  [idx EXCEPT !.checkpoint = NoteCheckpoint(j)] \in Index
<1>1. NoteCheckpoint(j) \in Checkpoint
  BY NoteCheckpointType
<1> QED BY <1>1 DEF Index

LEMMA MaybePersistTypes ==
  ASSUME TypeInv, MaybePersist
  PROVE  TypeInv'
<1>1. job \in Job /\ job.kind = "build" /\ job.backend \in Backends
  BY DEF TypeInv, TypeOK, JobServed, MaybePersist
<1>2. mem \in Index /\ disk \in Index /\ faults \in Nat
  BY DEF TypeInv, TypeOK
<1>3. job' \in Job /\ job'.backend = job.backend
  <2>1. [job EXCEPT !.pc = "drain"] \in Job /\ AtHead(job) \in Job
    BY <1>1, AtHeadType DEF Job, Phase
  <2> QED BY <1>1, <2>1, AtHeadType DEF MaybePersist, Job
<1>4. mem' \in Index
  BY <1>1, <1>2, WithCheckpointType DEF MaybePersist
<1>5. disk' \in Index /\ faults' \in Nat
  BY <1>2, <1>4, PersistType DEF MaybePersist
<1>6. LibraryUnchanged
  BY DEF MaybePersist
<1> QED BY <1>1, <1>3, <1>4, <1>5, <1>6, JobStepTypes

LEMMA EndCrawlTypes ==
  ASSUME TypeInv, EndCrawl
  PROVE  TypeInv'
<1>1. job \in Job /\ job.kind = "build" /\ job.backend \in Backends
  BY DEF TypeInv, TypeOK, JobServed, EndCrawl
<1>2. mem \in Index /\ disk \in Index /\ faults \in Nat
  BY DEF TypeInv, TypeOK
<1>3. job' \in Job /\ job'.backend = job.backend
  BY <1>1 DEF EndCrawl, Job, Phase
<1>4. mem' \in Index
  BY <1>1, <1>2, WithCheckpointType DEF EndCrawl
<1>5. disk' \in Index /\ faults' \in Nat
  BY <1>2, <1>4, PersistType DEF EndCrawl
<1>6. LibraryUnchanged
  BY DEF EndCrawl
<1> QED BY <1>1, <1>3, <1>4, <1>5, <1>6, JobStepTypes

LEMMA BackfillTypes ==
  ASSUME TypeInv, BackfillBatch \/ BackfillDone
  PROVE  TypeInv'
<1>1. job \in Job /\ job.kind = "build" /\ job.backend \in Backends
  BY DEF TypeInv, TypeOK, JobServed, BackfillBatch, BackfillDone
<1>2. mem \in Index /\ disk \in Index /\ faults \in Nat
  BY DEF TypeInv, TypeOK
<1>3. CASE BackfillBatch
  <2>1. PICK b \in SUBSET Missing(mem) :
          LET filled == [mem EXCEPT !.vectors = @ \cup b] IN
          \/ mem' = filled /\ YieldWriteLock /\ UNCHANGED faults
          \/ /\ mem' = [filled EXCEPT !.checkpoint = NoteCheckpoint(job)]
             /\ Persist(mem')
    BY <1>3 DEF BackfillBatch
  <2>2. b \in SUBSET Items
    BY <1>2, HeldType
  <2> DEFINE filled == [mem EXCEPT !.vectors = @ \cup b]
  <2>3. filled \in Index
    BY <1>2, <2>2 DEF Index
  <2> HIDE DEF filled
  <2>4. mem' \in Index
    BY <1>1, <2>1, <2>3, WithCheckpointType DEF filled
  <2>5. disk' \in Index /\ faults' \in Nat
    BY <1>2, <2>1, <2>4, PersistType DEF YieldWriteLock
  <2>6. LibraryUnchanged /\ job' = job
    BY <1>3 DEF BackfillBatch
  <2> QED BY <1>1, <2>4, <2>5, <2>6, JobStepTypes
<1>4. CASE BackfillDone
  <2>1. job' \in Job /\ job'.backend = job.backend
    BY <1>1, <1>4 DEF BackfillDone, Job, Phase
  <2>2. LibraryUnchanged /\ mem' = mem /\ disk' = disk /\ faults' = faults
    BY <1>4 DEF BackfillDone
  <2> QED BY <1>1, <1>2, <2>1, <2>2, JobStepTypes
<1> QED BY <1>3, <1>4

LEMMA StampedType ==
  ASSUME NEW idx \in Index, NEW j \in Job, j.backend \in Backends
  PROVE  Stamped(idx, j) \in Index
BY DEF Stamped, Index, Job

LEMMA FinishBuildTypes ==
  ASSUME TypeInv, FinishBuild
  PROVE  TypeInv'
<1>1. job \in Job /\ job.kind = "build" /\ job.backend \in Backends
  BY DEF TypeInv, TypeOK, JobServed, FinishBuild
<1>2. mem \in Index /\ disk \in Index /\ faults \in Nat
  BY DEF TypeInv, TypeOK
<1> DEFINE st == IF EarnsStamp(job) THEN Stamped(mem, job) ELSE mem
           cp == IF StaysResumable(job) THEN NoteCheckpoint(job) ELSE None
<1>3. st \in Index /\ cp \in Checkpoint \cup {None}
  BY <1>1, <1>2, StampedType, NoteCheckpointType
<1>4. mem' = [st EXCEPT !.checkpoint = cp] /\ Persist(mem')
  BY DEF FinishBuild
<1> HIDE DEF st, cp
<1>5. mem' \in Index
  BY <1>3, <1>4 DEF Index
<1>6. disk' \in Index /\ faults' \in Nat
  BY <1>2, <1>4, <1>5, PersistType
<1>7. job' \in Job /\ job'.kind = "idle" /\ LibraryUnchanged
  BY NoJobType DEF FinishBuild, NoJob
<1> QED BY <1>5, <1>6, <1>7, JobStepTypes

LEMMA BuildFailsTypes ==
  ASSUME TypeInv, BuildFails
  PROVE  TypeInv'
<1>1. job \in Job /\ job.kind = "build" /\ job.backend \in Backends
  BY DEF TypeInv, TypeOK, JobServed, BuildFails
<1>2. mem \in Index /\ disk \in Index /\ faults \in Nat
  BY DEF TypeInv, TypeOK
<1>3. mem' \in Index
  BY <1>1, <1>2, WithCheckpointType DEF BuildFails
<1>4. disk' \in Index /\ faults' \in Nat
  BY <1>2, <1>3, FaultType DEF BuildFails
<1>5. job' \in Job /\ job'.kind = "idle" /\ LibraryUnchanged
  BY NoJobType DEF BuildFails, NoJob
<1> QED BY <1>3, <1>4, <1>5, JobStepTypes

LEMMA StartUpdateTypes ==
  ASSUME TypeInv, NEW b \in Backends, StartUpdate(b)
  PROVE  TypeInv'
<1>1. mem \in Index /\ faults \in Nat /\ clock \in Nat
  BY DEF TypeInv, TypeOK
<1>2. Held(mem) \in SUBSET Items
  BY <1>1, HeldType
<1>3. job' = [NoJob EXCEPT !.kind = "update", !.pc = "fetch", !.backend = b,
                           !.known = Held(mem), !.startedAt = clock]
  BY DEF StartUpdate
<1>4. job' \in Job /\ job'.backend = b
  BY <1>1, <1>2, <1>3 DEF NoJob, Job, Phase
<1>5. mem' = mem /\ disk' = mem /\ faults' = faults /\ LibraryUnchanged
  BY DEF StartUpdate, OpenTransactionCommitted
<1> QED BY <1>1, <1>4, <1>5 DEF TypeInv, TypeOK, JobServed, LibraryUnchanged, libraryVars

LEMMA UpdatePageTypes ==
  ASSUME TypeInv, UpdatePage
  PROVE  TypeInv'
<1> DEFINE delta == ChangedSince(job.backend, mem.libraryVersion)
           batch == Page(delta, job.start, PageSize)
           taken == Admitted(job, batch)
           keys  == {e.key : e \in taken}
           next  == job.start + Cardinality(batch)
           v     == CrawlVersion(job)
           rows  == [i \in Items |-> IF i \in keys
                                    THEN (CHOOSE e \in taken : e.key = i).ver
                                    ELSE mem.rows[i]]
<1>1. job \in Job /\ job.kind = "update" /\ mem \in Index
  BY DEF TypeInv, TypeOK, UpdatePage, Fetching
<1>2. batch \in SUBSET Entry /\ next \in Nat
  <2>1. delta \in SUBSET Items
    BY DEF ChangedSince, TypeInv, TypeOK
  <2> HIDE DEF delta
  <2>2. batch \in SUBSET Entry /\ Cardinality(batch) \in Nat
    BY <1>1, <2>1, PageType, ConstantsAssumption DEF TypeInv, TypeOK, Job
  <2> HIDE DEF batch
  <2> QED BY <1>1, <2>2 DEF Job
<1>3. taken \in SUBSET batch
  BY DEF Admitted
<1>4. keys \in SUBSET Items /\ rows \in [Items -> Nat]
  <2>1. \A e \in taken : e.key \in Items /\ e.ver \in Nat
    BY <1>2, <1>3 DEF Entry
  <2>2. mem.rows \in [Items -> Nat]
    BY <1>1 DEF Index
  <2> HIDE DEF taken
  <2>3. keys \in SUBSET Items
    BY <2>1
  <2>4. \A i \in keys : (CHOOSE e \in taken : e.key = i).ver \in Nat
    BY <2>1
  <2> QED BY <2>2, <2>3, <2>4
<1>5. v \in Nat
  BY <1>1, CrawlVersionType
<1>6. /\ mem' = [mem EXCEPT !.rows = rows, !.vectors = @ \ keys]
      /\ \/ job' = [[job EXCEPT !.crawlVersion = v]
                     EXCEPT !.pc = "live", !.start = 0, !.known = @ \cup keys,
                            !.pending = @ \cup keys]
         \/ job' = [[job EXCEPT !.crawlVersion = v]
                     EXCEPT !.start = next, !.known = @ \cup keys,
                            !.pending = @ \cup keys]
  BY <1>1 DEF UpdatePage, Index
<1> HIDE DEF delta, batch, taken, keys, next, v, rows
<1>7. mem' \in Index
  BY <1>1, <1>4, <1>6 DEF Index
<1>8. job' \in Job /\ job'.backend = job.backend
  <2> DEFINE seen == [job EXCEPT !.crawlVersion = v]
  <2>1. seen \in Job /\ seen.backend = job.backend
    BY <1>1, <1>5 DEF Job
  <2>2. seen.known \cup keys \in SUBSET Items /\ seen.pending \cup keys \in SUBSET Items
    BY <1>4, <2>1 DEF Job
  <2>3. \/ job' = [seen EXCEPT !.pc = "live", !.start = 0, !.known = @ \cup keys,
                               !.pending = @ \cup keys]
        \/ job' = [seen EXCEPT !.start = next, !.known = @ \cup keys,
                               !.pending = @ \cup keys]
    BY <1>6
  <2> HIDE DEF seen
  <2> DEFINE kn == seen.known \cup keys
             pe == seen.pending \cup keys
  <2>4. \/ job' = [seen EXCEPT !.pc = "live", !.start = 0, !.known = kn, !.pending = pe]
        \/ job' = [seen EXCEPT !.start = next, !.known = kn, !.pending = pe]
    BY <2>1, <2>3 DEF Job
  <2>5. kn \in SUBSET Items /\ pe \in SUBSET Items
    BY <2>2
  <2> HIDE DEF kn, pe
  <2>6. CASE job' = [seen EXCEPT !.pc = "live", !.start = 0, !.known = kn, !.pending = pe]
    BY <2>1, <2>5, <2>6 DEF Job, Phase
  <2>7. CASE job' = [seen EXCEPT !.start = next, !.known = kn, !.pending = pe]
    BY <1>2, <2>1, <2>5, <2>7 DEF Job, Phase
  <2> QED BY <2>4, <2>6, <2>7
<1>9. LibraryUnchanged /\ disk' \in Index /\ faults' \in Nat
  BY DEF TypeInv, TypeOK, UpdatePage, TransactionStaysOpen
<1> QED BY <1>1, <1>7, <1>8, <1>9, JobStepTypes

LEMMA CensusPageTypes ==
  ASSUME TypeInv, CensusPage
  PROVE  TypeInv'
<1> DEFINE batch == Page(live, job.start, VersionsPageSize)
           next  == job.start + Cardinality(batch)
           keys  == {e.key : e \in batch}
<1>1. job \in Job /\ job.kind = "update"
  BY DEF TypeInv, TypeOK, CensusPage
<1>2. batch \in SUBSET Entry /\ next \in Nat
  <2>1. batch \in SUBSET Entry /\ Cardinality(batch) \in Nat
    BY <1>1, PageType, ConstantsAssumption DEF TypeInv, TypeOK, Job
  <2> HIDE DEF batch
  <2> QED BY <1>1, <2>1 DEF Job
<1>3. keys \in SUBSET Items
  BY <1>2 DEF Entry
<1>4. \E p \in {"reconcile", "live"} :
        job' = [job EXCEPT !.census = @ \cup keys, !.start = next, !.pc = p]
  BY DEF CensusPage
<1> HIDE DEF batch, next, keys
<1>5. job' \in Job /\ job'.backend = job.backend
  <2> DEFINE ce == job.census \cup keys
  <2>1. PICK p \in {"reconcile", "live"} :
          job' = [job EXCEPT !.census = ce, !.start = next, !.pc = p]
    BY <1>1, <1>4 DEF Job
  <2>2. ce \in SUBSET Items
    BY <1>1, <1>3 DEF Job
  <2>3. p \in Phase
    BY DEF Phase
  <2> HIDE DEF ce
  <2> QED BY <1>1, <1>2, <2>1, <2>2, <2>3 DEF Job
<1>6. LibraryUnchanged /\ mem' \in Index /\ disk' \in Index /\ faults' \in Nat
  BY DEF TypeInv, TypeOK, CensusPage, TransactionStaysOpen
<1> QED BY <1>1, <1>5, <1>6, JobStepTypes

LEMMA FinishUpdateTypes ==
  ASSUME TypeInv, FinishUpdate
  PROVE  TypeInv'
<1> DEFINE gone == IF CensusBelieved(job) THEN job.known \ job.census ELSE {}
           kept == Without(mem, gone)
<1>1. job \in Job /\ job.kind = "update" /\ job.backend \in Backends
  BY DEF TypeInv, TypeOK, JobServed, FinishUpdate
<1>2. mem \in Index /\ disk \in Index /\ faults \in Nat
  BY DEF TypeInv, TypeOK
<1>3. gone \in SUBSET Items
  BY <1>1 DEF Job
<1>4. mem' \in {kept, Stamped(kept, job)}
  BY DEF FinishUpdate
<1>5. AfterPersist([job EXCEPT !.pc = "deferred", !.pending = @ \ gone])
  BY DEF FinishUpdate
<1> HIDE DEF gone
<1>6. kept \in Index
  BY <1>2, <1>3 DEF Without, Index
<1> HIDE DEF kept
<1>7. mem' \in Index
  BY <1>1, <1>4, <1>6, StampedType
<1>8. disk' \in Index /\ faults' \in Nat
  BY <1>2, <1>5, <1>7 DEF AfterPersist, Fault
<1>9. job' \in Job /\ (job'.kind # "idle" => job'.backend = job.backend)
  <2>1. [job EXCEPT !.pc = "deferred", !.pending = @ \ gone] \in Job
    BY <1>1 DEF Job, Phase
  <2> QED BY <1>1, <1>5, <2>1, NoJobType DEF AfterPersist, NoJob, Job
<1>10. LibraryUnchanged
  BY DEF FinishUpdate
<1> QED BY <1>1, <1>7, <1>8, <1>9, <1>10, JobStepTypes

\* The steps that end a job, whatever it was, and leave the store as the
\* memory or the disk was.
LEMMA EndTypes ==
  ASSUME TypeInv,
         EndStoppedUpdate \/ EndUpdate \/ UpdateFails \/ Crash \/ Shutdown
  PROVE  TypeInv'
<1>1. mem \in Index /\ disk \in Index /\ faults \in Nat
  BY DEF TypeInv, TypeOK
<1>2. job' = NoJob /\ LibraryUnchanged
  BY DEF EndStoppedUpdate, EndUpdate, UpdateFails, Crash, Shutdown, AfterPersist
<1>3. mem' \in {mem, disk} /\ disk' \in {mem, disk}
  BY DEF EndStoppedUpdate, EndUpdate, UpdateFails, Crash, Shutdown, AfterPersist
<1>4. faults' \in Nat
  BY <1>1 DEF EndStoppedUpdate, EndUpdate, UpdateFails, Crash, Shutdown, AfterPersist, Fault
<1>5. job' \in Job /\ job'.kind = "idle"
  BY <1>2, NoJobType DEF NoJob
<1> QED BY <1>1, <1>2, <1>3, <1>4, <1>5, JobStepTypes

LEMMA OutsideTypes ==
  ASSUME TypeInv, RequestStop \/ Pause \/ Resume
  PROVE  TypeInv'
<1>1. mem \in Index /\ disk \in Index /\ faults \in Nat /\ job \in Job
  BY DEF TypeInv, TypeOK
<1>2. LibraryUnchanged /\ faults' \in Nat
  <2>1. LibraryUnchanged
    BY DEF RequestStop, Pause, Resume
  <2>2. Fault \/ faults' = faults
    BY DEF RequestStop, Pause, Resume
  <2> QED BY <1>1, <2>1, <2>2, FaultType
<1>3. job' \in {job, [job EXCEPT !.cancelled = TRUE]}
  BY DEF RequestStop, Pause, Resume
<1>4. job' \in Job /\ job'.kind = job.kind /\ job'.backend = job.backend
  BY <1>1, <1>3 DEF Job
<1>5. \A flag \in BOOLEAN :
        PersistPaused(flag) => mem' \in Index /\ disk' \in Index
  <2> SUFFICES ASSUME NEW flag \in BOOLEAN, PersistPaused(flag)
               PROVE  mem' \in Index /\ disk' \in Index
    OBVIOUS
  <2>1. [mem EXCEPT !.paused = flag] \in Index
    BY <1>1 DEF Index
  <2>2. [disk EXCEPT !.rows = mem.rows, !.vectors = mem.vectors, !.paused = flag] \in Index
    BY <1>1 DEF Index
  <2> QED BY <2>1, <2>2 DEF PersistPaused
<1>6. mem' \in Index /\ disk' \in Index
  <2>1. CASE RequestStop
    BY <1>1, <2>1 DEF RequestStop
  <2>2. CASE Pause \/ Resume
    BY <1>5, <2>2 DEF Pause, Resume
  <2> QED BY <2>1, <2>2
<1> QED BY <1>1, <1>2, <1>4, <1>6, JobStepTypes

LEMMA StutterTypes ==
  ASSUME TypeInv, UNCHANGED vars
  PROVE  TypeInv'
BY DEF TypeInv, TypeOK, JobServed, vars

-----------------------------------------------------------------------------

LEMMA TypesKept == TypeInv /\ [Next]_vars => TypeInv'
<1> SUFFICES ASSUME TypeInv, [Next]_vars PROVE TypeInv'
  OBVIOUS
<1>1. CASE LibraryStep
  BY <1>1, LibraryTypes DEF LibraryStep
<1>2. CASE StartJob \/ Refresh
  BY <1>2, StartBuildTypes, StartUpdateTypes DEF StartJob, Refresh
<1>3. CASE BuildStep
  BY <1>3, RecrawlTypes, ReadPageTypes, IndexItemTypes, EndPageTypes, EmbedTypes,
     MaybePersistTypes, EndCrawlTypes, BackfillTypes, FinishBuildTypes DEF BuildStep
<1>4. CASE UpdateStep
  BY <1>4, UpdatePageTypes, CensusPageTypes, FinishUpdateTypes, EndTypes, EmbedTypes
     DEF UpdateStep
<1>5. CASE Disturbance \/ Resume
  BY <1>5, EmbedFailsTypes, BuildFailsTypes, EndTypes, OutsideTypes DEF Disturbance
<1>6. CASE UNCHANGED vars
  BY <1>6, StutterTypes
<1> QED BY <1>1, <1>2, <1>3, <1>4, <1>5, <1>6 DEF Next

LEMMA InitTypes == Init => TypeInv
<1> SUFFICES ASSUME Init PROVE TypeInv
  OBVIOUS
<1>1. clock \in Nat
  BY FiniteCount DEF Init
<1>2. mver \in [Items -> Nat] /\ live \in SUBSET Items
  BY <1>1 DEF Init
<1>3. EmptyIndex \in Index
  BY DEF EmptyIndex, Index
<1>4. job = NoJob /\ mem = EmptyIndex /\ disk = EmptyIndex /\ faults = 0
  BY DEF Init
<1>5. job.kind = "idle"
  BY <1>4 DEF NoJob
<1> QED BY <1>1, <1>2, <1>3, <1>4, <1>5, NoJobType DEF TypeInv, TypeOK, JobServed

\* Every variable of the index jobs keeps its type: in particular whatever is
\* committed at whatever await, the checkpoint on disk names an API and an
\* offset, and a stamp is a version.
THEOREM TypeCorrect == Spec => []TypeOK
<1>1. Spec => []TypeInv
  BY InitTypes, TypesKept, PTL DEF Spec
<1>2. TypeInv => TypeOK
  BY DEF TypeInv
<1> QED BY <1>1, <1>2, PTL

-----------------------------------------------------------------------------
(* A paused job has been told to stop, so resuming commits only for one    *)
(* that is winding down; and an update that reads has the stamp on disk.   *)

PausedStops == job.kind # "idle" /\ mem.paused => job.cancelled

ReadsUnderStamp ==
  job.kind = "update" /\ job.pc \in {"fetch", "live"} => Claims(mem) = Claims(disk)

UpdateInv == PausedStops /\ ReadsUnderStamp

\* The steps of a job leave both flags alone.
LEMMA JobStepsKeepPaused ==
  ASSUME TypeInv, BuildStep \/ UpdateStep \/ EmbedFails \/ DeferredFails \/ BuildFails
  PROVE  job'.kind # "idle" =>
           /\ mem'.paused = mem.paused
           /\ job.kind # "idle"
           /\ job'.cancelled = job.cancelled
<1>1. mem \in Index /\ job \in Job
  BY DEF TypeInv, TypeOK
<1>2. CASE RecrawlFromTop \/ ReadPage \/ EndPage \/ BackfillDone
  <2>1. mem' = mem /\ job.kind # "idle"
    BY <1>2 DEF RecrawlFromTop, ReadPage, EndPage, BackfillDone, Fetching
  <2>2. job'.cancelled = job.cancelled
    BY <1>1, <1>2 DEF RecrawlFromTop, ReadPage, EndPage, BackfillDone, AtHead, Job
  <2> QED BY <2>1, <2>2
<1>3. CASE EmbedFails \/ DeferredFails \/ CensusPage
  <2>1. mem' = mem /\ job.kind # "idle"
    BY <1>3 DEF EmbedFails, DeferredFails, CensusPage
  <2>2. job'.cancelled = job.cancelled
    BY <1>1, <1>3 DEF EmbedFails, DeferredFails, CensusPage, Job
  <2> QED BY <2>1, <2>2
<1>4. CASE IndexItem
  BY <1>1, <1>4 DEF IndexItem, Index, Job
<1>5. CASE EmbedBatch \/ EmbedDeferred
  BY <1>1, <1>5 DEF EmbedBatch, EmbedDeferred, Index, Job
<1>6. CASE MaybePersist \/ EndCrawl
  BY <1>1, <1>6 DEF MaybePersist, EndCrawl, AtHead, Index, Job
<1>7. CASE BackfillBatch
  BY <1>1, <1>7 DEF BackfillBatch, Index
<1>8. CASE FinishBuild \/ BuildFails \/ EndStoppedUpdate \/ EndUpdate
  <2>1. job' = NoJob
    BY <1>8 DEF FinishBuild, BuildFails, EndStoppedUpdate, EndUpdate, AfterPersist
  <2> QED BY <2>1 DEF NoJob
<1>9. CASE UpdatePage
  BY <1>1, <1>9 DEF UpdatePage, Fetching, Index, Job
<1>10. CASE FinishUpdate
  <2>1. mem'.paused = mem.paused /\ job.kind # "idle"
    BY <1>1, <1>10 DEF FinishUpdate, Without, Stamped, Index
  <2>2. job' = NoJob \/ job'.cancelled = job.cancelled
    BY <1>1, <1>10 DEF FinishUpdate, AfterPersist, Job
  <2> QED BY <2>1, <2>2 DEF NoJob
<1> QED BY <1>2, <1>3, <1>4, <1>5, <1>6, <1>7, <1>8, <1>9, <1>10 DEF BuildStep, UpdateStep

LEMMA PausedStopsKept ==
  ASSUME TypeInv, PausedStops, [Next]_vars
  PROVE  PausedStops'
<1>0. NoJob.kind = "idle" /\ mem \in Index /\ job \in Job
  BY DEF NoJob, TypeInv, TypeOK
<1>1. CASE LibraryStep
  BY <1>1 DEF LibraryStep, Modify, Remove, PausedStops
<1>2. CASE StartJob \/ Refresh
  <2>1. PICK b \in Backends, f \in BOOLEAN : StartBuild(b, f) \/ StartUpdate(b)
    BY <1>2 DEF StartJob, Refresh
  <2>2. ~mem.paused /\ (mem' = mem \/ mem' = Reset(mem))
    BY <2>1 DEF StartBuild, StartUpdate
  <2>3. Reset(mem).paused = mem.paused
    BY <1>0 DEF Reset, EmptyIndex, Index
  <2> QED BY <2>2, <2>3 DEF PausedStops
<1>3. CASE BuildStep \/ UpdateStep \/ EmbedFails \/ DeferredFails \/ BuildFails
  BY <1>3, JobStepsKeepPaused DEF PausedStops
<1>4. CASE UpdateFails \/ Crash \/ Shutdown
  <2>1. job' = NoJob
    BY <1>4 DEF UpdateFails, Crash, Shutdown
  <2> QED BY <1>0, <2>1 DEF PausedStops
<1>5. CASE RequestStop
  BY <1>0, <1>5 DEF RequestStop, PausedStops, Job
<1>6. CASE Pause
  BY <1>0, <1>6 DEF Pause, PausedStops, Job
<1>7. CASE Resume
  BY <1>0, <1>7 DEF Resume, PersistPaused, PausedStops, Index
<1>8. CASE UNCHANGED vars
  BY <1>8 DEF vars, PausedStops
<1> QED BY <1>1, <1>2, <1>3, <1>4, <1>5, <1>6, <1>7, <1>8 DEF Next, Disturbance

\* Where no pause falls into a job, a running job is not paused at all.
NotPaused == job.kind # "idle" => ~mem.paused

LEMMA NotPausedKept ==
  ASSUME ~PausesDuringJobs, TypeInv, NotPaused, [Next]_vars
  PROVE  NotPaused'
<1>0. NoJob.kind = "idle" /\ mem \in Index
  BY DEF NoJob, TypeInv, TypeOK
<1>1. CASE LibraryStep
  BY <1>1 DEF LibraryStep, Modify, Remove, NotPaused
<1>2. CASE StartJob \/ Refresh
  <2>1. PICK b \in Backends, f \in BOOLEAN : StartBuild(b, f) \/ StartUpdate(b)
    BY <1>2 DEF StartJob, Refresh
  <2>2. ~mem.paused /\ (mem' = mem \/ mem' = Reset(mem))
    BY <2>1 DEF StartBuild, StartUpdate
  <2>3. Reset(mem).paused = mem.paused
    BY <1>0 DEF Reset, EmptyIndex, Index
  <2> QED BY <2>2, <2>3 DEF NotPaused
<1>3. CASE BuildStep \/ UpdateStep \/ EmbedFails \/ DeferredFails \/ BuildFails
  BY <1>3, JobStepsKeepPaused DEF NotPaused
<1>4. CASE UpdateFails \/ Crash \/ Shutdown
  <2>1. job' = NoJob
    BY <1>4 DEF UpdateFails, Crash, Shutdown
  <2> QED BY <1>0, <2>1 DEF NotPaused
<1>5. CASE RequestStop
  BY <1>5 DEF RequestStop, NotPaused
<1>6. CASE Pause
  <2>1. job.kind = "idle" /\ job' = job
    BY <1>6 DEF Pause
  <2> QED BY <2>1 DEF NotPaused
<1>7. CASE Resume
  <2>1. job' = job /\ mem.paused
    BY <1>7 DEF Resume
  <2> QED BY <2>1 DEF NotPaused
<1>8. CASE UNCHANGED vars
  BY <1>8 DEF vars, NotPaused
<1> QED BY <1>1, <1>2, <1>3, <1>4, <1>5, <1>6, <1>7, <1>8 DEF Next, Disturbance

\* The flag's own write leaves what both copies claim as it was.
LEMMA PauseKeepsClaims ==
  ASSUME TypeInv, NEW flag \in BOOLEAN, PersistPaused(flag), job.kind # "idle"
  PROVE  Claims(mem') = Claims(mem) /\ Claims(disk') = Claims(disk)
<1>1. mem \in Index /\ disk \in Index
  BY DEF TypeInv, TypeOK
<1> QED BY <1>1 DEF PersistPaused, Claims, Index

LEMMA StartedIsBuild ==
  ASSUME NEW b, NEW f, StartBuild(b, f)
  PROVE  job'.kind = "build"
<1> DEFINE new == [NoJob EXCEPT !.kind = "build", !.backend = b, !.startedAt = clock]
           res == [new EXCEPT !.resumed = TRUE, !.unverified = TRUE,
                              !.start = mem.checkpoint.crawlOffset,
                              !.itemsAvailable = mem.checkpoint.itemsAvailable,
                              !.crawlVersion = mem.checkpoint.crawlVersion,
                              !.known = Held(mem),
                              !.pending = mem.checkpoint.pending \cap Held(mem)]
<1>1. job' = AtHead(res) \/ job' = AtHead(new)
  BY DEF StartBuild
<1>2. res.kind = "build" /\ new.kind = "build"
  BY DEF NoJob
<1>3. AtHead(res).kind = res.kind /\ AtHead(new).kind = new.kind
  BY DEF AtHead, NoJob
<1> HIDE DEF new, res
<1> QED BY <1>1, <1>2, <1>3

LEMMA BuildStaysBuild ==
  ASSUME TypeInv, BuildStep
  PROVE  job'.kind = "build" \/ job' = NoJob
<1>0. job \in Job
  BY DEF TypeInv, TypeOK
<1>1. CASE RecrawlFromTop
  BY <1>0, <1>1 DEF RecrawlFromTop, Fetching, AtHead, Job
<1>2. CASE ReadPage
  BY <1>0, <1>2 DEF ReadPage, Fetching, Job
<1>3. CASE IndexItem
  BY <1>0, <1>3 DEF IndexItem, Job
<1>4. CASE EndPage
  BY <1>0, <1>4 DEF EndPage, Job
<1>5. CASE EmbedBatch
  BY <1>0, <1>5 DEF EmbedBatch, Job
<1>6. CASE MaybePersist
  BY <1>0, <1>6 DEF MaybePersist, AtHead, Job
<1>7. CASE EndCrawl \/ BackfillDone
  BY <1>0, <1>7 DEF EndCrawl, BackfillDone, Job
<1>8. CASE BackfillBatch \/ FinishBuild
  BY <1>8 DEF BackfillBatch, FinishBuild
<1> QED BY <1>1, <1>2, <1>3, <1>4, <1>5, <1>6, <1>7, <1>8 DEF BuildStep

LEMMA UpdateReadsUnderStamp ==
  ASSUME TypeInv, ReadsUnderStamp, [Next]_vars
  PROVE  ReadsUnderStamp'
<1>0. NoJob.kind = "idle" /\ mem \in Index /\ disk \in Index /\ job \in Job
  BY DEF NoJob, TypeInv, TypeOK
<1>1. CASE LibraryStep
  BY <1>1 DEF LibraryStep, Modify, Remove, ReadsUnderStamp, Claims
<1>2. CASE StartJob \/ Refresh
  <2>1. PICK b \in Backends, f \in BOOLEAN : StartBuild(b, f) \/ StartUpdate(b)
    BY <1>2 DEF StartJob, Refresh
  <2>2. CASE StartBuild(b, f)
    <3>1. job'.kind = "build"
      BY <2>2, StartedIsBuild
    <3> QED BY <3>1 DEF ReadsUnderStamp
  <2>3. CASE StartUpdate(b)
    <3>1. mem' = mem /\ disk' = mem
      BY <2>3 DEF StartUpdate, OpenTransactionCommitted
    <3> QED BY <3>1 DEF ReadsUnderStamp, Claims
  <2> QED BY <2>1, <2>2, <2>3
<1>3. CASE BuildStep
  <2>1. job'.kind = "build" \/ job' = NoJob
    BY <1>3, BuildStaysBuild
  <2> QED BY <1>0, <2>1 DEF ReadsUnderStamp
<1>4. CASE UpdatePage
  <2>1. Claims(mem') = Claims(mem) /\ disk' = disk
    BY <1>0, <1>4 DEF UpdatePage, TransactionStaysOpen, Claims, Index
  <2>2. job.kind = "update" /\ job.pc = "fetch"
    BY <1>4 DEF UpdatePage, Fetching
  <2> QED BY <2>1, <2>2 DEF ReadsUnderStamp, Claims
<1>5. CASE CensusPage
  BY <1>5 DEF CensusPage, TransactionStaysOpen, ReadsUnderStamp, Claims
<1>6. CASE FinishUpdate \/ EndStoppedUpdate \/ EmbedDeferred \/ EndUpdate \/ DeferredFails
  <2>1. job' = NoJob \/ job'.pc = "deferred"
    BY <1>0, <1>6 DEF FinishUpdate, EndStoppedUpdate, EmbedDeferred, EndUpdate,
       DeferredFails, AfterPersist, Job
  <2> QED BY <1>0, <2>1 DEF ReadsUnderStamp
<1>7. CASE EmbedFails \/ BuildFails
  <2>1. job' = NoJob \/ job'.kind = "build"
    BY <1>0, <1>7 DEF EmbedFails, BuildFails, Job
  <2> QED BY <1>0, <2>1 DEF ReadsUnderStamp
<1>8. CASE UpdateFails \/ Crash \/ Shutdown
  <2>1. job' = NoJob
    BY <1>8 DEF UpdateFails, Crash, Shutdown
  <2> QED BY <1>0, <2>1 DEF ReadsUnderStamp
<1>9. CASE RequestStop
  <2>1. mem' = mem /\ disk' = disk /\ job'.kind = job.kind /\ job'.pc = job.pc
    BY <1>0, <1>9 DEF RequestStop, Job
  <2> QED BY <2>1 DEF ReadsUnderStamp, Claims
<1>10. CASE Pause \/ Resume
  <2>1. job'.kind = job.kind /\ job'.pc = job.pc
    BY <1>0, <1>10 DEF Pause, Resume, Job
  <2>2. job.kind = "update" => Claims(mem') = Claims(mem) /\ Claims(disk') = Claims(disk)
    BY <1>10, PauseKeepsClaims DEF Pause, Resume
  <2> QED BY <2>1, <2>2 DEF ReadsUnderStamp, Claims
<1>11. CASE UNCHANGED vars
  BY <1>11 DEF vars, ReadsUnderStamp, Claims
<1> QED BY <1>1, <1>2, <1>3, <1>4, <1>5, <1>6, <1>7, <1>8, <1>9, <1>10, <1>11
        DEF Next, UpdateStep, Disturbance

LEMMA ReadingCommitsNothing ==
  ASSUME TypeInv, UpdateInv, Next, job.kind = "update", job.pc \in {"fetch", "live"}
  PROVE  /\ Claims(disk') = Claims(disk)
         /\ job'.kind = "update" /\ ~job'.cancelled => disk'.rows = disk.rows
<1>0. NoJob.kind = "idle" /\ mem \in Index /\ disk \in Index /\ job \in Job
  BY DEF NoJob, TypeInv, TypeOK
<1>1. Claims(mem) = Claims(disk)
  BY DEF UpdateInv, ReadsUnderStamp
<1>2. CASE LibraryStep
  BY <1>2 DEF LibraryStep, Modify, Remove
<1>3. CASE StartJob \/ Refresh \/ BuildStep
  BY <1>3 DEF StartJob, Refresh, StartBuild, StartUpdate, BuildStep, RecrawlFromTop,
     ReadPage, IndexItem, EndPage, EmbedBatch, MaybePersist, EndCrawl, BackfillBatch,
     BackfillDone, FinishBuild, Fetching
<1>4. CASE UpdatePage \/ CensusPage
  BY <1>4 DEF UpdatePage, CensusPage, TransactionStaysOpen
<1>5. CASE EndStoppedUpdate
  <2>1. job'.kind = "idle" /\ (disk' = mem \/ disk' = disk)
    BY <1>0, <1>5 DEF EndStoppedUpdate, AfterPersist
  <2> QED BY <1>1, <2>1 DEF Claims
<1>6. CASE FinishUpdate \/ EmbedDeferred \/ EndUpdate \/ EmbedFails \/ BuildFails \/ DeferredFails
  BY <1>6 DEF FinishUpdate, EmbedDeferred, EndUpdate, EmbedFails, BuildFails, DeferredFails
<1>7. CASE UpdateFails \/ Crash \/ RequestStop
  BY <1>7 DEF UpdateFails, Crash, RequestStop
<1>8. CASE Shutdown
  <2>1. job'.kind = "idle" /\ disk' = mem
    BY <1>0, <1>8 DEF Shutdown
  <2> QED BY <1>1, <2>1 DEF Claims
<1>9. CASE Pause
  <2>1. job'.cancelled
    BY <1>0, <1>9 DEF Pause, Job
  <2>2. Claims(disk') = Claims(disk)
    BY <1>9, PauseKeepsClaims DEF Pause
  <2> QED BY <2>1, <2>2
<1>10. CASE Resume
  <2>1. job'.cancelled
    BY <1>10 DEF Resume, UpdateInv, PausedStops
  <2>2. Claims(disk') = Claims(disk)
    BY <1>10, PauseKeepsClaims DEF Resume
  <2> QED BY <2>1, <2>2
<1> QED BY <1>2, <1>3, <1>4, <1>5, <1>6, <1>7, <1>8, <1>9, <1>10
        DEF Next, UpdateStep, Disturbance

\* An update that has not come to its end, whatever ends it, has moved neither the stamp
\* nor the checkpoint on disk, and goes on without having committed a row unless it was
\* told to stop (index-manager.ts:1880).
THEOREM StampMovesLastHolds == Spec => StampMovesLast
<1>1. Init => UpdateInv
  BY DEF Init, UpdateInv, PausedStops, ReadsUnderStamp, NoJob
<1>2. TypeInv /\ UpdateInv /\ [Next]_vars => UpdateInv'
  BY PausedStopsKept, UpdateReadsUnderStamp DEF UpdateInv
<1>3. TypeInv /\ UpdateInv /\ [Next]_vars =>
        [job.kind = "update" /\ job.pc \in {"fetch", "live"} =>
           /\ Claims(disk') = Claims(disk)
           /\ job'.kind = "update" /\ ~job'.cancelled => disk'.rows = disk.rows]_vars
  BY ReadingCommitsNothing
<1> QED BY InitTypes, TypesKept, <1>1, <1>2, <1>3, PTL DEF Spec, StampMovesLast

-----------------------------------------------------------------------------
(* What a build has written and not embedded is queued, unless the         *)
(* embedder has given up or the run was resumed; a resumed one makes up    *)
(* for it before it finishes.                                              *)

Crawling == job.kind = "build" /\ job.pc \in {"fetch", "items", "embed", "drain"}
Finishing == job.kind = "build" /\ job.pc = "finish"

EmbedInv ==
  /\ Crawling /\ ~job.embedderError /\ ~job.resumed => Missing(mem) \subseteq job.pending
  /\ Finishing /\ ~job.cancelled /\ ~job.embedderError => Missing(mem) = {}

\* Only rows and vectors matter to what is missing.
LEMMA MissingSame ==
  ASSUME mem'.rows = mem.rows, mem'.vectors = mem.vectors
  PROVE  Missing(mem)' = Missing(mem)
BY DEF Missing, Held

LEMMA JobSameEmbeds ==
  ASSUME EmbedInv, mem'.rows = mem.rows, mem'.vectors = mem.vectors, job' = job
  PROVE  EmbedInv'
BY MissingSame DEF EmbedInv, Crawling, Finishing

LEMMA IdleEmbeds ==
  ASSUME job'.kind # "build"
  PROVE  EmbedInv'
BY DEF EmbedInv, Crawling, Finishing

LEMMA StartEmbeds ==
  ASSUME TypeInv, NEW b \in Backends, NEW f \in BOOLEAN, StartBuild(b, f)
  PROVE  EmbedInv'
<1>1. mem \in Index
  BY DEF TypeInv, TypeOK
<1> DEFINE new == [NoJob EXCEPT !.kind = "build", !.backend = b, !.startedAt = clock]
           res == [new EXCEPT !.resumed = TRUE, !.unverified = TRUE,
                              !.start = mem.checkpoint.crawlOffset,
                              !.itemsAvailable = mem.checkpoint.itemsAvailable,
                              !.crawlVersion = mem.checkpoint.crawlVersion,
                              !.known = Held(mem),
                              !.pending = mem.checkpoint.pending \cap Held(mem)]
<1>2. \/ job' = AtHead(res)
      \/ job' = AtHead(new) /\ mem' = Reset(mem)
  BY DEF StartBuild
<1>3. res.resumed = TRUE
  BY DEF NoJob
<1>4. /\ AtHead(res).resumed = TRUE
      /\ AtHead(res).pc # "finish"
      /\ AtHead(new).pc # "finish"
  BY <1>3 DEF AtHead, NoJob
<1>5. Missing(Reset(mem)) = {}
  BY <1>1 DEF Missing, Held, Reset, EmptyIndex, Index
<1>6. CASE job' = AtHead(res)
  BY <1>4, <1>6 DEF EmbedInv, Crawling, Finishing
<1>7. CASE job' = AtHead(new) /\ mem' = Reset(mem)
  <2>1. Missing(mem)' = {}
    BY <1>5, <1>7 DEF Missing, Held
  <2>2. job'.pc # "finish"
    BY <1>4, <1>7
  <2> QED BY <2>1, <2>2 DEF EmbedInv, Finishing
<1> QED BY <1>2, <1>6, <1>7

LEMMA CrawlStepsEmbed ==
  ASSUME TypeInv, EmbedInv, RecrawlFromTop \/ ReadPage \/ EndPage \/ MaybePersist
  PROVE  EmbedInv'
<1>1. mem \in Index /\ job \in Job
  BY DEF TypeInv, TypeOK
<1>2. mem'.rows = mem.rows /\ mem'.vectors = mem.vectors
  BY <1>1 DEF RecrawlFromTop, ReadPage, EndPage, MaybePersist, Index
<1>3. Crawling
  BY DEF RecrawlFromTop, ReadPage, EndPage, MaybePersist, Fetching, Crawling
<1>4. /\ job'.pc # "finish"
      /\ job'.embedderError = job.embedderError
      /\ job'.resumed = job.resumed
      /\ job'.pending = job.pending
  <2>1. CASE RecrawlFromTop
    BY <1>1, <2>1 DEF RecrawlFromTop, AtHead, Job
  <2>2. CASE ReadPage
    <3> DEFINE seen == [job EXCEPT !.unverified = FALSE, !.crawlVersion = CrawlVersion(job)]
               batch == Page(live, job.start, PageSize)
               n == Cardinality(live)
    <3>1. \/ job' = [seen EXCEPT !.pc = "drain"]
          \/ job' = [seen EXCEPT !.pc = "items", !.batch = batch, !.consumed = 0,
                                 !.total = n, !.itemsAvailable = IF @ = 0 THEN n ELSE @]
      BY <2>2 DEF ReadPage
    <3>2. seen.embedderError = job.embedderError /\ seen.resumed = job.resumed
          /\ seen.pending = job.pending
      BY <1>1 DEF Job
    <3>3. DOMAIN seen = DOMAIN job
      OBVIOUS
    <3> HIDE DEF seen, batch, n
    <3> QED BY <1>1, <3>1, <3>2, <3>3 DEF Job
  <2>3. CASE EndPage
    BY <1>1, <2>3 DEF EndPage, Job
  <2>4. CASE MaybePersist
    BY <1>1, <2>4 DEF MaybePersist, AtHead, Job
  <2> QED BY <2>1, <2>2, <2>3, <2>4
<1>5. Missing(mem)' = Missing(mem)
  BY <1>2, MissingSame
<1> QED BY <1>3, <1>4, <1>5 DEF EmbedInv, Finishing, Crawling

LEMMA IndexItemEmbeds ==
  ASSUME TypeInv, EmbedInv, IndexItem
  PROVE  EmbedInv'
<1>1. mem \in Index /\ job \in Job /\ job.kind = "build" /\ job.pc = "items"
  BY DEF TypeInv, TypeOK, IndexItem
<1>2. PICK e \in job.batch :
        \/ job' = [job EXCEPT !.consumed = @ + 1] /\ mem' = mem
        \/ /\ job' = [job EXCEPT !.consumed = @ + 1,
                                !.indexed = @ \cup {e.key},
                                !.pending = IF job.embedderError THEN @
                                            ELSE @ \cup {e.key}]
           /\ mem' = [mem EXCEPT !.rows[e.key] = e.ver]
  BY DEF IndexItem
<1>3. /\ job'.pc = "items" /\ job'.kind = "build"
      /\ job'.embedderError = job.embedderError
      /\ job'.resumed = job.resumed
  BY <1>1, <1>2 DEF Job
<1>4. ~job.embedderError => \/ job'.pending = job.pending /\ mem' = mem
                           \/ /\ job'.pending = job.pending \cup {e.key}
                              /\ Missing(mem)' \subseteq Missing(mem) \cup {e.key}
  <2>1. CASE mem' = mem
    BY <1>1, <1>2, <2>1 DEF Job, Missing, Held
  <2>2. CASE /\ job' = [job EXCEPT !.consumed = @ + 1,
                                !.indexed = @ \cup {e.key},
                                !.pending = IF job.embedderError THEN @
                                            ELSE @ \cup {e.key}]
             /\ mem' = [mem EXCEPT !.rows[e.key] = e.ver]
    <3>1. ~job.embedderError => job'.pending = job.pending \cup {e.key}
      BY <1>1, <2>2 DEF Job
    <3>2. Missing(mem)' \subseteq Missing(mem) \cup {e.key}
      <4>1. /\ mem'.vectors = mem.vectors
            /\ \A i \in Items \ {e.key} : mem'.rows[i] = mem.rows[i]
        BY <1>1, <2>2 DEF Index
      <4> QED BY <4>1 DEF Missing, Held
    <3> QED BY <3>1, <3>2
  <2> QED BY <1>2, <2>1, <2>2
<1>5. ~job.embedderError /\ ~job.resumed => Missing(mem)' \subseteq job'.pending
  <2>1. ~job.embedderError /\ ~job.resumed => Missing(mem) \subseteq job.pending
    BY <1>1 DEF EmbedInv, Crawling
  <2>2. mem' = mem => Missing(mem)' = Missing(mem)
    BY MissingSame
  <2> QED BY <1>4, <2>1, <2>2
<1> QED BY <1>3, <1>5 DEF EmbedInv, Crawling, Finishing

LEMMA EmbedBatchEmbeds ==
  ASSUME TypeInv, EmbedInv, EmbedBatch
  PROVE  EmbedInv'
<1>1. mem \in Index /\ job \in Job
  BY DEF TypeInv, TypeOK
<1>2. PICK b \in SUBSET job.pending :
        /\ mem' = [mem EXCEPT !.vectors = @ \cup b]
        /\ job' = [job EXCEPT !.pending = @ \ b]
  BY DEF EmbedBatch
<1>3. /\ Crawling /\ job'.pc # "finish"
      /\ job'.embedderError = job.embedderError
      /\ job'.resumed = job.resumed
      /\ job'.pending = job.pending \ b
  BY <1>1, <1>2 DEF EmbedBatch, Crawling, Job
<1>4. Missing(mem)' = Missing(mem) \ b
  <2>1. mem'.rows = mem.rows /\ mem'.vectors = mem.vectors \cup b
    BY <1>1, <1>2 DEF Index
  <2> QED BY <2>1 DEF Missing, Held
<1> QED BY <1>3, <1>4 DEF EmbedInv, Finishing

LEMMA EndCrawlEmbeds ==
  ASSUME TypeInv, EmbedInv, EndCrawl
  PROVE  EmbedInv'
<1>1. mem \in Index /\ job \in Job
  BY DEF TypeInv, TypeOK
<1>2. mem'.rows = mem.rows /\ mem'.vectors = mem.vectors
  BY <1>1 DEF EndCrawl, Index
<1>3. Missing(mem)' = Missing(mem)
  BY <1>2, MissingSame
<1>4. /\ Crawling
      /\ job.cancelled \/ job.pending = {}
      /\ job'.pc \in {"backfill", "finish"}
      /\ job'.pc = "finish" => ~job.resumed
      /\ job'.cancelled = job.cancelled
      /\ job'.embedderError = job.embedderError
  BY <1>1 DEF EndCrawl, Crawling, Job
<1> QED BY <1>3, <1>4 DEF EmbedInv, Crawling, Finishing

LEMMA BackfillEmbeds ==
  ASSUME TypeInv, BackfillBatch \/ BackfillDone
  PROVE  EmbedInv'
<1>1. mem \in Index /\ job \in Job
  BY DEF TypeInv, TypeOK
<1>2. CASE BackfillBatch
  BY <1>2 DEF BackfillBatch, EmbedInv, Crawling, Finishing
<1>3. CASE BackfillDone
  <2>1. /\ job'.pc = "finish"
        /\ job'.cancelled = job.cancelled
        /\ job'.embedderError = job.embedderError
        /\ job.cancelled \/ job.embedderError \/ Missing(mem) = {}
    BY <1>1, <1>3 DEF BackfillDone, Job
  <2>2. Missing(mem)' = Missing(mem)
    BY <1>3, MissingSame DEF BackfillDone
  <2> QED BY <2>1, <2>2 DEF EmbedInv, Crawling
<1> QED BY <1>2, <1>3

LEMMA GivenUpEmbeds ==
  ASSUME TypeInv, EmbedInv, EmbedFails \/ RequestStop \/ Pause
  PROVE  EmbedInv'
<1>1. mem \in Index /\ job \in Job
  BY DEF TypeInv, TypeOK
<1>2. CASE EmbedFails
  <2>1. job'.embedderError = TRUE
    BY <1>1, <1>2 DEF EmbedFails, Job
  <2> QED BY <2>1 DEF EmbedInv
<1>3. CASE RequestStop \/ Pause
  <2>1. mem'.rows = mem.rows /\ mem'.vectors = mem.vectors
    BY <1>1, <1>3 DEF RequestStop, Pause, PersistPaused, Index
  <2>2. CASE job' = job
    BY <2>1, <2>2, JobSameEmbeds
  <2>3. CASE job' = [job EXCEPT !.cancelled = TRUE]
    <3>1. /\ job'.cancelled = TRUE /\ job'.kind = job.kind /\ job'.pc = job.pc
          /\ job'.embedderError = job.embedderError /\ job'.resumed = job.resumed
          /\ job'.pending = job.pending
      BY <1>1, <2>3 DEF Job
    <3>2. Missing(mem)' = Missing(mem)
      BY <2>1, MissingSame
    <3> QED BY <3>1, <3>2 DEF EmbedInv, Crawling, Finishing
  <2> QED BY <1>3, <2>2, <2>3 DEF RequestStop, Pause
<1> QED BY <1>2, <1>3

\* An update never turns into a build.
LEMMA UpdateStaysUpdate ==
  ASSUME TypeInv, UpdateStep \/ DeferredFails
  PROVE  job'.kind # "build"
<1>1. job \in Job /\ job.kind = "update"
  BY DEF TypeInv, TypeOK, UpdateStep, DeferredFails, UpdatePage, CensusPage, FinishUpdate,
     EndStoppedUpdate, EmbedDeferred, EndUpdate, Fetching
<1>2. NoJob.kind # "build"
  BY DEF NoJob
<1>3. CASE UpdatePage
  <2> DEFINE seen == [job EXCEPT !.crawlVersion = CrawlVersion(job)]
  <2>1. seen.kind = "update" /\ DOMAIN seen = DOMAIN job
    BY <1>1 DEF Job
  <2>2. \E n, k, p : \/ job' = [seen EXCEPT !.pc = "live", !.start = 0, !.known = k,
                                            !.pending = p]
                     \/ job' = [seen EXCEPT !.start = n, !.known = k, !.pending = p]
    BY <1>3 DEF UpdatePage
  <2> HIDE DEF seen
  <2> QED BY <1>1, <2>1, <2>2 DEF Job
<1>4. CASE CensusPage \/ EmbedDeferred \/ DeferredFails
  BY <1>1, <1>4 DEF CensusPage, EmbedDeferred, DeferredFails, Job
<1>5. CASE FinishUpdate \/ EndStoppedUpdate \/ EndUpdate
  <2>1. job' = NoJob \/ \E p : job' = [job EXCEPT !.pc = "deferred", !.pending = p]
    BY <1>5 DEF FinishUpdate, EndStoppedUpdate, EndUpdate, AfterPersist
  <2> QED BY <1>1, <1>2, <2>1 DEF Job
<1> QED BY <1>3, <1>4, <1>5 DEF UpdateStep

LEMMA EmbedInvKept ==
  ASSUME TypeInv, EmbedInv, [Next]_vars
  PROVE  EmbedInv'
<1>0. NoJob.kind # "build"
  BY DEF NoJob
<1>1. CASE LibraryStep
  <2>1. mem' = mem /\ job' = job
    BY <1>1 DEF LibraryStep, Modify, Remove
  <2> QED BY <2>1, JobSameEmbeds
<1>2. CASE StartJob \/ Refresh
  <2>1. PICK b \in Backends, f \in BOOLEAN : StartBuild(b, f) \/ StartUpdate(b)
    BY <1>2 DEF StartJob, Refresh
  <2>2. StartUpdate(b) => job'.kind # "build"
    BY DEF StartUpdate, NoJob
  <2> QED BY <2>1, <2>2, StartEmbeds, IdleEmbeds
<1>3. CASE BuildStep
  <2>1. FinishBuild => job' = NoJob
    BY DEF FinishBuild
  <2> QED BY <1>0, <1>3, <2>1, CrawlStepsEmbed, IndexItemEmbeds, EmbedBatchEmbeds,
        EndCrawlEmbeds, BackfillEmbeds, IdleEmbeds DEF BuildStep
<1>4. CASE UpdateStep \/ DeferredFails
  BY <1>4, UpdateStaysUpdate, IdleEmbeds
<1>5. CASE BuildFails \/ UpdateFails \/ Crash \/ Shutdown
  <2>1. job' = NoJob
    BY <1>5 DEF BuildFails, UpdateFails, Crash, Shutdown
  <2> QED BY <1>0, <2>1, IdleEmbeds
<1>6. CASE EmbedFails \/ RequestStop \/ Pause
  BY <1>6, GivenUpEmbeds
<1>7. CASE Resume
  <2>1. mem \in Index /\ job' = job
    BY <1>7 DEF TypeInv, TypeOK, Resume
  <2>2. mem'.rows = mem.rows /\ mem'.vectors = mem.vectors
    BY <1>7, <2>1 DEF Resume, PersistPaused, Index
  <2> QED BY <2>1, <2>2, JobSameEmbeds
<1>8. CASE UNCHANGED vars
  BY <1>8, JobSameEmbeds DEF vars
<1> QED BY <1>1, <1>2, <1>3, <1>4, <1>5, <1>6, <1>7, <1>8 DEF Next, Disturbance

\* A build about to be stamped holds no passage without a vector, however it
\* was interrupted and resumed (index-manager.ts:1725-1743).
THEOREM StampsOnlyEmbeddedHolds == Spec => []StampsOnlyEmbedded
<1>1. Init => EmbedInv
  BY DEF Init, NoJob, EmbedInv, Crawling, Finishing
<1>2. TypeInv /\ EmbedInv /\ [Next]_vars => EmbedInv'
  BY EmbedInvKept
<1>3. EmbedInv => StampsOnlyEmbedded
  BY DEF EmbedInv, Finishing, StampsOnlyEmbedded, EarnsStamp
<1> QED BY InitTypes, TypesKept, <1>1, <1>2, <1>3, PTL DEF Spec

-----------------------------------------------------------------------------
(* A stamp vouches for the index it is on: StampHonest, CheckpointHonest   *)
(* and BuildCovers.  What is proved of an index is said of explicit        *)
(* arguments, the library l, its versions m and its clock c, so that a     *)
(* lemma speaks as well of the state before a step as of the one after it. *)

-----------------------------------------------------------------------------
(* Listings, newest change first.                                          *)

Position(m, S, i) == Cardinality({k \in S : m[k] > m[i]})

Library(l, m, c) ==
  /\ l \in SUBSET Items
  /\ m \in [Items -> Nat]
  /\ c \in Nat
  /\ \A i \in Items : m[i] <= c
  /\ \A i \in l : m[i] # 0
  /\ \A i, k \in l : m[i] = m[k] => i = k

LEMMA RankIsPosition == \A S, i : Rank(S, i) = Position(mver, S, i)
BY DEF Rank, Position

\* A position is a number smaller than the length of the listing.
LEMMA PositionType ==
  ASSUME NEW m \in [Items -> Nat], NEW S \in SUBSET Items, NEW i \in Items
  PROVE  /\ Position(m, S, i) \in Nat
         /\ Cardinality(S) \in Nat
         /\ i \in S => Position(m, S, i) < Cardinality(S)
<1> DEFINE A == {k \in S : m[k] > m[i]}
<1>1. A \in SUBSET S /\ IsFiniteSet(S)
  BY ConstantsAssumption, FS_Subset
<1>2. Cardinality(A) \in Nat /\ Cardinality(S) \in Nat /\ Cardinality(A) <= Cardinality(S)
  BY <1>1, FS_Subset, FS_CardinalityType
<1>3. i \in S => A # S
  BY DEF A
<1>4. i \in S => Cardinality(A) # Cardinality(S)
  BY <1>1, <1>3, FS_Subset
<1> QED BY <1>2, <1>4 DEF Position

\* No two items have one position.
LEMMA PositionInjective ==
  ASSUME NEW m \in [Items -> Nat], NEW S \in SUBSET Items, NEW i \in S, NEW k \in S,
         Position(m, S, i) = Position(m, S, k)
  PROVE  m[i] = m[k]
<1>1. ASSUME NEW a \in S, NEW b \in S, m[a] < m[b], Position(m, S, a) = Position(m, S, b)
      PROVE  FALSE
  <2> DEFINE A == {x \in S : m[x] > m[a]}
             B == {x \in S : m[x] > m[b]}
  <2>1. A \in SUBSET S /\ IsFiniteSet(S)
    BY ConstantsAssumption, FS_Subset
  <2>2. IsFiniteSet(A)
    BY <2>1, FS_Subset
  <2>3. B \in SUBSET A /\ b \in A /\ b \notin B
    BY <1>1
  <2>4. Cardinality(B) # Cardinality(A)
    BY <2>2, <2>3, FS_Subset
  <2> QED BY <2>4, <1>1 DEF Position
<1>2. m[i] \in Nat /\ m[k] \in Nat
  OBVIOUS
<1> QED BY <1>1, <1>2

LEMMA IntervalCount ==
  ASSUME NEW a \in Nat, NEW n \in Nat
  PROVE  IsFiniteSet(a .. (a + n - 1)) /\ Cardinality(a .. (a + n - 1)) = n
<1> DEFINE b == a + n - 1
<1>1. a \in Int /\ b \in Int
  OBVIOUS
<1>2. (IF a > b THEN 0 ELSE b - a + 1) = n
  OBVIOUS
<1> HIDE DEF b
<1>3. IsFiniteSet(a .. b) /\ Cardinality(a .. b) = IF a > b THEN 0 ELSE b - a + 1
  BY <1>1, FS_Interval
<1>4. IsFiniteSet(a .. b) /\ Cardinality(a .. b) = n
  BY <1>2, <1>3
<1> QED BY <1>4 DEF b

\* Where no two items share a version, a listing of n items fills the positions below n.
LEMMA PositionFilled ==
  ASSUME NEW m \in [Items -> Nat], NEW S \in SUBSET Items,
         \A i, k \in S : m[i] = m[k] => i = k,
         NEW n \in Nat, n < Cardinality(S)
  PROVE  \E i \in S : Position(m, S, i) = n
<1> DEFINE T == 0 .. (0 + Cardinality(S) - 1)
           f == [i \in S |-> Position(m, S, i)]
<1>1. Cardinality(S) \in Nat
  BY FiniteCount
<1>2. \A i \in S : Position(m, S, i) \in T
  BY PositionType, <1>1
<1>3. f \in Injection(S, T)
  <2>1. f \in [S -> T]
    BY <1>2
  <2>2. \A i, k \in S : f[i] = f[k] => i = k
    BY PositionInjective
  <2> QED BY <2>1, <2>2 DEF Injection, IsInjective
<1>4. IsFiniteSet(T) /\ Cardinality(T) = Cardinality(S)
  BY <1>1, IntervalCount
<1>5. f \in Surjection(S, T)
  <2> HIDE DEF f, T
  <2> QED BY <1>3, <1>4, FS_Injection
<1>6. n \in T
  BY <1>1
<1> QED BY <1>5, <1>6 DEF Surjection

\* The listing moves down only: where an item is added or changed, the others keep their
\* order and move by one at most.
LEMMA PositionGrows ==
  ASSUME NEW m \in [Items -> Nat], NEW n \in [Items -> Nat],
         NEW S \in SUBSET Items, NEW T \in SUBSET Items,
         NEW i \in T, NEW k \in Items,
         n[i] > n[k], n[k] = m[k],
         S \ {i} \subseteq T,
         \A x \in S \ {i} : n[x] = m[x]
  PROVE  Position(m, S, k) <= Position(n, T, k)
<1> DEFINE A == {x \in S : m[x] > m[k]}
           B == {x \in T : n[x] > n[k]}
<1>1. A \in SUBSET B
  OBVIOUS
<1>2. IsFiniteSet(B)
  BY ConstantsAssumption, FS_Subset
<1>3. Cardinality(A) <= Cardinality(B)
  BY <1>1, <1>2, FS_Subset
<1> QED BY <1>3 DEF Position

\* A page names items of the listing by their positions, as many as it has room for, and
\* is empty only past the end.
LEMMA PageFacts ==
  ASSUME mver \in [Items -> Nat], NEW S \in SUBSET Items, NEW from \in Nat,
         NEW size \in Nat \ {0},
         \A i, k \in S : mver[i] = mver[k] => i = k
  PROVE  /\ \A e \in Page(S, from, size) :
              /\ e.key \in S
              /\ e.ver = mver[e.key]
              /\ e.pos = Position(mver, S, e.key)
              /\ from <= e.pos
              /\ e.pos < Cardinality(S)
         /\ \A e, f \in Page(S, from, size) : e.pos = f.pos => e = f
         /\ \A i \in S : \/ Position(mver, S, i) < from
                         \/ \E e \in Page(S, from, size) : e.key = i
                         \/ Position(mver, S, i) >= from + Cardinality(Page(S, from, size))
         /\ Page(S, from, size) = {} => \A i \in S : Position(mver, S, i) < from
         /\ IsFiniteSet(Page(S, from, size))
         /\ Page(S, from, size) \in SUBSET Entry
<1> DEFINE P == Page(S, from, size)
           T == from .. (from + size - 1)
           f == [e \in P |-> e.pos]
<1>1. P \in SUBSET Entry /\ Cardinality(P) \in Nat
  BY PageType
<1>2. \A i \in S : Position(mver, S, i) \in Nat /\ Position(mver, S, i) < Cardinality(S)
  BY PositionType
<1>3. \A e \in P : /\ e.key \in S /\ e.ver = mver[e.key]
                   /\ e.pos = Position(mver, S, e.key)
                   /\ from <= e.pos /\ e.pos < from + size
                   /\ e = [pos |-> e.pos, key |-> e.key, ver |-> e.ver]
  BY <1>2, RankIsPosition DEF Page
<1>4. \A i \in S : from <= Position(mver, S, i) /\ Position(mver, S, i) < from + size
        => \E e \in P : e.key = i
  <2> TAKE i \in S
  <2> HAVE from <= Position(mver, S, i) /\ Position(mver, S, i) < from + size
  <2>1. [pos |-> Rank(S, i), key |-> i, ver |-> mver[i]] \in P
    BY RankIsPosition DEF Page
  <2> QED BY <2>1
<1>5. \A e, g \in P : e.pos = g.pos => e = g
  <2> SUFFICES ASSUME NEW e \in P, NEW g \in P, e.pos = g.pos PROVE e = g
    OBVIOUS
  <2>1. mver[e.key] = mver[g.key]
    BY <1>3, PositionInjective
  <2>2. e.key = g.key
    BY <1>3, <2>1
  <2> QED BY <1>3, <2>2
<1>6. IsFiniteSet(P) /\ Cardinality(P) <= size
  <2>1. f \in Injection(P, T)
    <3>1. \A e \in P : e.pos \in T
      BY <1>1, <1>3 DEF Entry
    <3> HIDE DEF P, T
    <3> QED BY <1>5, <3>1 DEF Injection, IsInjective
  <2>2. IsFiniteSet(T) /\ Cardinality(T) = size
    BY IntervalCount
  <2> HIDE DEF f, P, T
  <2>3. IsFiniteSet(P) /\ Cardinality(P) <= Cardinality(T)
    BY <2>1, <2>2, FS_Injection
  <2> QED BY <2>2, <2>3
<1>7. P = {} => \A i \in S : Position(mver, S, i) < from
  <2> SUFFICES ASSUME P = {}, NEW i \in S, from <= Position(mver, S, i) PROVE FALSE
    BY <1>2
  <2>1. from < Cardinality(S)
    BY <1>2, FiniteCount
  <2>2. PICK k \in S : Position(mver, S, k) = from
    BY <2>1, PositionFilled
  <2> QED BY <1>4, <2>2
<1>8. \A i \in S : \/ Position(mver, S, i) < from
                   \/ \E e \in P : e.key = i
                   \/ Position(mver, S, i) >= from + Cardinality(P)
  BY <1>1, <1>2, <1>4, <1>6
<1> HIDE DEF P
<1>9. \A e \in P : /\ e.key \in S /\ e.ver = mver[e.key]
                   /\ e.pos = Position(mver, S, e.key)
                   /\ from <= e.pos /\ e.pos < Cardinality(S)
  BY <1>2, <1>3
<1> QED BY <1>1, <1>5, <1>6, <1>7, <1>8, <1>9 DEF P

LEMMA VersionFacts ==
  ASSUME NEW b \in Backends, NEW s \in Nat, NEW t \in Nat
  PROVE  /\ VersionOf(b, s) \in Nat /\ VersionOf(b, t) \in Nat
         /\ s <= t => VersionOf(b, s) <= VersionOf(b, t)
         /\ b \in Versioned /\ s < t => VersionOf(b, s) < VersionOf(b, t)
         /\ b \notin Versioned => VersionOf(b, s) = 0
BY ConstantsAssumption DEF VersionOf

-----------------------------------------------------------------------------
(* The invariant.                                                          *)

\* A build is not resumed over an API that numbers versions differently.
SameNumbers == ~ResumesElsewhere \/ \A b, c \in Backends : b = c

\* Item i is held as it is, or ?since=v on backend b will name it.
Current(idx, m, i, b, v) == idx.rows[i] = m[i] \/ VersionOf(b, m[i]) > v

LeftOut(idx, i) == ~Uncapped /\ idx.rows[i] = 0

\* A stamped index was completed, over an API that numbers versions.
StampPart(idx, l, m, c) ==
  idx.libraryVersion # 0 =>
    /\ idx.libraryBackend \in Versioned
    /\ idx.libraryVersion <= VersionOf(idx.libraryBackend, c)
    /\ idx.checkpoint = None
    /\ \A i \in l : \/ Current(idx, m, i, idx.libraryBackend, idx.libraryVersion)
                    \/ LeftOut(idx, i)

\* What an interrupted build left behind can be continued: its rows are as the
\* version its crawl began at says, and, where nothing has changed since, what
\* it lacks is listed at its offset or later.
CheckpointPart(idx, l, m, c) ==
  LET cp == idx.checkpoint IN
  cp # None =>
    /\ cp.crawlVersion <= VersionOf(cp.backend, c)
    /\ cp.backend \in Versioned =>
         /\ Held(idx) # {} => cp.crawlVersion # 0
         /\ \A i \in l \cap Held(idx) : Current(idx, m, i, cp.backend, cp.crawlVersion)
         /\ cp.crawlVersion = VersionOf(cp.backend, c) =>
              \A i \in l \ Held(idx) : Position(m, l, i) >= cp.crawlOffset

IndexPart(idx, l, m, c) == StampPart(idx, l, m, c) /\ CheckpointPart(idx, l, m, c)

BuildBasics(j, idx, c) ==
  /\ idx.libraryVersion = 0
  /\ Held(idx) = j.known \cup j.indexed
  /\ j.crawlVersion <= VersionOf(j.backend, c)
  /\ idx.checkpoint # None => /\ idx.checkpoint.backend = j.backend
                              /\ idx.checkpoint.crawlVersion = j.crawlVersion
  /\ j.startedAt <= c
  /\ ~j.resumed /\ j.crawlVersion # 0 => j.crawlVersion >= VersionOf(j.backend, j.startedAt)
  /\ j.backend \in Versioned /\ j.crawlVersion = 0 =>
       /\ Held(idx) = {}
       /\ j.start = 0
       /\ j.pc \notin {"items", "embed"}
       /\ j.pc = "fetch" => idx.checkpoint = None
  /\ j.unverified => /\ j.resumed
                     /\ j.pc = "fetch" => idx.checkpoint # None
                     /\ j.pc # "fetch" => j.cancelled \/ CapReached(j)

\* The rows are as the crawl's version says.
BuildRows(j, idx, l, m) ==
  j.backend \in Versioned =>
    \A i \in l \cap Held(idx) : Current(idx, m, i, j.backend, j.crawlVersion)

\* What this crawl has still to come to: the library held it before the crawl.
Owed(j, idx, l, m, i) ==
  /\ i \in l \ Held(idx)
  /\ \/ m[i] <= j.startedAt
     \/ j.crawlVersion # 0 /\ VersionOf(j.backend, m[i]) <= j.crawlVersion

\* A page read some time ago still says what it has to.
BuildBatch(j, idx, l, m) ==
  /\ j.pc # "items" => j.batch = {}
  /\ Cardinality(j.batch) \in Nat
  /\ j.pc = "items" => j.consumed <= Cardinality(j.batch)
  /\ \A e \in j.batch :
       /\ e.ver # 0
       /\ e.pos < j.total
       /\ Owed(j, idx, l, m, e.key) => Position(m, l, e.key) >= e.pos
       /\ j.backend \in Versioned /\ e.key \in l =>
            e.ver = m[e.key] \/ VersionOf(j.backend, m[e.key]) > j.crawlVersion
  /\ \A e, f \in j.batch : f.pos = e.pos => f = e

\* May the crawl's offset be relied on?
Trusted(j, c) ==
  /\ j.backend \in Versioned \/ ~j.resumed
  /\ j.unverified => j.crawlVersion = VersionOf(j.backend, c)

\* What is owed lies ahead, where the crawl has yet to look.
LiesAhead(j, l, m, i) ==
  /\ j.pc = "fetch" => Position(m, l, i) >= j.start
  /\ j.pc = "items" =>
       \/ \E e \in j.batch : e.key = i /\ e.pos >= j.start + j.consumed
       \/ /\ Position(m, l, i) >= j.start + Cardinality(j.batch)
          /\ j.start + Cardinality(j.batch) < j.total
  /\ j.pc = "embed" => Position(m, l, i) >= j.start /\ j.start < j.total
  /\ j.pc \in {"drain", "backfill", "finish"} =>
       Position(m, l, i) >= j.start /\ (j.cancelled \/ CapReached(j))

BuildAhead(j, idx, l, m, c) ==
  Trusted(j, c) => \A i \in Items : Owed(j, idx, l, m, i) => LiesAhead(j, l, m, i)

BuildPart(j, idx, l, m, c) ==
  /\ BuildBasics(j, idx, c)
  /\ BuildRows(j, idx, l, m)
  /\ BuildBatch(j, idx, l, m)
  /\ BuildAhead(j, idx, l, m, c)

\* What ?since=v names.
Since(b, v, l, m) == {i \in l : VersionOf(b, m[i]) > v}

\* The update has item i as it was when it began, or left it out at the cap.
Settled(j, idx, m, i) == Current(idx, m, i, j.backend, j.crawlVersion) \/ LeftOut(idx, i)

UpdateBasics(j, idx, c) ==
  /\ idx.libraryVersion # 0
  /\ idx.libraryBackend = j.backend
  /\ Held(idx) \subseteq j.known
  /\ j.crawlVersion <= VersionOf(j.backend, c)
  /\ j.crawlVersion = 0 => j.pc = "fetch" /\ j.start = 0
  /\ j.crawlVersion # 0 => idx.libraryVersion <= j.crawlVersion

UpdateRows(j, idx, l, m) ==
  j.crawlVersion # 0 =>
    \A i \in l :
      \/ Settled(j, idx, m, i)
      \/ /\ j.pc = "fetch"
         /\ i \in Since(j.backend, idx.libraryVersion, l, m)
         /\ Position(m, Since(j.backend, idx.libraryVersion, l, m), i) >= j.start

\* An item the census has not met lies ahead of it, or came after it began.
UpdateCensus(j, l, m) ==
  \A i \in l :
    \/ VersionOf(j.backend, m[i]) > j.crawlVersion
    \/ i \in j.census
    \/ j.pc = "fetch"
    \/ j.pc = "live" /\ Position(m, l, i) >= j.start

UpdatePart(j, idx, l, m, c) ==
  UpdateBasics(j, idx, c) /\ UpdateRows(j, idx, l, m) /\ UpdateCensus(j, l, m)

JobPart(j, idx, l, m, c) ==
  /\ j.kind = "build" => BuildPart(j, idx, l, m, c)
  /\ j.kind = "update" /\ j.pc # "deferred" => UpdatePart(j, idx, l, m, c)

StampInv ==
  /\ Library(live, mver, clock)
  /\ IndexPart(mem, live, mver, clock)
  /\ IndexPart(disk, live, mver, clock)
  /\ JobPart(job, mem, live, mver, clock)

-----------------------------------------------------------------------------
(* The library changes.                                                    *)

LEMMA ModifyKeepsLibrary ==
  ASSUME NEW l, NEW m, NEW c, Library(l, m, c), NEW i \in Items
  PROVE  Library(l \cup {i}, [m EXCEPT ![i] = c + 1], c + 1)
BY DEF Library

LEMMA RemoveKeepsLibrary ==
  ASSUME NEW l, NEW m, NEW c, Library(l, m, c), NEW i \in Items
  PROVE  Library(l \ {i}, [m EXCEPT ![i] = 0], c + 1)
BY DEF Library

\* What is said of an index stays true when the library moves on: what it then holds is as
\* it was or is new.
LEMMA ChangeKeepsIndex ==
  ASSUME NEW l, NEW m, NEW c, Library(l, m, c),
         NEW t \in SUBSET Items, NEW n \in [Items -> Nat],
         \A k \in t : n[k] = c + 1 \/ (k \in l /\ n[k] = m[k]),
         NEW idx \in Index, IndexPart(idx, l, m, c)
  PROVE  IndexPart(idx, t, n, c + 1)
<1>1. /\ m \in [Items -> Nat] /\ c \in Nat /\ l \in SUBSET Items
      /\ \A k \in Items : m[k] <= c
  BY DEF Library
<1>4. StampPart(idx, t, n, c + 1)
  <2> SUFFICES ASSUME idx.libraryVersion # 0
               PROVE  /\ idx.libraryBackend \in Versioned
                      /\ idx.libraryVersion <= VersionOf(idx.libraryBackend, c + 1)
                      /\ idx.checkpoint = None
                      /\ \A k \in t :
                           \/ Current(idx, n, k, idx.libraryBackend, idx.libraryVersion)
                           \/ LeftOut(idx, k)
    BY DEF StampPart
  <2> DEFINE b == idx.libraryBackend
             v == idx.libraryVersion
  <2>1. b \in Versioned /\ v <= VersionOf(b, c) /\ idx.checkpoint = None
    BY DEF IndexPart, StampPart
  <2>2. b \in Backends /\ v \in Nat
    BY <2>1, ConstantsAssumption DEF Index
  <2>3. VersionOf(b, c) < VersionOf(b, c + 1) /\ VersionOf(b, c) \in Nat /\ VersionOf(b, c + 1) \in Nat
    BY <1>1, <2>1, <2>2, VersionFacts
  <2>4. \A k \in l : Current(idx, m, k, b, v) \/ LeftOut(idx, k)
    BY DEF IndexPart, StampPart
  <2> HIDE DEF b, v
  <2>5. \A k \in t : n[k] = c + 1 => Current(idx, n, k, b, v)
    BY <1>1, <2>1, <2>2, <2>3 DEF Current
  <2>6. \A k \in t : Current(idx, n, k, b, v) \/ LeftOut(idx, k)
    BY <2>4, <2>5 DEF Current
  <2> QED BY <2>1, <2>2, <2>3, <2>6 DEF b, v
<1>5. CheckpointPart(idx, t, n, c + 1)
  <2> DEFINE cp == idx.checkpoint
             b == cp.backend
             v == cp.crawlVersion
  <2> SUFFICES ASSUME cp # None
               PROVE  /\ v <= VersionOf(b, c + 1)
                      /\ b \in Versioned =>
                           /\ Held(idx) # {} => v # 0
                           /\ \A k \in t \cap Held(idx) : Current(idx, n, k, b, v)
                           /\ v # VersionOf(b, c + 1)
    BY DEF CheckpointPart
  <2>1. cp \in Checkpoint
    BY DEF Index
  <2>2. b \in Backends /\ v \in Nat
    BY <2>1 DEF Checkpoint
  <2>3. v <= VersionOf(b, c)
    BY DEF IndexPart, CheckpointPart
  <2>4. /\ VersionOf(b, c) <= VersionOf(b, c + 1)
        /\ VersionOf(b, c) \in Nat /\ VersionOf(b, c + 1) \in Nat
        /\ b \in Versioned => VersionOf(b, c) < VersionOf(b, c + 1)
    BY <1>1, <2>2, VersionFacts
  <2>5. b \in Versioned =>
          /\ Held(idx) # {} => v # 0
          /\ \A k \in l \cap Held(idx) : Current(idx, m, k, b, v)
    BY DEF IndexPart, CheckpointPart
  <2> HIDE DEF cp, b, v
  <2>6. b \in Versioned => \A k \in t : n[k] = c + 1 => Current(idx, n, k, b, v)
    BY <1>1, <2>2, <2>3, <2>4 DEF Current
  <2>7. b \in Versioned => \A k \in t \cap Held(idx) : Current(idx, n, k, b, v)
    BY <2>5, <2>6 DEF Current
  <2> QED BY <2>2, <2>3, <2>4, <2>5, <2>7
<1> QED BY <1>4, <1>5 DEF IndexPart

\* What an item that changed while the build ran is to it: not owed.  The others lie where
\* they lay, or further on.
LEMMA ModifyKeepsBuild ==
  ASSUME NEW l, NEW m, NEW c, Library(l, m, c), NEW i \in Items,
         NEW idx \in Index, NEW j \in Job, j.backend \in Backends,
         BuildPart(j, idx, l, m, c)
  PROVE  BuildPart(j, idx, l \cup {i}, [m EXCEPT ![i] = c + 1], c + 1)
<1> DEFINE n == [m EXCEPT ![i] = c + 1]
           t == l \cup {i}
           b == j.backend
           v == j.crawlVersion
<1>1. /\ m \in [Items -> Nat] /\ c \in Nat /\ l \in SUBSET Items
      /\ \A k \in Items : m[k] <= c
  BY DEF Library
<1>2. /\ n \in [Items -> Nat] /\ t \in SUBSET Items
      /\ n[i] = c + 1
      /\ \A k \in Items : k # i => n[k] = m[k]
      /\ \A k \in t : k = i \/ k \in l
  BY <1>1
<1>3. v \in Nat /\ j.startedAt \in Nat /\ j.start \in Nat /\ j.consumed \in Nat /\ j.total \in Nat
      /\ j.batch \in SUBSET Entry
  BY DEF Job
<1>4. /\ VersionOf(b, c) \in Nat /\ VersionOf(b, c + 1) \in Nat
      /\ VersionOf(b, c) <= VersionOf(b, c + 1)
      /\ b \in Versioned => VersionOf(b, c) < VersionOf(b, c + 1)
      /\ b \notin Versioned => VersionOf(b, c) = 0 /\ VersionOf(b, c + 1) = 0
  BY <1>1, VersionFacts
<1>5. v <= VersionOf(b, c) /\ j.startedAt <= c
  BY DEF BuildPart, BuildBasics
<1>6. \A k \in Items : k # i => /\ Position(m, l, k) \in Nat
                                /\ Position(n, t, k) \in Nat
                                /\ Position(m, l, k) <= Position(n, t, k)
  <2> TAKE k \in Items
  <2> HAVE k # i
  <2>1. n[i] > n[k] /\ n[k] = m[k]
    BY <1>1, <1>2
  <2>2. l \ {i} \subseteq t /\ i \in t
    OBVIOUS
  <2>3. \A x \in l \ {i} : n[x] = m[x]
    BY <1>1, <1>2
  <2> HIDE DEF n, t
  <2>4. Position(m, l, k) \in Nat /\ Position(n, t, k) \in Nat
    BY <1>1, <1>2, PositionType
  <2>5. Position(m, l, k) <= Position(n, t, k)
    BY <1>1, <1>2, <2>1, <2>2, <2>3, PositionGrows
  <2> QED BY <2>4, <2>5
<1>7. b \in Versioned => VersionOf(b, n[i]) > v
  BY <1>2, <1>3, <1>4, <1>5
<1>8. \A k \in Items : Owed(j, idx, t, n, k) => k # i /\ Owed(j, idx, l, m, k)
  <2> SUFFICES ASSUME NEW k \in Items, Owed(j, idx, t, n, k)
               PROVE  k # i /\ Owed(j, idx, l, m, k)
    OBVIOUS
  <2>1. k # i
    <3> SUFFICES ASSUME k = i PROVE FALSE
      OBVIOUS
    <3>1. c + 1 <= j.startedAt \/ (v # 0 /\ VersionOf(b, c + 1) <= v)
      BY <1>2 DEF Owed
    <3> QED BY <1>1, <1>3, <1>4, <1>5, <3>1
  <2> QED BY <1>2, <2>1 DEF Owed
<1>9. Trusted(j, c + 1) => Trusted(j, c)
  BY <1>3, <1>4, <1>5 DEF Trusted
<1> HIDE DEF n, t, b, v
<1>10. BuildBasics(j, idx, c + 1)
  BY <1>1, <1>3, <1>4, <1>5 DEF BuildPart, BuildBasics, b, v
<1>11. BuildRows(j, idx, t, n)
  <2> SUFFICES ASSUME b \in Versioned, NEW k \in t \cap Held(idx)
               PROVE  Current(idx, n, k, b, v)
    BY DEF BuildRows, b, v
  <2>1. k \in l => Current(idx, m, k, b, v)
    BY DEF BuildPart, BuildRows, b, v
  <2> QED BY <1>2, <1>7, <2>1 DEF Current
<1>12. BuildBatch(j, idx, t, n)
  <2>1. \A e \in j.batch :
          /\ Owed(j, idx, t, n, e.key) => Position(n, t, e.key) >= e.pos
          /\ b \in Versioned /\ e.key \in t => e.ver = n[e.key] \/ VersionOf(b, n[e.key]) > v
    <3> SUFFICES ASSUME NEW e \in j.batch
                 PROVE  /\ Owed(j, idx, t, n, e.key) => Position(n, t, e.key) >= e.pos
                        /\ b \in Versioned /\ e.key \in t =>
                             e.ver = n[e.key] \/ VersionOf(b, n[e.key]) > v
      OBVIOUS
    <3>1. e.key \in Items /\ e.pos \in Nat
      BY <1>3 DEF Entry
    <3>2. /\ Owed(j, idx, l, m, e.key) => Position(m, l, e.key) >= e.pos
          /\ b \in Versioned /\ e.key \in l => e.ver = m[e.key] \/ VersionOf(b, m[e.key]) > v
      BY DEF BuildPart, BuildBatch, b, v
    <3>3. Owed(j, idx, t, n, e.key) => Position(n, t, e.key) >= e.pos
      BY <1>6, <1>8, <3>1, <3>2
    <3>4. b \in Versioned /\ e.key \in t => e.ver = n[e.key] \/ VersionOf(b, n[e.key]) > v
      BY <1>2, <1>7, <3>1, <3>2
    <3> QED BY <3>3, <3>4
  <2> QED BY <2>1 DEF BuildPart, BuildBatch, b, v
<1>13. BuildAhead(j, idx, t, n, c + 1)
  <2> SUFFICES ASSUME Trusted(j, c + 1), NEW k \in Items, Owed(j, idx, t, n, k)
               PROVE  LiesAhead(j, t, n, k)
    BY DEF BuildAhead
  <2>1. k # i /\ LiesAhead(j, l, m, k)
    BY <1>8, <1>9 DEF BuildPart, BuildAhead
  <2>2. /\ Position(m, l, k) \in Nat /\ Position(n, t, k) \in Nat
        /\ Position(m, l, k) <= Position(n, t, k)
    BY <1>6, <2>1
  <2>3. j.pc = "items" =>
       \/ \E e \in j.batch : e.key = k /\ e.pos >= j.start + j.consumed
       \/ /\ Position(n, t, k) >= j.start + Cardinality(j.batch)
          /\ j.start + Cardinality(j.batch) < j.total
    <3> SUFFICES ASSUME Position(m, l, k) >= j.start + Cardinality(j.batch),
                        j.start + Cardinality(j.batch) < j.total
                 PROVE  Position(n, t, k) >= j.start + Cardinality(j.batch)
      BY <2>1 DEF LiesAhead
    <3>1. Cardinality(j.batch) \in Nat
      BY DEF BuildPart, BuildBatch
    <3> QED BY <1>3, <2>2, <3>1
  <2> QED BY <1>3, <2>1, <2>2, <2>3 DEF LiesAhead
<1> QED BY <1>10, <1>11, <1>12, <1>13 DEF BuildPart, n, t

LEMMA ModifyKeepsUpdate ==
  ASSUME NEW l, NEW m, NEW c, Library(l, m, c), NEW i \in Items,
         NEW idx \in Index, NEW j \in Job, j.backend \in Backends,
         IndexPart(idx, l, m, c),
         UpdatePart(j, idx, l, m, c)
  PROVE  UpdatePart(j, idx, l \cup {i}, [m EXCEPT ![i] = c + 1], c + 1)
<1> DEFINE n == [m EXCEPT ![i] = c + 1]
           t == l \cup {i}
           b == j.backend
           v == j.crawlVersion
           lv == idx.libraryVersion
           A == Since(b, lv, l, m)
           B == Since(b, lv, t, n)
<1>1. /\ m \in [Items -> Nat] /\ c \in Nat /\ l \in SUBSET Items
      /\ \A k \in Items : m[k] <= c
  BY DEF Library
<1>2. /\ n \in [Items -> Nat] /\ t \in SUBSET Items
      /\ n[i] = c + 1
      /\ \A k \in Items : k # i => n[k] = m[k]
      /\ \A k \in t : k = i \/ k \in l
  BY <1>1
<1>3. v \in Nat /\ j.start \in Nat /\ lv \in Nat
  BY DEF Job, Index
<1>4. b \in Versioned /\ lv <= VersionOf(b, c) /\ v <= VersionOf(b, c)
  BY DEF UpdatePart, UpdateBasics, IndexPart, StampPart
<1>5. /\ VersionOf(b, c) \in Nat /\ VersionOf(b, c + 1) \in Nat
      /\ VersionOf(b, c) < VersionOf(b, c + 1)
  BY <1>1, <1>4, VersionFacts
<1>6. VersionOf(b, n[i]) > v /\ VersionOf(b, n[i]) > lv
  BY <1>2, <1>3, <1>4, <1>5
<1>7. A \in SUBSET Items /\ B \in SUBSET Items /\ i \in B /\ A \ {i} \subseteq B
  BY <1>1, <1>2, <1>6 DEF Since
<1>8. \A k \in Items : k # i => /\ Position(m, l, k) \in Nat
                                /\ Position(n, t, k) \in Nat
                                /\ Position(m, l, k) <= Position(n, t, k)
                                /\ Position(m, A, k) \in Nat
                                /\ Position(n, B, k) \in Nat
                                /\ Position(m, A, k) <= Position(n, B, k)
  <2> HIDE DEF A, B
  <2> SUFFICES ASSUME NEW k \in Items, k # i
               PROVE  /\ Position(m, l, k) \in Nat
                      /\ Position(n, t, k) \in Nat
                      /\ Position(m, l, k) <= Position(n, t, k)
                      /\ Position(m, A, k) \in Nat
                      /\ Position(n, B, k) \in Nat
                      /\ Position(m, A, k) <= Position(n, B, k)
    OBVIOUS
  <2>1. n[i] > n[k] /\ n[k] = m[k]
    BY <1>1, <1>2
  <2>2. l \ {i} \subseteq t /\ i \in t
    OBVIOUS
  <2>6. \A x \in l \ {i} : n[x] = m[x]
    BY <1>1, <1>2
  <2>7. \A x \in A \ {i} : n[x] = m[x]
    BY <1>1, <1>2, <1>7
  <2> HIDE DEF n, t
  <2>3. /\ Position(m, l, k) \in Nat /\ Position(n, t, k) \in Nat
        /\ Position(m, A, k) \in Nat /\ Position(n, B, k) \in Nat
    BY <1>1, <1>2, <1>7, PositionType
  <2>4. Position(m, l, k) <= Position(n, t, k)
    BY <1>1, <1>2, <2>1, <2>2, <2>6, PositionGrows
  <2>5. Position(m, A, k) <= Position(n, B, k)
    BY <1>1, <1>2, <1>7, <2>1, <2>7, PositionGrows
  <2> QED BY <2>3, <2>4, <2>5
<1> HIDE DEF n, t, b, v, lv
<1>9. UpdateBasics(j, idx, c + 1)
  BY <1>1, <1>3, <1>4, <1>5 DEF UpdatePart, UpdateBasics, b, v
<1>10. UpdateRows(j, idx, t, n)
  <2> SUFFICES ASSUME v # 0, NEW k \in t, ~Settled(j, idx, n, k)
               PROVE  j.pc = "fetch" /\ k \in B /\ Position(n, B, k) >= j.start
    BY DEF UpdateRows, b, v, lv
  <2>1. k # i
    BY <1>6 DEF Settled, Current, b, v
  <2>2. k \in l /\ n[k] = m[k] /\ k \in Items
    BY <1>1, <1>2, <2>1
  <2>3. ~Settled(j, idx, m, k)
    BY <2>2 DEF Settled, Current
  <2>4. j.pc = "fetch" /\ k \in A /\ Position(m, A, k) >= j.start
    BY <2>2, <2>3 DEF UpdatePart, UpdateRows, b, v, lv
  <2> HIDE DEF A, B
  <2>5. k \in B
    BY <1>7, <2>1, <2>4
  <2> QED BY <1>3, <1>8, <2>1, <2>2, <2>4, <2>5
<1>11. UpdateCensus(j, t, n)
  <2> SUFFICES ASSUME NEW k \in t, ~(VersionOf(b, n[k]) > v), k \notin j.census, j.pc # "fetch"
               PROVE  j.pc = "live" /\ Position(n, t, k) >= j.start
    BY DEF UpdateCensus, b, v
  <2>1. k # i
    BY <1>6
  <2>2. k \in l /\ n[k] = m[k] /\ k \in Items
    BY <1>1, <1>2, <2>1
  <2>3. j.pc = "live" /\ Position(m, l, k) >= j.start
    BY <2>2 DEF UpdatePart, UpdateCensus, b, v
  <2> QED BY <1>3, <1>8, <2>1, <2>2, <2>3
<1> QED BY <1>9, <1>10, <1>11 DEF UpdatePart, n, t

LEMMA ModifyKeepsStampInv ==
  ASSUME TypeInv, StampInv, NEW i \in Items, Modify(i)
  PROVE  StampInv'
<1> DEFINE n == [mver EXCEPT ![i] = clock + 1]
           t == live \cup {i}
<1>1. live' = t /\ mver' = n /\ clock' = clock + 1 /\ mem' = mem /\ disk' = disk /\ job' = job
  BY DEF Modify
<1>2. mem \in Index /\ disk \in Index /\ job \in Job
  BY DEF TypeInv, TypeOK
<1>3. Library(t, n, clock + 1)
  BY ModifyKeepsLibrary DEF StampInv
<1>4. \A k \in t : n[k] = clock + 1 \/ (k \in live /\ n[k] = mver[k])
  BY DEF TypeInv, TypeOK
<1>5. t \in SUBSET Items /\ n \in [Items -> Nat]
  BY <1>3 DEF Library
<1>6. JobPart(job, mem, t, n, clock + 1)
  <2>1. job.kind # "idle" => job.backend \in Backends
    BY DEF TypeInv, JobServed
  <2>2. Library(live, mver, clock) /\ JobPart(job, mem, live, mver, clock)
        /\ IndexPart(mem, live, mver, clock)
    BY DEF StampInv
  <2>3. job.kind = "build" => BuildPart(job, mem, t, n, clock + 1)
    BY <1>2, <2>1, <2>2, ModifyKeepsBuild DEF JobPart
  <2>4. job.kind = "update" /\ job.pc # "deferred" => UpdatePart(job, mem, t, n, clock + 1)
    BY <1>2, <2>1, <2>2, ModifyKeepsUpdate DEF JobPart
  <2> QED BY <2>3, <2>4 DEF JobPart
<1> HIDE DEF n, t
<1>7. IndexPart(mem, t, n, clock + 1) /\ IndexPart(disk, t, n, clock + 1)
  BY <1>2, <1>4, <1>5, ChangeKeepsIndex DEF StampInv
<1> QED BY <1>1, <1>3, <1>6, <1>7 DEF StampInv

LEMMA RemoveKeepsStampInv ==
  ASSUME ~RemovesDuringJobs, TypeInv, StampInv, NEW i \in Items, Remove(i)
  PROVE  StampInv'
<1> DEFINE n == [mver EXCEPT ![i] = 0]
           t == live \ {i}
<1>1. live' = t /\ mver' = n /\ clock' = clock + 1 /\ mem' = mem /\ disk' = disk /\ job' = job
  BY DEF Remove
<1>2. mem \in Index /\ disk \in Index /\ job.kind = "idle"
  BY DEF TypeInv, TypeOK, Remove
<1>3. Library(t, n, clock + 1)
  BY RemoveKeepsLibrary DEF StampInv
<1>4. \A k \in t : n[k] = clock + 1 \/ (k \in live /\ n[k] = mver[k])
  BY DEF TypeInv, TypeOK
<1>5. t \in SUBSET Items /\ n \in [Items -> Nat]
  BY <1>3 DEF Library
<1> HIDE DEF n, t
<1>7. IndexPart(mem, t, n, clock + 1) /\ IndexPart(disk, t, n, clock + 1)
  BY <1>2, <1>4, <1>5, ChangeKeepsIndex DEF StampInv
<1> QED BY <1>1, <1>2, <1>3, <1>7 DEF StampInv, JobPart

-----------------------------------------------------------------------------
(* What a job's steps have in common.                                      *)

\* Vectors and the pause flag are no part of it.
LEMMA IndexSame ==
  ASSUME NEW l, NEW m, NEW c, NEW idx, NEW jdx, IndexPart(idx, l, m, c),
         jdx.rows = idx.rows, jdx.checkpoint = idx.checkpoint,
         jdx.libraryVersion = idx.libraryVersion,
         jdx.libraryBackend = idx.libraryBackend
  PROVE  IndexPart(jdx, l, m, c)
BY DEF IndexPart, StampPart, CheckpointPart, Current, LeftOut, Held

\* Whatever a commit writes is what the process sees then, or saw before.
LEMMA StoreStep ==
  ASSUME StampInv, LibraryUnchanged,
         IndexPart(mem', live, mver, clock),
         disk' \in {disk, mem, mem'},
         JobPart(job', mem', live, mver, clock)
  PROVE  StampInv'
<1>1. live' = live /\ mver' = mver /\ clock' = clock
  BY DEF LibraryUnchanged, libraryVars
<1>2. IndexPart(disk', live, mver, clock)
  BY DEF StampInv
<1> QED BY <1>1, <1>2 DEF StampInv

LEMMA NoJobPart ==
  ASSUME NEW idx, NEW l, NEW m, NEW c
  PROVE  JobPart(NoJob, idx, l, m, c)
BY DEF JobPart, NoJob

\* Where it is said of an index with one meta row, it is said of the other.
LEMMA OwedSame ==
  ASSUME NEW j, NEW k, NEW idx, NEW jdx, NEW l, NEW m, NEW i,
         jdx.rows = idx.rows,
         k.startedAt = j.startedAt, k.crawlVersion = j.crawlVersion, k.backend = j.backend
  PROVE  Owed(k, jdx, l, m, i) <=> Owed(j, idx, l, m, i)
BY DEF Owed, Held

BuildPhase == {"fetch", "items", "embed", "drain", "backfill", "finish"}

\* A build can be interrupted anywhere: its checkpoint describes its rows, and skips
\* nothing it owes.
LEMMA NotedIsHonest ==
  ASSUME NEW l, NEW m, NEW c, Library(l, m, c),
         NEW idx \in Index, NEW j \in Job, j.backend \in Backends, j.pc \in BuildPhase,
         BuildPart(j, idx, l, m, c),
         NEW jdx, jdx.rows = idx.rows, jdx.libraryVersion = 0,
         jdx.checkpoint = NoteCheckpoint(j)
  PROVE  IndexPart(jdx, l, m, c)
<1> DEFINE b == j.backend
           v == j.crawlVersion
<1>1. /\ m \in [Items -> Nat] /\ c \in Nat /\ l \in SUBSET Items
      /\ \A k \in Items : m[k] <= c
  BY DEF Library
<1>2. v \in Nat /\ j.start \in Nat /\ j.consumed \in Nat /\ j.batch \in SUBSET Entry
  BY DEF Job
<1>3. /\ jdx.checkpoint.crawlOffset = j.start
      /\ jdx.checkpoint.crawlVersion = v
      /\ jdx.checkpoint.backend = b
  BY DEF NoteCheckpoint
<1>4. StampPart(jdx, l, m, c)
  BY DEF StampPart
<1>5. v <= VersionOf(b, c)
  BY DEF BuildPart, BuildBasics
<1>6. Held(jdx) = Held(idx)
  BY DEF Held
<1> HIDE DEF b, v
<1>7. ASSUME b \in Versioned
      PROVE  /\ Held(jdx) # {} => v # 0
             /\ \A i \in l \cap Held(jdx) : Current(jdx, m, i, b, v)
  BY <1>6, <1>7 DEF BuildPart, BuildBasics, BuildRows, Current, b, v
<1>8. ASSUME b \in Versioned, v = VersionOf(b, c), NEW i \in l \ Held(jdx)
      PROVE  Position(m, l, i) >= j.start
  <2>1. i \in Items /\ Position(m, l, i) \in Nat
    BY <1>1, PositionType
  <2>2. CASE v = 0
    BY <1>2, <1>8, <2>1, <2>2 DEF BuildPart, BuildBasics, b, v
  <2>3. CASE v # 0
    <3>1. Owed(j, idx, l, m, i)
      BY <1>1, <1>6, <1>8, <2>1, <2>3, VersionFacts DEF Owed, b, v
    <3>2. LiesAhead(j, l, m, i)
      BY <1>8, <2>1, <3>1 DEF BuildPart, BuildAhead, Trusted, b, v
    <3>3. CASE j.pc = "items"
      <4>1. Cardinality(j.batch) \in Nat
        BY DEF BuildPart, BuildBatch
      <4>2. CASE \E e \in j.batch : e.key = i /\ e.pos >= j.start + j.consumed
        <5>1. PICK e \in j.batch : e.key = i /\ e.pos >= j.start + j.consumed
          BY <4>2
        <5>2. Position(m, l, i) >= e.pos
          BY <3>1, <5>1 DEF BuildPart, BuildBatch
        <5>3. e.pos \in Nat
          BY <1>2 DEF Entry
        <5> QED BY <1>2, <2>1, <5>1, <5>2, <5>3
      <4> QED BY <1>2, <2>1, <3>2, <3>3, <4>1, <4>2 DEF LiesAhead
    <3> QED BY <3>2, <3>3 DEF LiesAhead, BuildPhase
  <2> QED BY <2>2, <2>3
<1>9. CheckpointPart(jdx, l, m, c)
  BY <1>3, <1>5, <1>7, <1>8 DEF CheckpointPart
<1> QED BY <1>4, <1>9 DEF IndexPart

\* A step that embeds, commits, notes a checkpoint or goes on to the next pass of the
\* build changes nothing the invariant speaks of.
LEMMA BuildGoesOn ==
  ASSUME NEW l, NEW m, NEW c, NEW idx, NEW jdx, NEW j, NEW k,
         BuildPart(j, idx, l, m, c),
         jdx.rows = idx.rows, jdx.libraryVersion = idx.libraryVersion,
         \/ jdx.checkpoint = idx.checkpoint
         \/ j.pc \in {"embed", "drain", "backfill", "finish"} /\ jdx.checkpoint = NoteCheckpoint(j),
         k.backend = j.backend, k.start = j.start, k.consumed = j.consumed,
         k.batch = j.batch, k.total = j.total, k.crawlVersion = j.crawlVersion,
         k.known = j.known, k.indexed = j.indexed, k.unverified = j.unverified,
         k.resumed = j.resumed, k.startedAt = j.startedAt,
         j.cancelled => k.cancelled,
         k.pc = j.pc \/ {j.pc, k.pc} \subseteq {"drain", "backfill", "finish"}
  PROVE  BuildPart(k, jdx, l, m, c)
<1>1. Held(jdx) = Held(idx) /\ (CapReached(k) <=> CapReached(j))
  BY DEF Held, CapReached, Fetched
<1>2. \A i : Owed(k, jdx, l, m, i) <=> Owed(j, idx, l, m, i)
  BY OwedSame
<1>3. BuildBasics(k, jdx, c)
  BY <1>1 DEF BuildPart, BuildBasics, NoteCheckpoint
<1>4. BuildRows(k, jdx, l, m)
  BY <1>1 DEF BuildPart, BuildRows, Current
<1>5. BuildBatch(k, jdx, l, m)
  BY <1>2 DEF BuildPart, BuildBatch
<1>6. BuildAhead(k, jdx, l, m, c)
  <2> SUFFICES ASSUME Trusted(k, c), NEW i \in Items, Owed(k, jdx, l, m, i)
               PROVE  LiesAhead(k, l, m, i)
    BY DEF BuildAhead
  <2>1. LiesAhead(j, l, m, i)
    BY <1>2 DEF BuildPart, BuildAhead, Trusted
  <2> QED BY <1>1, <2>1 DEF LiesAhead
<1> QED BY <1>3, <1>4, <1>5, <1>6 DEF BuildPart

-----------------------------------------------------------------------------
(* The steps that leave the rows alone.                                    *)

LEMMA RunningBuild ==
  ASSUME TypeInv, StampInv, job.kind = "build"
  PROVE  /\ job \in Job /\ mem \in Index /\ disk \in Index
         /\ job.backend \in Backends
         /\ BuildPart(job, mem, live, mver, clock)
         /\ Library(live, mver, clock)
         /\ IndexPart(mem, live, mver, clock)
BY DEF TypeInv, TypeOK, JobServed, StampInv, JobPart

\* Embedding, and going from one pass of a build to the next.
LEMMA EmbeddingKeepsStampInv ==
  ASSUME TypeInv, StampInv,
         EmbedBatch \/ EmbedFails \/ BackfillBatch \/ BackfillDone \/ EndCrawl
  PROVE  StampInv'
<1>1. job.kind = "build" /\ LibraryUnchanged
      /\ job.pc \in {"embed", "drain", "backfill"}
  BY DEF EmbedBatch, EmbedFails, BackfillBatch, BackfillDone, EndCrawl
<1>2. /\ job \in Job /\ mem \in Index /\ disk \in Index
      /\ job.backend \in Backends
      /\ BuildPart(job, mem, live, mver, clock)
      /\ Library(live, mver, clock)
      /\ IndexPart(mem, live, mver, clock)
  BY <1>1, RunningBuild
<1>3. /\ mem'.rows = mem.rows
      /\ mem'.libraryVersion = mem.libraryVersion
      /\ mem'.libraryBackend = mem.libraryBackend
      /\ mem'.checkpoint \in {mem.checkpoint, NoteCheckpoint(job)}
      /\ disk' \in {disk, mem, mem'}
  <2>1. CASE EmbedBatch \/ EmbedFails
    BY <1>2, <2>1 DEF EmbedBatch, EmbedFails, YieldWriteLock, Index
  <2>2. CASE BackfillBatch
    BY <1>2, <2>2 DEF BackfillBatch, YieldWriteLock, Persist, Index
  <2>3. CASE BackfillDone \/ EndCrawl
    BY <1>2, <2>3 DEF BackfillDone, EndCrawl, Persist, Index
  <2> QED BY <2>1, <2>2, <2>3
<1>4. /\ job'.kind = "build"
      /\ job'.backend = job.backend /\ job'.start = job.start /\ job'.consumed = job.consumed
      /\ job'.batch = job.batch /\ job'.total = job.total
      /\ job'.crawlVersion = job.crawlVersion
      /\ job'.known = job.known /\ job'.indexed = job.indexed
      /\ job'.unverified = job.unverified /\ job'.resumed = job.resumed
      /\ job'.startedAt = job.startedAt /\ job'.cancelled = job.cancelled
      /\ job'.pc = job.pc \/ {job.pc, job'.pc} \subseteq {"drain", "backfill", "finish"}
  <2>1. CASE EmbedBatch \/ EmbedFails
    BY <1>1, <1>2, <2>1 DEF EmbedBatch, EmbedFails, Job
  <2>2. CASE BackfillBatch
    BY <1>1, <2>2 DEF BackfillBatch
  <2>3. CASE BackfillDone \/ EndCrawl
    BY <1>1, <1>2, <2>3 DEF BackfillDone, EndCrawl, Job
  <2> QED BY <2>1, <2>2, <2>3
<1>5. BuildPart(job', mem', live, mver, clock)
  BY <1>1, <1>2, <1>3, <1>4, BuildGoesOn
<1>6. IndexPart(mem', live, mver, clock)
  <2>1. CASE mem'.checkpoint = mem.checkpoint
    BY <1>2, <1>3, <2>1, IndexSame
  <2>2. CASE mem'.checkpoint = NoteCheckpoint(job)
    <3>1. mem.libraryVersion = 0
      BY <1>2 DEF BuildPart, BuildBasics
    <3> QED BY <1>1, <1>2, <1>3, <2>2, <3>1, NotedIsHonest DEF BuildPhase
  <2> QED BY <1>3, <2>1, <2>2
<1>7. JobPart(job', mem', live, mver, clock)
  BY <1>4, <1>5 DEF JobPart
<1> QED BY <1>1, <1>3, <1>6, <1>7, StoreStep

LEMMA BuildFailsKeepsStampInv ==
  ASSUME TypeInv, StampInv, BuildFails
  PROVE  StampInv'
<1>1. job.kind = "build" /\ LibraryUnchanged /\ job.pc \in {"fetch", "items"}
      /\ mem' = [mem EXCEPT !.checkpoint = NoteCheckpoint(job)]
      /\ disk' \in {disk, mem'} /\ job' = NoJob
  BY DEF BuildFails
<1>2. /\ job \in Job /\ mem \in Index
      /\ job.backend \in Backends
      /\ BuildPart(job, mem, live, mver, clock)
      /\ Library(live, mver, clock)
  BY <1>1, RunningBuild
<1>3. /\ mem'.rows = mem.rows /\ mem'.checkpoint = NoteCheckpoint(job)
      /\ mem'.libraryVersion = 0
  BY <1>1, <1>2 DEF Index, BuildPart, BuildBasics
<1>4. IndexPart(mem', live, mver, clock)
  BY <1>1, <1>2, <1>3, NotedIsHonest DEF BuildPhase
<1> QED BY <1>1, <1>4, NoJobPart, StoreStep

\* The steps that end a job and keep one of the two stores.
LEMMA EndKeepsStampInv ==
  ASSUME StampInv,
         EndStoppedUpdate \/ EndUpdate \/ UpdateFails \/ Crash \/ Shutdown
  PROVE  StampInv'
<1>1. job' = NoJob /\ LibraryUnchanged
  BY DEF EndStoppedUpdate, EndUpdate, UpdateFails, Crash, Shutdown, AfterPersist
<1>2. mem' \in {mem, disk} /\ disk' \in {mem, disk}
  BY DEF EndStoppedUpdate, EndUpdate, UpdateFails, Crash, Shutdown, AfterPersist
<1>3. IndexPart(mem', live, mver, clock)
  BY <1>2 DEF StampInv
<1> QED BY <1>1, <1>2, <1>3, NoJobPart, StoreStep

LEMMA DeferredKeepsStampInv ==
  ASSUME TypeInv, StampInv, EmbedDeferred \/ DeferredFails
  PROVE  StampInv'
<1>1. /\ mem \in Index /\ job \in Job /\ LibraryUnchanged
      /\ job.kind = "update" /\ job.pc = "deferred"
  BY DEF TypeInv, TypeOK, EmbedDeferred, DeferredFails
<1>2. /\ mem'.rows = mem.rows /\ mem'.checkpoint = mem.checkpoint
      /\ mem'.libraryVersion = mem.libraryVersion
      /\ mem'.libraryBackend = mem.libraryBackend
      /\ disk' \in {disk, mem}
  BY <1>1 DEF EmbedDeferred, DeferredFails, YieldWriteLock, Index
<1>3. IndexPart(mem', live, mver, clock)
  BY <1>2, IndexSame DEF StampInv
<1>4. job'.kind = "update" /\ job'.pc = "deferred"
  BY <1>1 DEF EmbedDeferred, DeferredFails, Job
<1>5. JobPart(job', mem', live, mver, clock)
  BY <1>4 DEF JobPart
<1> QED BY <1>1, <1>2, <1>3, <1>5, StoreStep

\* A stop asked for while a job runs.
LEMMA StopKeepsStampInv ==
  ASSUME TypeInv, StampInv, RequestStop
  PROVE  StampInv'
<1>1. /\ mem \in Index /\ job \in Job /\ LibraryUnchanged /\ mem' = mem /\ disk' = disk
      /\ job' = [job EXCEPT !.cancelled = TRUE]
  BY DEF TypeInv, TypeOK, RequestStop
<1>2. /\ job'.kind = job.kind /\ job'.pc = job.pc /\ job'.cancelled = TRUE
      /\ job'.backend = job.backend /\ job'.start = job.start /\ job'.consumed = job.consumed
      /\ job'.batch = job.batch /\ job'.total = job.total
      /\ job'.crawlVersion = job.crawlVersion
      /\ job'.known = job.known /\ job'.indexed = job.indexed /\ job'.census = job.census
      /\ job'.unverified = job.unverified /\ job'.resumed = job.resumed
      /\ job'.startedAt = job.startedAt
  BY <1>1 DEF Job
<1>3. job.kind = "build" => BuildPart(job', mem', live, mver, clock)
  BY <1>1, <1>2, BuildGoesOn DEF StampInv, JobPart
<1>4. job.kind = "update" /\ job.pc # "deferred" => UpdatePart(job', mem', live, mver, clock)
  BY <1>1, <1>2 DEF StampInv, JobPart, UpdatePart, UpdateBasics, UpdateRows, UpdateCensus,
     Settled
<1>5. JobPart(job', mem', live, mver, clock)
  BY <1>2, <1>3, <1>4 DEF JobPart
<1> QED BY <1>1, <1>5, StoreStep DEF StampInv

\* Between jobs the pause flag is written with the whole store.
LEMMA PauseKeepsStampInv ==
  ASSUME ~PausesDuringJobs, TypeInv, NotPaused, StampInv, Pause \/ Resume
  PROVE  StampInv'
<1>1. job.kind = "idle" /\ job' = job /\ LibraryUnchanged
  BY DEF Pause, Resume, NotPaused
<1>2. PICK f \in BOOLEAN : PersistPaused(f)
  BY DEF Pause, Resume
<1>3. mem' = [mem EXCEPT !.paused = f] /\ disk' = mem' /\ mem \in Index
  BY <1>1, <1>2 DEF PersistPaused, TypeInv, TypeOK
<1>4. IndexPart(mem', live, mver, clock)
  <2>1. /\ mem'.rows = mem.rows /\ mem'.checkpoint = mem.checkpoint
        /\ mem'.libraryVersion = mem.libraryVersion
        /\ mem'.libraryBackend = mem.libraryBackend
    BY <1>3 DEF Index
  <2> QED BY <2>1, IndexSame DEF StampInv
<1>5. JobPart(job', mem', live, mver, clock)
  BY <1>1 DEF JobPart
<1> QED BY <1>1, <1>3, <1>4, <1>5, StoreStep

-----------------------------------------------------------------------------
(* The crawl.                                                              *)

LEMMA StartBuildKeepsStampInv ==
  ASSUME SameNumbers, TypeInv, StampInv, NEW b \in Backends, NEW fresh \in BOOLEAN,
         StartBuild(b, fresh)
  PROVE  StampInv'
<1> DEFINE new == [NoJob EXCEPT !.kind = "build", !.backend = b, !.startedAt = clock]
           cp == mem.checkpoint
           res == [new EXCEPT !.resumed = TRUE, !.unverified = TRUE,
                              !.start = cp.crawlOffset,
                              !.itemsAvailable = cp.itemsAvailable,
                              !.crawlVersion = cp.crawlVersion,
                              !.known = Held(mem),
                              !.pending = cp.pending \cap Held(mem)]
<1>1. /\ mem \in Index /\ clock \in Nat /\ LibraryUnchanged /\ disk' = mem
      /\ live \in SUBSET Items /\ mver \in [Items -> Nat]
  BY DEF TypeInv, TypeOK, StartBuild, OpenTransactionCommitted
<1>2. Library(live, mver, clock) /\ IndexPart(mem, live, mver, clock)
  BY DEF StampInv
<1>3. CASE CanResume(fresh) /\ job' = AtHead(res) /\ mem' = mem
  <2> DEFINE j == AtHead(res)
  <2>1. cp # None /\ cp \in Checkpoint /\ Held(mem) # {}
    BY <1>1, <1>3 DEF CanResume, Index
  <2>2. b = cp.backend
    BY <1>3, <2>1 DEF StartBuild, SameNumbers, Checkpoint
  <2>3. /\ j.kind = "build" /\ j.backend = b /\ j.start = cp.crawlOffset
        /\ j.batch = {} /\ j.crawlVersion = cp.crawlVersion
        /\ j.known = Held(mem) /\ j.indexed = {}
        /\ j.unverified = TRUE /\ j.resumed = TRUE /\ j.cancelled = FALSE
        /\ j.startedAt = clock
        /\ j.pc = IF CapReached(res) THEN "drain" ELSE "fetch"
        /\ CapReached(j) <=> CapReached(res)
    BY DEF AtHead, NoJob, CapReached, Fetched
  <2> DEFINE v == cp.crawlVersion
  <2>4. v \in Nat /\ cp.crawlOffset \in Nat
    BY <2>1 DEF Checkpoint
  <2>5. /\ v <= VersionOf(b, clock)
        /\ b \in Versioned =>
             /\ v # 0
             /\ \A i \in live \cap Held(mem) : Current(mem, mver, i, b, v)
             /\ v = VersionOf(b, clock) =>
                  \A i \in live \ Held(mem) : Position(mver, live, i) >= cp.crawlOffset
    BY <1>2, <2>1, <2>2 DEF IndexPart, CheckpointPart
  <2>6. mem.libraryVersion = 0
    BY <1>2, <2>1 DEF IndexPart, StampPart
  <2> HIDE DEF j
  <2>7. BuildBasics(j, mem, clock)
    BY <1>1, <2>1, <2>2, <2>3, <2>4, <2>5, <2>6 DEF BuildBasics
  <2>8. BuildRows(j, mem, live, mver)
    BY <2>3, <2>5 DEF BuildRows
  <2>9. BuildBatch(j, mem, live, mver)
    BY <2>3, FS_EmptySet DEF BuildBatch
  <2>10. BuildAhead(j, mem, live, mver, clock)
    <3> SUFFICES ASSUME Trusted(j, clock), NEW i \in Items, Owed(j, mem, live, mver, i)
                 PROVE  LiesAhead(j, live, mver, i)
      BY DEF BuildAhead
    <3>1. b \in Versioned /\ v = VersionOf(b, clock)
      BY <2>3 DEF Trusted
    <3>2. Position(mver, live, i) >= cp.crawlOffset
      BY <2>5, <3>1 DEF Owed
    <3> QED BY <2>3, <3>2 DEF LiesAhead
  <2>11. JobPart(job', mem', live, mver, clock)
    BY <1>3, <2>3, <2>7, <2>8, <2>9, <2>10 DEF JobPart, BuildPart, j
  <2> QED BY <1>1, <1>2, <1>3, <2>11, StoreStep
<1>4. CASE job' = AtHead(new) /\ mem' = Reset(mem)
  <2> DEFINE j == AtHead(new)
             idx == Reset(mem)
  <2>1. /\ idx.rows = [i \in Items |-> 0]
        /\ idx.libraryVersion = 0 /\ idx.checkpoint = None
    BY DEF Reset, EmptyIndex
  <2>2. Held(idx) = {}
    BY <2>1 DEF Held
  <2>3. /\ j.kind = "build" /\ j.backend = b /\ j.start = 0
        /\ j.batch = {} /\ j.crawlVersion = 0
        /\ j.known = {} /\ j.indexed = {}
        /\ j.unverified = FALSE /\ j.resumed = FALSE /\ j.cancelled = FALSE
        /\ j.startedAt = clock
        /\ j.pc = IF CapReached(new) THEN "drain" ELSE "fetch"
        /\ Fetched(new) = Cardinality({})
    BY DEF AtHead, NoJob, CapReached, Fetched
  <2>4. j.pc = "fetch"
    BY <2>3, FS_EmptySet, ConstantsAssumption DEF CapReached
  <2> HIDE DEF j, idx
  <2>5. VersionOf(b, clock) \in Nat
    BY <1>1, VersionFacts
  <2>6. BuildBasics(j, idx, clock)
    BY <1>1, <2>1, <2>2, <2>3, <2>4, <2>5 DEF BuildBasics
  <2>7. BuildRows(j, idx, live, mver)
    BY <2>2 DEF BuildRows
  <2>8. BuildBatch(j, idx, live, mver)
    BY <2>3, FS_EmptySet DEF BuildBatch
  <2>9. BuildAhead(j, idx, live, mver, clock)
    <3>1. \A i \in Items : Position(mver, live, i) \in Nat
      BY <1>1, PositionType
    <3> QED BY <2>3, <2>4, <3>1 DEF BuildAhead, LiesAhead
  <2>10. IndexPart(idx, live, mver, clock)
    BY <2>1 DEF IndexPart, StampPart, CheckpointPart
  <2>11. JobPart(job', mem', live, mver, clock)
    BY <1>4, <2>3, <2>6, <2>7, <2>8, <2>9 DEF JobPart, BuildPart, j, idx
  <2>12. IndexPart(mem', live, mver, clock)
    BY <1>4, <2>10 DEF idx
  <2> QED BY <1>1, <2>11, <2>12, StoreStep
<1> QED BY <1>3, <1>4 DEF StartBuild

\* From the top, everything owed lies ahead.
LEMMA RecrawlKeepsStampInv ==
  ASSUME TypeInv, StampInv, RecrawlFromTop
  PROVE  StampInv'
<1> DEFINE top == [job EXCEPT !.unverified = FALSE, !.start = 0, !.itemsAvailable = 0]
           j == AtHead(top)
<1>1. /\ job.kind = "build" /\ job.pc = "fetch" /\ LibraryUnchanged
      /\ mem' = mem /\ disk' = disk /\ job' = j
  BY DEF RecrawlFromTop, Fetching
<1>2. /\ job \in Job /\ job.backend \in Backends
      /\ BuildPart(job, mem, live, mver, clock)
      /\ Library(live, mver, clock)
      /\ IndexPart(mem, live, mver, clock)
  BY <1>1, RunningBuild
<1>3. /\ j.kind = "build" /\ j.backend = job.backend /\ j.start = 0
      /\ j.consumed = job.consumed /\ j.batch = job.batch /\ j.total = job.total
      /\ j.crawlVersion = job.crawlVersion
      /\ j.known = job.known /\ j.indexed = job.indexed
      /\ j.unverified = FALSE /\ j.resumed = job.resumed
      /\ j.startedAt = job.startedAt /\ j.cancelled = job.cancelled
      /\ \/ j.pc = "fetch"
         \/ j.pc = "drain" /\ (job.cancelled \/ CapReached(top))
  BY <1>1, <1>2 DEF AtHead, Job
<1>9. CapReached(j) <=> CapReached(top)
  <2>1. top.known = job.known /\ top.indexed = job.indexed
    BY <1>2 DEF Job
  <2> HIDE DEF j, top
  <2> QED BY <1>3, <2>1 DEF CapReached, Fetched
<1> HIDE DEF j
<1>4. BuildBasics(j, mem, clock)
  BY <1>1, <1>2, <1>3 DEF BuildPart, BuildBasics
<1>5. BuildRows(j, mem, live, mver)
  BY <1>2, <1>3 DEF BuildPart, BuildRows
<1>6. BuildBatch(j, mem, live, mver)
  BY <1>1, <1>2, <1>3, FS_EmptySet DEF BuildPart, BuildBatch
<1>7. BuildAhead(j, mem, live, mver, clock)
  <2>1. \A i \in Items : Position(mver, live, i) \in Nat
    BY <1>2, PositionType DEF Library
  <2> QED BY <1>3, <1>9, <2>1 DEF BuildAhead, LiesAhead
<1>8. JobPart(job', mem', live, mver, clock)
  BY <1>1, <1>3, <1>4, <1>5, <1>6, <1>7 DEF JobPart, BuildPart
<1> QED BY <1>1, <1>2, <1>8, StoreStep

LEMMA EndPageKeepsStampInv ==
  ASSUME TypeInv, StampInv, EndPage
  PROVE  StampInv'
<1> DEFINE j == [job EXCEPT !.start = Advance(job), !.pc = "embed", !.batch = {}, !.consumed = 0]
<1>1. /\ job.kind = "build" /\ job.pc = "items" /\ LibraryUnchanged
      /\ mem' = mem /\ disk' = disk /\ job' = j
      /\ PageOver(job)
  BY DEF EndPage
<1>2. /\ job \in Job /\ job.backend \in Backends
      /\ BuildPart(job, mem, live, mver, clock)
      /\ Library(live, mver, clock)
      /\ IndexPart(mem, live, mver, clock)
  BY <1>1, RunningBuild
<1>3. /\ j.kind = "build" /\ j.backend = job.backend
      /\ j.start = job.start + job.consumed
      /\ j.batch = {} /\ j.total = job.total
      /\ j.crawlVersion = job.crawlVersion
      /\ j.known = job.known /\ j.indexed = job.indexed
      /\ j.unverified = job.unverified /\ j.resumed = job.resumed
      /\ j.startedAt = job.startedAt /\ j.cancelled = job.cancelled
      /\ j.pc = "embed"
  BY <1>1, <1>2 DEF Job, Advance
<1> HIDE DEF j
<1>9. CapReached(j) <=> CapReached(job)
  BY <1>3 DEF CapReached, Fetched
<1>4. BuildBasics(j, mem, clock)
  BY <1>1, <1>2, <1>3, <1>9 DEF BuildPart, BuildBasics
<1>5. BuildRows(j, mem, live, mver)
  BY <1>2, <1>3 DEF BuildPart, BuildRows
<1>6. BuildBatch(j, mem, live, mver)
  BY <1>3, FS_EmptySet DEF BuildBatch
<1>7. BuildAhead(j, mem, live, mver, clock)
  <2> SUFFICES ASSUME Trusted(j, clock), NEW i \in Items, Owed(j, mem, live, mver, i)
               PROVE  Position(mver, live, i) >= j.start /\ j.start < j.total
    BY <1>3 DEF BuildAhead, LiesAhead
  <2>1. Owed(job, mem, live, mver, i)
    BY <1>3, OwedSame
  <2>2. Position(mver, live, i) \in Nat
    BY <1>2, PositionType DEF Library
  <2>3. /\ job.start \in Nat /\ job.consumed \in Nat /\ job.total \in Nat
        /\ job.batch \in SUBSET Entry /\ Cardinality(job.batch) \in Nat
    BY <1>2 DEF Job, BuildPart, BuildBatch
  <2>4. \/ \E e \in job.batch : e.key = i /\ e.pos >= job.start + job.consumed
        \/ /\ Position(mver, live, i) >= job.start + Cardinality(job.batch)
           /\ job.start + Cardinality(job.batch) < job.total
    BY <1>1, <1>2, <1>3, <2>1 DEF BuildPart, BuildAhead, Trusted, LiesAhead
  <2>5. CASE \E e \in job.batch : e.key = i /\ e.pos >= job.start + job.consumed
    <3>1. PICK e \in job.batch : e.key = i /\ e.pos >= job.start + job.consumed
      BY <2>5
    <3>2. Position(mver, live, i) >= e.pos /\ e.pos < job.total /\ e.pos \in Nat
      BY <1>2, <2>1, <2>3, <3>1 DEF BuildPart, BuildBatch, Entry
    <3> QED BY <1>3, <2>2, <2>3, <3>1, <3>2
  <2>6. job.consumed <= Cardinality(job.batch)
    BY <1>1, <1>2 DEF BuildPart, BuildBatch
  <2> QED BY <1>3, <2>2, <2>3, <2>4, <2>5, <2>6
<1>8. JobPart(job', mem', live, mver, clock)
  BY <1>1, <1>3, <1>4, <1>5, <1>6, <1>7 DEF JobPart, BuildPart
<1> QED BY <1>1, <1>2, <1>8, StoreStep

\* The first page a crawl reads fixes its version; a resumed one that goes on from its
\* offset has seen that the library is as it was.
LEMMA ReadPageKeepsStampInv ==
  ASSUME TypeInv, StampInv, ReadPage
  PROVE  StampInv'
<1> DEFINE P == Page(live, job.start, PageSize)
           b == job.backend
           v == CrawlVersion(job)
           j == job'
           n == Cardinality(live)
           seen == [job EXCEPT !.unverified = FALSE, !.crawlVersion = v]
           cp == mem.checkpoint
<1>1. /\ job.kind = "build" /\ job.pc = "fetch" /\ LibraryUnchanged
      /\ mem' = mem /\ disk' = disk
      /\ TrustsOffset
      /\ job' = IF P = {} THEN [seen EXCEPT !.pc = "drain"]
                ELSE [seen EXCEPT !.pc = "items", !.batch = P, !.consumed = 0, !.total = n,
                                  !.itemsAvailable = IF @ = 0 THEN n ELSE @]
  BY DEF ReadPage, Fetching
<1>2. /\ job \in Job /\ b \in Backends /\ mem \in Index
      /\ BuildPart(job, mem, live, mver, clock)
      /\ Library(live, mver, clock)
      /\ IndexPart(mem, live, mver, clock)
  BY <1>1, RunningBuild
<1>3. /\ mver \in [Items -> Nat] /\ clock \in Nat /\ live \in SUBSET Items
      /\ \A i \in Items : mver[i] <= clock
      /\ \A i \in live : mver[i] # 0
      /\ \A i, k \in live : mver[i] = mver[k] => i = k
      /\ n \in Nat
  BY <1>2, FiniteCount DEF Library
<1>4. /\ job.crawlVersion \in Nat /\ job.start \in Nat /\ job.startedAt \in Nat
      /\ VersionOf(b, clock) \in Nat
      /\ v = IF job.crawlVersion = 0 THEN VersionOf(b, clock) ELSE job.crawlVersion
  BY <1>2, <1>3, VersionFacts DEF Job, CrawlVersion
<1> HIDE DEF v, n
<1>5. /\ j.kind = "build" /\ j.backend = b /\ j.start = job.start
      /\ j.crawlVersion = v
      /\ j.known = job.known /\ j.indexed = job.indexed
      /\ j.unverified = FALSE /\ j.resumed = job.resumed
      /\ j.startedAt = job.startedAt /\ j.cancelled = job.cancelled
      /\ \/ P = {} /\ j.pc = "drain" /\ j.batch = job.batch
         \/ P # {} /\ j.pc = "items" /\ j.batch = P /\ j.consumed = 0 /\ j.total = n
  <2> DEFINE a == IF seen.itemsAvailable = 0 THEN n ELSE seen.itemsAvailable
  <2>1. /\ seen.kind = "build" /\ seen.backend = b /\ seen.start = job.start
        /\ seen.crawlVersion = v
        /\ seen.known = job.known /\ seen.indexed = job.indexed
        /\ seen.unverified = FALSE /\ seen.resumed = job.resumed
        /\ seen.startedAt = job.startedAt /\ seen.cancelled = job.cancelled
        /\ seen.batch = job.batch
        /\ seen \in Job
    BY <1>1, <1>2, <1>4 DEF Job
  <2>2. \/ P = {} /\ j = [seen EXCEPT !.pc = "drain"]
        \/ P # {} /\ j = [seen EXCEPT !.pc = "items", !.batch = P, !.consumed = 0, !.total = n,
                                      !.itemsAvailable = a]
    <3>1. seen \in Job
      BY <2>1
    <3>2. \/ P = {} /\ j = [seen EXCEPT !.pc = "drain"]
          \/ P # {} /\ j = [seen EXCEPT !.pc = "items", !.batch = P, !.consumed = 0,
                                        !.total = n,
                                        !.itemsAvailable = IF @ = 0 THEN n ELSE @]
      BY <1>1
    <3> HIDE DEF seen, P, j
    <3>3. CASE j = [seen EXCEPT !.pc = "items", !.batch = P, !.consumed = 0, !.total = n,
                                !.itemsAvailable = IF @ = 0 THEN n ELSE @]
      BY <3>1, <3>2, <3>3 DEF Job
    <3> QED BY <3>2, <3>3
  <2> HIDE DEF seen, P, a, j
  <2>3. CASE j = [seen EXCEPT !.pc = "drain"]
    <3>1. /\ j.kind = seen.kind /\ j.backend = seen.backend /\ j.start = seen.start
          /\ j.crawlVersion = seen.crawlVersion
          /\ j.known = seen.known /\ j.indexed = seen.indexed
          /\ j.unverified = seen.unverified /\ j.resumed = seen.resumed
          /\ j.startedAt = seen.startedAt /\ j.cancelled = seen.cancelled
          /\ j.pc = "drain" /\ j.batch = seen.batch
      BY <2>1, <2>3 DEF Job
    <3>2. P # {} => j.pc = "items"
      BY <2>1, <2>2 DEF Job
    <3> QED BY <2>1, <3>1, <3>2
  <2>4. CASE j = [seen EXCEPT !.pc = "items", !.batch = P, !.consumed = 0, !.total = n,
                              !.itemsAvailable = a]
    <3>1. /\ j.kind = seen.kind /\ j.backend = seen.backend /\ j.start = seen.start
          /\ j.crawlVersion = seen.crawlVersion
          /\ j.known = seen.known /\ j.indexed = seen.indexed
          /\ j.unverified = seen.unverified /\ j.resumed = seen.resumed
          /\ j.startedAt = seen.startedAt /\ j.cancelled = seen.cancelled
          /\ j.pc = "items" /\ j.batch = P /\ j.consumed = 0 /\ j.total = n
      BY <2>1, <2>4 DEF Job
    <3>2. P = {} => j.pc = "drain"
      BY <2>1, <2>2 DEF Job
    <3> QED BY <2>1, <3>1, <3>2
  <2> QED BY <2>2, <2>3, <2>4
<1> HIDE DEF j, P, seen
<1>6. /\ \A e \in P : /\ e.key \in live
                      /\ e.ver = mver[e.key]
                      /\ e.pos = Position(mver, live, e.key)
                      /\ job.start <= e.pos
                      /\ e.pos < n
      /\ \A e, f \in P : e.pos = f.pos => e = f
      /\ \A i \in live : \/ Position(mver, live, i) < job.start
                         \/ \E e \in P : e.key = i
                         \/ Position(mver, live, i) >= job.start + Cardinality(P)
      /\ P = {} => \A i \in live : Position(mver, live, i) < job.start
  <2>1. PageSize \in Nat \ {0}
    BY ConstantsAssumption
  <2> QED BY <1>3, <1>4, <2>1, PageFacts DEF P, n
<1>7. Cardinality(P) \in Nat
  BY <1>3, <1>4, PageType, ConstantsAssumption DEF P
<1>8. \A i \in live : Position(mver, live, i) \in Nat /\ Position(mver, live, i) < n
  BY <1>3, PositionType DEF n
<1>9. BuildBasics(job, mem, clock)
  BY <1>2 DEF BuildPart
<1>10. v # job.crawlVersion => job.crawlVersion = 0 /\ b \in Versioned /\ v = VersionOf(b, clock)
  BY <1>3, <1>4, <1>2, VersionFacts
<1>11. b \in Versioned /\ v = 0 => P = {}
  <2> SUFFICES ASSUME b \in Versioned, v = 0, NEW e \in P PROVE FALSE
    OBVIOUS
  <2>1. VersionOf(b, clock) = 0
    BY <1>2, <1>4, <1>9 DEF BuildBasics
  <2>2. ~(0 < clock)
    BY <1>2, <1>3, <2>1, VersionFacts
  <2> QED BY <1>3, <1>6, <2>2
<1>12. ASSUME Trusted(j, clock), NEW i \in Items, Owed(j, mem, live, mver, i)
       PROVE  Position(mver, live, i) >= job.start
  <2>0. i \in live
    BY <1>12 DEF Owed
  <2>1. CASE b \in Versioned /\ job.crawlVersion = 0
    BY <1>4, <1>8, <1>9, <2>0, <2>1 DEF BuildBasics
  <2>2. CASE ~(b \in Versioned /\ job.crawlVersion = 0)
    <3>1. v = job.crawlVersion
      BY <1>10, <2>2
    <3>2. Owed(job, mem, live, mver, i)
      BY <1>5, <1>12, <3>1, OwedSame
    <3>3. job.unverified => job.crawlVersion = VersionOf(b, clock)
      <4> SUFFICES ASSUME job.unverified PROVE job.crawlVersion = VersionOf(b, clock)
        OBVIOUS
      <4>1. b \in Versioned
        BY <1>5, <1>9, <1>12 DEF Trusted, BuildBasics
      <4>2. cp # None /\ cp.crawlVersion = job.crawlVersion
        BY <1>1, <1>9 DEF BuildBasics
      <4>3. job.crawlVersion # 0 /\ job.crawlVersion <= VersionOf(b, clock)
        BY <1>9, <2>2, <4>1 DEF BuildBasics
      <4>4. cp.crawlVersion # 0 /\ VersionOf(b, clock) # 0 => cp.crawlVersion = VersionOf(b, clock)
        BY <1>1 DEF TrustsOffset, OffsetStillHolds
      <4> QED BY <1>4, <4>2, <4>3, <4>4
    <3>4. Trusted(job, clock)
      BY <1>5, <1>12, <3>3 DEF Trusted
    <3> QED BY <1>1, <1>2, <3>2, <3>4 DEF BuildPart, BuildAhead, LiesAhead
  <2> QED BY <2>1, <2>2
<1>13. BuildBasics(j, mem, clock)
  <2>1. CASE v = job.crawlVersion
    BY <1>1, <1>5, <1>9, <1>11, <2>1 DEF BuildBasics
  <2>2. CASE v # job.crawlVersion
    <3>1. job.crawlVersion = 0 /\ b \in Versioned /\ v = VersionOf(b, clock)
      BY <1>10, <2>2
    <3>2. VersionOf(b, job.startedAt) <= VersionOf(b, clock)
      BY <1>2, <1>3, <1>4, <1>9, VersionFacts DEF BuildBasics
    <3>3. mem.checkpoint = None
      BY <1>1, <1>9, <3>1 DEF BuildBasics
    <3> QED BY <1>1, <1>4, <1>5, <1>9, <1>11, <3>1, <3>2, <3>3 DEF BuildBasics
  <2> QED BY <2>1, <2>2
<1>14. BuildRows(j, mem, live, mver)
  <2>1. CASE v = job.crawlVersion
    BY <1>2, <1>5, <2>1 DEF BuildPart, BuildRows
  <2>2. CASE v # job.crawlVersion
    BY <1>9, <1>10, <2>2 DEF BuildBasics, BuildRows
  <2> QED BY <2>1, <2>2
<1>15. BuildBatch(j, mem, live, mver)
  <2>1. CASE P = {} /\ j.pc = "drain" /\ j.batch = job.batch
    BY <1>1, <1>2, <2>1, FS_EmptySet DEF BuildPart, BuildBatch
  <2>2. CASE P # {} /\ j.pc = "items" /\ j.batch = P /\ j.consumed = 0 /\ j.total = n
    <3>1. \A e \in P : e.ver # 0 /\ e.pos < n /\ Position(mver, live, e.key) >= e.pos
      BY <1>3, <1>6, <1>8
    <3>2. 0 <= Cardinality(P)
      BY <1>7
    <3> QED BY <1>6, <1>7, <2>2, <3>1, <3>2 DEF BuildBatch
  <2> QED BY <1>5, <2>1, <2>2
<1>16. BuildAhead(j, mem, live, mver, clock)
  <2> SUFFICES ASSUME Trusted(j, clock), NEW i \in Items, Owed(j, mem, live, mver, i)
               PROVE  LiesAhead(j, live, mver, i)
    BY DEF BuildAhead
  <2>1. i \in live /\ Position(mver, live, i) >= job.start
    BY <1>12 DEF Owed
  <2>2. P # {} /\ j.pc = "items" /\ j.batch = P /\ j.consumed = 0 /\ j.total = n
    BY <1>4, <1>5, <1>6, <1>8, <2>1
  <2>3. \/ \E e \in P : e.key = i
        \/ Position(mver, live, i) >= job.start + Cardinality(P)
    BY <1>4, <1>6, <1>8, <2>1
  <2>4. (\E e \in P : e.key = i) => \E e \in P : e.key = i /\ e.pos >= job.start + 0
    BY <1>4, <1>6, <1>8
  <2>5. Position(mver, live, i) >= job.start + Cardinality(P) => job.start + Cardinality(P) < n
    BY <1>3, <1>4, <1>7, <1>8, <2>1
  <2> QED BY <1>5, <2>2, <2>3, <2>4, <2>5 DEF LiesAhead
<1>17. JobPart(job', mem', live, mver, clock)
  BY <1>1, <1>5, <1>13, <1>14, <1>15, <1>16 DEF JobPart, BuildPart, j
<1> QED BY <1>1, <1>2, <1>17, StoreStep

\* The item at the crawl's position is held once it has been looked at.
LEMMA IndexItemKeepsStampInv ==
  ASSUME TypeInv, StampInv, IndexItem
  PROVE  StampInv'
<1> DEFINE b == job.backend
           v == job.crawlVersion
           j == job'
           idx == mem'
<1>1. /\ job.kind = "build" /\ job.pc = "items" /\ ~PageOver(job)
      /\ LibraryUnchanged /\ disk' = disk
  BY DEF IndexItem
<1>2. /\ job \in Job /\ b \in Backends /\ mem \in Index
      /\ BuildPart(job, mem, live, mver, clock)
      /\ Library(live, mver, clock)
      /\ IndexPart(mem, live, mver, clock)
  BY <1>1, RunningBuild
<1>3. /\ job.start \in Nat /\ job.consumed \in Nat /\ job.batch \in SUBSET Entry
      /\ job.known \in SUBSET Items /\ job.indexed \in SUBSET Items
      /\ mem.rows \in [Items -> Nat]
      /\ Cardinality(job.batch) \in Nat
  BY <1>2 DEF Job, Index, BuildPart, BuildBatch
<1>4. PICK e \in job.batch :
        /\ e.pos = job.start + job.consumed
        /\ \/ /\ e.key \in job.known \cup job.indexed
              /\ job' = [job EXCEPT !.consumed = @ + 1]
              /\ mem' = mem
           \/ /\ e.key \notin job.known \cup job.indexed
              /\ job' = [job EXCEPT !.consumed = @ + 1,
                                    !.indexed = @ \cup {e.key},
                                    !.pending = IF job.embedderError THEN @
                                                ELSE @ \cup {e.key}]
              /\ mem' = [mem EXCEPT !.rows[e.key] = e.ver]
  BY DEF IndexItem
<1>5. /\ e.key \in Items /\ e.ver \in Nat /\ e.ver # 0 /\ e.pos \in Nat
      /\ b \in Versioned /\ e.key \in live =>
           e.ver = mver[e.key] \/ VersionOf(b, mver[e.key]) > v
      /\ \A f \in job.batch : f.pos = e.pos => f = e
  BY <1>2, <1>3 DEF BuildPart, BuildBatch, Entry
<1>6. BuildBasics(job, mem, clock)
  BY <1>2 DEF BuildPart
<1>7. /\ j.kind = "build" /\ j.pc = "items" /\ j.backend = b /\ j.start = job.start
      /\ j.consumed = job.consumed + 1 /\ j.batch = job.batch /\ j.total = job.total
      /\ j.crawlVersion = v /\ j.known = job.known
      /\ j.unverified = job.unverified /\ j.resumed = job.resumed
      /\ j.startedAt = job.startedAt /\ j.cancelled = job.cancelled
  BY <1>1, <1>2, <1>4 DEF Job
<1>8. /\ idx.libraryVersion = mem.libraryVersion
      /\ idx.checkpoint = mem.checkpoint
  BY <1>2, <1>4 DEF Index
<1>9. /\ \A i \in Items \ {e.key} : idx.rows[i] = mem.rows[i]
      /\ \/ e.key \in Held(mem) /\ idx.rows[e.key] = mem.rows[e.key] /\ j.indexed = job.indexed
         \/ /\ e.key \notin Held(mem) /\ idx.rows[e.key] = e.ver
            /\ j.indexed = job.indexed \cup {e.key}
  <2>1. CASE e.key \in job.known \cup job.indexed /\ job' = [job EXCEPT !.consumed = @ + 1]
             /\ mem' = mem
    <3>1. j.indexed = job.indexed
      BY <1>2, <2>1 DEF Job
    <3> QED BY <1>6, <2>1, <3>1 DEF BuildBasics
  <2>2. CASE /\ e.key \notin job.known \cup job.indexed
             /\ job' = [job EXCEPT !.consumed = @ + 1,
                                   !.indexed = @ \cup {e.key},
                                   !.pending = IF job.embedderError THEN @
                                               ELSE @ \cup {e.key}]
             /\ mem' = [mem EXCEPT !.rows[e.key] = e.ver]
    <3>1. j.indexed = job.indexed \cup {e.key}
      BY <1>2, <2>2 DEF Job
    <3>2. idx.rows = [mem.rows EXCEPT ![e.key] = e.ver]
      BY <1>2, <2>2 DEF Index
    <3>3. e.key \notin Held(mem)
      BY <1>6, <2>2 DEF BuildBasics
    <3> HIDE DEF idx, j
    <3> QED BY <1>3, <1>5, <3>1, <3>2, <3>3
  <2> QED BY <1>4, <2>1, <2>2
<1>10. Held(idx) = Held(mem) \cup {e.key}
  BY <1>5, <1>9 DEF Held
<1>11. v # 0 \/ b \notin Versioned
  BY <1>1, <1>6 DEF BuildBasics
<1> HIDE DEF b, v, j, idx
<1>12. b \in Versioned => \A i \in live \cap Held(idx) : Current(idx, mver, i, b, v)
  <2> SUFFICES ASSUME b \in Versioned, NEW i \in live \cap Held(idx)
               PROVE  Current(idx, mver, i, b, v)
    OBVIOUS
  <2>1. i \in Held(mem) => Current(mem, mver, i, b, v)
    BY <1>2 DEF BuildPart, BuildRows, b, v
  <2>2. i \in Items
    BY <1>2 DEF Library
  <2> QED BY <1>5, <1>9, <1>10, <2>1, <2>2 DEF Current
<1>13. \A i \in Items : Owed(j, idx, live, mver, i) => i # e.key /\ Owed(job, mem, live, mver, i)
  <2> TAKE i \in Items
  <2> HAVE Owed(j, idx, live, mver, i)
  <2>1. /\ i \in live \ Held(idx)
        /\ mver[i] <= job.startedAt \/ (v # 0 /\ VersionOf(b, mver[i]) <= v)
    BY <1>7 DEF Owed
  <2>2. i \in live \ Held(mem) /\ i # e.key
    BY <1>10, <2>1
  <2> QED BY <2>1, <2>2 DEF Owed, b, v
<1>14. BuildBasics(j, idx, clock)
  <2>1. ~job.unverified
    BY <1>1, <1>6 DEF BuildBasics, PageOver
  <2>2. Held(idx) = j.known \cup j.indexed
    BY <1>6, <1>7, <1>9, <1>10 DEF BuildBasics
  <2> QED BY <1>6, <1>7, <1>8, <1>11, <2>1, <2>2 DEF BuildBasics, b, v
<1>15. BuildRows(j, idx, live, mver)
  BY <1>7, <1>12 DEF BuildRows
<1>16. BuildBatch(j, idx, live, mver)
  <2>1. job.consumed <= Cardinality(job.batch) /\ job.consumed # Cardinality(job.batch)
    BY <1>1, <1>2 DEF BuildPart, BuildBatch, PageOver
  <2>2. job.consumed + 1 <= Cardinality(job.batch)
    BY <1>3, <2>1
  <2>3. \A f \in job.batch : f.key \in Items
    BY <1>3 DEF Entry
  <2> QED BY <1>1, <1>2, <1>7, <1>13, <2>2, <2>3 DEF BuildPart, BuildBatch, b, v
<1>17. BuildAhead(j, idx, live, mver, clock)
  <2> SUFFICES ASSUME Trusted(j, clock), NEW i \in Items, Owed(j, idx, live, mver, i)
               PROVE  LiesAhead(j, live, mver, i)
    BY DEF BuildAhead
  <2>1. i # e.key /\ Owed(job, mem, live, mver, i)
    BY <1>13
  <2>2. LiesAhead(job, live, mver, i)
    BY <1>2, <1>7, <2>1 DEF BuildPart, BuildAhead, Trusted, b, v
  <2>3. ASSUME NEW f \in job.batch, f.key = i, f.pos >= job.start + job.consumed
        PROVE  f.pos >= job.start + (job.consumed + 1)
    <3>1. f # e /\ f.pos # e.pos /\ f.pos \in Nat
      BY <1>3, <1>5, <2>1, <2>3 DEF Entry
    <3> QED BY <1>3, <1>4, <2>3, <3>1
  <2> QED BY <1>1, <1>7, <2>2, <2>3 DEF LiesAhead
<1>18. IndexPart(idx, live, mver, clock)
  <2>1. StampPart(idx, live, mver, clock)
    BY <1>6, <1>8 DEF StampPart, BuildBasics
  <2>2. CheckpointPart(idx, live, mver, clock)
    <3> SUFFICES ASSUME mem.checkpoint # None
                 PROVE  CheckpointPart(idx, live, mver, clock)
      BY <1>8 DEF CheckpointPart
    <3>1. mem.checkpoint.backend = b /\ mem.checkpoint.crawlVersion = v
      BY <1>6 DEF BuildBasics, b, v
    <3>2. /\ v <= VersionOf(b, clock)
          /\ b \in Versioned /\ v = VersionOf(b, clock) =>
               \A i \in live \ Held(mem) : Position(mver, live, i) >= mem.checkpoint.crawlOffset
      BY <1>2, <3>1 DEF IndexPart, CheckpointPart
    <3> QED BY <1>8, <1>10, <1>11, <1>12, <3>1, <3>2 DEF CheckpointPart
  <2> QED BY <2>1, <2>2 DEF IndexPart
<1>19. JobPart(job', mem', live, mver, clock)
  BY <1>7, <1>14, <1>15, <1>16, <1>17 DEF JobPart, BuildPart, j, idx
<1>20. IndexPart(mem', live, mver, clock)
  BY <1>18 DEF idx
<1> QED BY <1>1, <1>19, <1>20, StoreStep

\* Back to the head of the crawl, or out of it at the end of the listing.
LEMMA MaybePersistKeepsStampInv ==
  ASSUME TypeInv, StampInv, MaybePersist
  PROVE  StampInv'
<1> DEFINE j == job'
<1>1. /\ job.kind = "build" /\ job.pc = "embed" /\ LibraryUnchanged
      /\ mem' \in {mem, [mem EXCEPT !.checkpoint = NoteCheckpoint(job)]}
      /\ disk' \in {disk, mem'}
  BY DEF MaybePersist, Persist
<1>2. /\ job \in Job /\ job.backend \in Backends /\ mem \in Index
      /\ BuildPart(job, mem, live, mver, clock)
      /\ Library(live, mver, clock)
      /\ IndexPart(mem, live, mver, clock)
  BY <1>1, RunningBuild
<1>3. /\ mem'.rows = mem.rows /\ mem'.libraryVersion = mem.libraryVersion
      /\ mem'.libraryBackend = mem.libraryBackend
      /\ mem'.checkpoint \in {mem.checkpoint, NoteCheckpoint(job)}
  BY <1>1, <1>2 DEF Index
<1>4. /\ j.kind = "build" /\ j.backend = job.backend /\ j.start = job.start
      /\ j.batch = job.batch /\ j.total = job.total
      /\ j.crawlVersion = job.crawlVersion
      /\ j.known = job.known /\ j.indexed = job.indexed
      /\ j.unverified = job.unverified /\ j.resumed = job.resumed
      /\ j.startedAt = job.startedAt /\ j.cancelled = job.cancelled
      /\ \/ j.pc = "drain" /\ (job.start >= job.total \/ job.cancelled \/ CapReached(job))
         \/ j.pc = "fetch" /\ ~job.cancelled /\ ~CapReached(job)
  BY <1>1, <1>2 DEF MaybePersist, AtHead, Job
<1> HIDE DEF j
<1>5. CapReached(j) <=> CapReached(job)
  BY <1>4 DEF CapReached, Fetched
<1>6. Held(mem') = Held(mem)
  BY <1>3 DEF Held
<1>7. \A i : Owed(j, mem', live, mver, i) <=> Owed(job, mem, live, mver, i)
  BY <1>3, <1>4, OwedSame
<1>8. BuildBasics(job, mem, clock)
  BY <1>2 DEF BuildPart
<1>9. BuildBasics(j, mem', clock)
  <2>1. /\ NoteCheckpoint(job).backend = job.backend
        /\ NoteCheckpoint(job).crawlVersion = job.crawlVersion
    BY DEF NoteCheckpoint
  <2>2. job.unverified => job.cancelled \/ CapReached(job)
    BY <1>1, <1>8 DEF BuildBasics
  <2>3. ~(job.backend \in Versioned /\ job.crawlVersion = 0)
    BY <1>1, <1>8 DEF BuildBasics
  <2> QED BY <1>3, <1>4, <1>5, <1>6, <1>8, <2>1, <2>2, <2>3 DEF BuildBasics
<1>10. BuildRows(j, mem', live, mver)
  BY <1>2, <1>3, <1>4, <1>6 DEF BuildPart, BuildRows, Current
<1>11. BuildBatch(j, mem', live, mver)
  BY <1>1, <1>2, <1>4, FS_EmptySet DEF BuildPart, BuildBatch
<1>12. BuildAhead(j, mem', live, mver, clock)
  <2> SUFFICES ASSUME Trusted(j, clock), NEW i \in Items, Owed(j, mem', live, mver, i)
               PROVE  LiesAhead(j, live, mver, i)
    BY DEF BuildAhead
  <2>1. Position(mver, live, i) >= job.start /\ job.start < job.total
    BY <1>1, <1>2, <1>4, <1>7 DEF BuildPart, BuildAhead, Trusted, LiesAhead
  <2>2. job.start \in Nat /\ job.total \in Nat
    BY <1>2 DEF Job
  <2> QED BY <1>4, <1>5, <2>1, <2>2 DEF LiesAhead
<1>13. IndexPart(mem', live, mver, clock)
  <2>1. CASE mem'.checkpoint = mem.checkpoint
    BY <1>2, <1>3, <2>1, IndexSame
  <2>2. CASE mem'.checkpoint = NoteCheckpoint(job)
    <3>1. mem'.libraryVersion = 0
      BY <1>3, <1>8 DEF BuildBasics
    <3> QED BY <1>1, <1>2, <1>3, <2>2, <3>1, NotedIsHonest DEF BuildPhase
  <2> QED BY <1>3, <2>1, <2>2
<1>14. JobPart(job', mem', live, mver, clock)
  BY <1>4, <1>9, <1>10, <1>11, <1>12 DEF JobPart, BuildPart, j
<1> QED BY <1>1, <1>13, <1>14, StoreStep

\* With room for every item, a build whose cap is reached holds them all.
LEMMA CapUncapped ==
  ASSUME NEW j, NEW S \in SUBSET Items, S = j.known \cup j.indexed, CapReached(j)
  PROVE  ~Uncapped \/ S = Items
<1>1. IsFiniteSet(Items) /\ Cardinality(Items) \in Nat /\ Cardinality(S) \in Nat
  BY ConstantsAssumption, FiniteCount, FS_CardinalityType
<1>2. Cardinality(S) <= Cardinality(Items) /\ (Cardinality(Items) = Cardinality(S) => Items = S)
  BY <1>1, FS_Subset
<1>3. Cardinality(S) >= MaxItems /\ MaxItems \in Nat
  BY ConstantsAssumption DEF CapReached, Fetched
<1> QED BY <1>1, <1>2, <1>3 DEF Uncapped

\* The build that ran through is stamped: what it does not hold was named to it, changed
\* after its crawl began, or is left out at the cap.
LEMMA FinishBuildKeepsStampInv ==
  ASSUME TypeInv, StampInv, FinishBuild
  PROVE  StampInv'
<1> DEFINE b == job.backend
           v == job.crawlVersion
           st == IF EarnsStamp(job) THEN Stamped(mem, job) ELSE mem
<1>1. /\ job.kind = "build" /\ job.pc = "finish" /\ LibraryUnchanged
      /\ mem' = [st EXCEPT !.checkpoint =
                   IF StaysResumable(job) THEN NoteCheckpoint(job) ELSE None]
      /\ disk' \in {disk, mem'} /\ job' = NoJob
  BY DEF FinishBuild, Persist
<1>2. /\ job \in Job /\ b \in Backends /\ mem \in Index
      /\ BuildPart(job, mem, live, mver, clock)
      /\ Library(live, mver, clock)
      /\ IndexPart(mem, live, mver, clock)
  BY <1>1, RunningBuild
<1>3. BuildBasics(job, mem, clock)
  BY <1>2 DEF BuildPart
<1>4. mem'.rows = mem.rows
  BY <1>1, <1>2 DEF Stamped, Index
<1>5. CASE StaysResumable(job)
  <2>0. ~EarnsStamp(job)
    BY <1>5 DEF StaysResumable, EarnsStamp
  <2>3. mem' = [mem EXCEPT !.checkpoint = NoteCheckpoint(job)]
    BY <1>1, <1>5, <2>0
  <2>4. mem \in Index /\ mem.libraryVersion = 0
    BY <1>2, <1>3 DEF BuildBasics
  <2>1. mem'.checkpoint = NoteCheckpoint(job) /\ mem'.libraryVersion = 0
    BY <2>3, <2>4 DEF Index
  <2>5. job.pc \in BuildPhase
    BY <1>1 DEF BuildPhase
  <2>2. IndexPart(mem', live, mver, clock)
    BY <1>2, <1>4, <2>1, <2>5, NotedIsHonest
  <2> QED BY <1>1, <2>2, NoJobPart, StoreStep
<1>6. CASE ~StaysResumable(job)
  <2>1. mem'.checkpoint = None
    BY <1>1, <1>2, <1>6 DEF Stamped, Index
  <2>2. CASE ~EarnsStamp(job)
    <3>1. mem'.libraryVersion = 0
      BY <1>1, <1>2, <1>3, <2>2 DEF Index, BuildBasics
    <3>2. IndexPart(mem', live, mver, clock)
      BY <2>1, <3>1 DEF IndexPart, StampPart, CheckpointPart
    <3> QED BY <1>1, <3>2, NoJobPart, StoreStep
  <2>3. CASE EarnsStamp(job)
    <3>1. mem'.libraryVersion = v /\ mem'.libraryBackend = b /\ v # 0 /\ ~job.cancelled
      BY <1>1, <1>2, <2>3 DEF Stamped, EarnsStamp, Index
    <3>2. /\ v \in Nat /\ v <= VersionOf(b, clock) /\ clock \in Nat /\ live \in SUBSET Items
          /\ mver \in [Items -> Nat]
      BY <1>2, <1>3 DEF Job, BuildBasics, Library
    <3>3. b \in Versioned
      BY <1>2, <3>1, <3>2, VersionFacts
    <3>4. ASSUME NEW i \in live
          PROVE  Current(mem, mver, i, b, v) \/ LeftOut(mem, i)
      <4>1. CASE i \in Held(mem)
        BY <1>2, <3>3, <4>1 DEF BuildPart, BuildRows
      <4>2. CASE i \notin Held(mem) /\ CapReached(job)
        <5>1. Held(mem) # Items /\ Held(mem) \in SUBSET Items
          BY <3>2, <4>2 DEF Held
        <5>2. ~Uncapped
          BY <1>3, <4>2, <5>1, CapUncapped DEF BuildBasics
        <5> QED BY <3>2, <4>2, <5>2 DEF LeftOut, Held
      <4>3. CASE i \notin Held(mem) /\ ~CapReached(job) /\ ~(VersionOf(b, mver[i]) > v)
        <5>1. Owed(job, mem, live, mver, i)
          BY <1>2, <3>1, <3>2, <4>3, VersionFacts DEF Owed
        <5>2. Trusted(job, clock)
          BY <1>1, <1>3, <3>1, <3>3, <4>3 DEF Trusted, BuildBasics
        <5> QED BY <1>1, <1>2, <3>1, <3>2, <4>3, <5>1, <5>2
                DEF BuildPart, BuildAhead, LiesAhead
      <4> QED BY <4>1, <4>2, <4>3 DEF Current
    <3>5. \A i \in live : Current(mem', mver, i, b, v) \/ LeftOut(mem', i)
      BY <1>4, <3>4 DEF Current, LeftOut
    <3> HIDE DEF b, v
    <3>6. StampPart(mem', live, mver, clock)
      BY <2>1, <3>1, <3>2, <3>3, <3>5 DEF StampPart
    <3>7. CheckpointPart(mem', live, mver, clock)
      BY <2>1 DEF CheckpointPart
    <3>8. IndexPart(mem', live, mver, clock)
      BY <3>6, <3>7 DEF IndexPart
    <3> QED BY <1>1, <3>8, NoJobPart, StoreStep
  <2> QED BY <2>2, <2>3
<1> QED BY <1>5, <1>6

-----------------------------------------------------------------------------
(* The update.                                                             *)

FreshBelow(j, B, e) == {f \in B : f.key \notin j.known /\ f.pos < e.pos}

\* The cap lets in what the index holds already, and what it has room for.
LEMMA AdmittedFacts ==
  ASSUME NEW j, NEW B, NEW e \in B
  PROVE  e \in Admitted(j, B) <=>
           \/ e.key \in j.known
           \/ Cardinality(FreshBelow(j, B, e)) + Cardinality(j.known) < MaxItems
<1>1. FreshBelow(j, B, e) = {f \in {g \in B : g.key \notin j.known} : f.pos < e.pos}
  BY DEF FreshBelow
<1>2. Admitted(j, B) =
        {g \in B : g \in {h \in B : h.key \notin j.known} =>
           Cardinality({f \in {h \in B : h.key \notin j.known} : f.pos < g.pos})
             + Cardinality(j.known) < MaxItems}
  BY DEF Admitted
<1> QED BY <1>1, <1>2

\* With room for every item, nothing is turned away.
LEMMA UncappedAdmits ==
  ASSUME NEW j, j.known \in SUBSET Items, Uncapped,
         NEW B \in SUBSET Entry, IsFiniteSet(B), NEW e \in B,
         \A f, g \in B : f.key = g.key => f = g
  PROVE  e \in Admitted(j, B)
<1> SUFFICES ASSUME e.key \notin j.known
             PROVE  Cardinality(FreshBelow(j, B, e)) + Cardinality(j.known) < MaxItems
  BY AdmittedFacts
<1> DEFINE F == FreshBelow(j, B, e)
           K == j.known \cup {e.key}
           R == Items \ K
           h == [f \in F |-> f.key]
<1>1. e.key \in Items /\ e.pos \in Nat
  BY DEF Entry
<1>2. IsFiniteSet(Items) /\ IsFiniteSet(j.known) /\ IsFiniteSet(K) /\ IsFiniteSet(R)
  BY <1>1, ConstantsAssumption, FS_Subset
<1>3. Cardinality(K) = Cardinality(j.known) + 1
  BY <1>2, FS_AddElement
<1>4. \A f \in F : f.key \in R
  <2> SUFFICES ASSUME NEW f \in F PROVE f.key \in Items /\ f.key \notin j.known /\ f.key # e.key
    OBVIOUS
  <2>1. f \in B /\ f.key \notin j.known /\ f.pos < e.pos
    BY DEF FreshBelow
  <2>2. f.key \in Items /\ f # e
    BY <1>1, <2>1 DEF Entry
  <2> QED BY <2>1, <2>2
<1>5. \A f, g \in F : f.key = g.key => f = g
  BY DEF FreshBelow
<1>6. h \in Injection(F, R)
  <2> HIDE DEF F, R
  <2> QED BY <1>4, <1>5 DEF Injection, IsInjective
<1>7. K \in SUBSET Items
  BY <1>1
<1> HIDE DEF F, R, h, K
<1>8. Cardinality(F) <= Cardinality(R)
  BY <1>2, <1>6, FS_Injection
<1>9. Cardinality(R) = Cardinality(Items) - Cardinality(K)
  <2>1. Items \cap K = K
    BY <1>7
  <2>2. Cardinality(Items \ K) = Cardinality(Items) - Cardinality(Items \cap K)
    BY <1>2, FS_Difference
  <2> QED BY <2>1, <2>2 DEF R
<1>10. /\ Cardinality(F) \in Nat /\ Cardinality(R) \in Nat /\ Cardinality(K) \in Nat
       /\ Cardinality(Items) \in Nat /\ Cardinality(j.known) \in Nat
  BY <1>2, <1>6, FS_Injection, FS_CardinalityType
<1>11. Cardinality(Items) <= MaxItems /\ MaxItems \in Nat
  BY ConstantsAssumption DEF Uncapped
<1>12. Cardinality(F) + Cardinality(j.known) < MaxItems
  BY <1>3, <1>8, <1>9, <1>10, <1>11
<1> QED BY <1>12 DEF F

LEMMA RunningUpdate ==
  ASSUME TypeInv, StampInv, job.kind = "update", job.pc # "deferred"
  PROVE  /\ job \in Job /\ mem \in Index /\ disk \in Index
         /\ job.backend \in Versioned /\ job.backend \in Backends
         /\ mem.libraryVersion \in Nat /\ mem.libraryVersion # 0
         /\ mem.checkpoint = None
         /\ mem.libraryVersion <= VersionOf(job.backend, clock)
         /\ UpdatePart(job, mem, live, mver, clock)
         /\ Library(live, mver, clock)
         /\ IndexPart(mem, live, mver, clock)
BY ConstantsAssumption
   DEF TypeInv, TypeOK, StampInv, JobPart, UpdatePart, UpdateBasics, IndexPart, StampPart, Index

LEMMA StartUpdateKeepsStampInv ==
  ASSUME TypeInv, StampInv, NEW b \in Backends, StartUpdate(b)
  PROVE  StampInv'
<1> DEFINE j == [NoJob EXCEPT !.kind = "update", !.pc = "fetch", !.backend = b,
                              !.known = Held(mem), !.startedAt = clock]
<1>1. /\ ~UpdateBlocked(b) /\ job' = j /\ mem' = mem /\ disk' = mem /\ LibraryUnchanged
      /\ clock \in Nat
  BY DEF StartUpdate, OpenTransactionCommitted, TypeInv, TypeOK
<1>2. /\ j.kind = "update" /\ j.pc = "fetch" /\ j.backend = b
      /\ j.known = Held(mem) /\ j.crawlVersion = 0 /\ j.start = 0
  BY DEF NoJob
<1> HIDE DEF j
<1>3. mem.libraryVersion # 0 /\ mem.libraryBackend = b
  BY <1>1 DEF UpdateBlocked
<1>4. VersionOf(b, clock) \in Nat
  BY <1>1, VersionFacts
<1>5. UpdateBasics(j, mem, clock)
  BY <1>2, <1>3, <1>4 DEF UpdateBasics
<1>6. UpdateRows(j, mem, live, mver)
  BY <1>2 DEF UpdateRows
<1>7. UpdateCensus(j, live, mver)
  BY <1>2 DEF UpdateCensus
<1>8. JobPart(job', mem', live, mver, clock)
  BY <1>1, <1>2, <1>5, <1>6, <1>7 DEF JobPart, UpdatePart
<1>9. IndexPart(mem', live, mver, clock)
  BY <1>1 DEF StampInv
<1> QED BY <1>1, <1>8, <1>9, StoreStep

LEMMA CensusPageKeepsStampInv ==
  ASSUME TypeInv, StampInv, CensusPage
  PROVE  StampInv'
<1> DEFINE P == Page(live, job.start, VersionsPageSize)
           next == job.start + Cardinality(P)
           keys == {e.key : e \in P}
           b == job.backend
           v == job.crawlVersion
           j == job'
<1>1. /\ job.kind = "update" /\ job.pc = "live" /\ LibraryUnchanged
      /\ mem' = mem /\ disk' = disk
      /\ job' = [job EXCEPT !.census = @ \cup keys, !.start = next,
                            !.pc = IF P = {} \/ next >= Cardinality(live)
                                   THEN "reconcile" ELSE "live"]
  BY DEF CensusPage, TransactionStaysOpen
<1>2. /\ job \in Job /\ b \in Backends
      /\ UpdatePart(job, mem, live, mver, clock)
      /\ Library(live, mver, clock)
      /\ IndexPart(mem, live, mver, clock)
  BY <1>1, RunningUpdate
<1>3. /\ j.kind = "update" /\ j.backend = b /\ j.crawlVersion = v
      /\ j.known = job.known /\ j.census = job.census \cup keys /\ j.start = next
      /\ \/ j.pc = "live"
         \/ j.pc = "reconcile" /\ (P = {} \/ next >= Cardinality(live))
  <2> HIDE DEF P, next, keys
  <2> QED BY <1>1, <1>2 DEF Job
<1>4. /\ \A e \in P : e.key \in live
      /\ \A i \in live : \/ Position(mver, live, i) < job.start
                         \/ \E e \in P : e.key = i
                         \/ Position(mver, live, i) >= next
      /\ P = {} => \A i \in live : Position(mver, live, i) < job.start
  <2>1. VersionsPageSize \in Nat \ {0} /\ job.start \in Nat
    BY <1>2, ConstantsAssumption DEF Job
  <2> QED BY <1>2, <2>1, PageFacts DEF Library
<1>5. /\ job.start \in Nat /\ next \in Nat /\ Cardinality(live) \in Nat
      /\ \A i \in live : Position(mver, live, i) \in Nat /\ Position(mver, live, i) < Cardinality(live)
  <2>1. job.start \in Nat /\ mver \in [Items -> Nat] /\ live \in SUBSET Items
    BY <1>2 DEF Job, Library
  <2>2. Cardinality(P) \in Nat
    BY <2>1, PageType, ConstantsAssumption
  <2> QED BY <2>1, <2>2, PositionType, FiniteCount
<1> HIDE DEF P, next, j, b, v
<1>6. UpdateBasics(j, mem, clock)
  BY <1>1, <1>2, <1>3 DEF UpdatePart, UpdateBasics, b, v
<1>7. UpdateRows(j, mem, live, mver)
  BY <1>1, <1>2, <1>3 DEF UpdatePart, UpdateRows, Settled, b, v
<1>8. UpdateCensus(j, live, mver)
  <2> SUFFICES ASSUME NEW i \in live, ~(VersionOf(b, mver[i]) > v), i \notin job.census,
                      i \notin keys
               PROVE  j.pc = "live" /\ Position(mver, live, i) >= next
    BY <1>3 DEF UpdateCensus
  <2>1. Position(mver, live, i) >= job.start
    BY <1>1, <1>2 DEF UpdatePart, UpdateCensus, b, v
  <2>2. P # {} /\ Position(mver, live, i) >= next
    BY <1>4, <1>5, <2>1
  <2> QED BY <1>3, <1>5, <2>2
<1>9. JobPart(job', mem', live, mver, clock)
  BY <1>1, <1>3, <1>6, <1>7, <1>8 DEF JobPart, UpdatePart, j
<1> QED BY <1>1, <1>2, <1>9, StoreStep

LEMMA FinishUpdateKeepsStampInv ==
  ASSUME TypeInv, StampInv, FinishUpdate
  PROVE  StampInv'
<1> DEFINE gone == IF CensusBelieved(job) THEN job.known \ job.census ELSE {}
           kept == Without(mem, gone)
           b == job.backend
           v == job.crawlVersion
           lv == mem.libraryVersion
<1>1. /\ job.kind = "update" /\ job.pc = "reconcile" /\ LibraryUnchanged
      /\ mem' = IF MovesStamp(job) THEN Stamped(kept, job) ELSE kept
      /\ AfterPersist([job EXCEPT !.pc = "deferred", !.pending = @ \ gone])
  BY DEF FinishUpdate
<1>2. /\ job \in Job /\ mem \in Index /\ b \in Versioned /\ b \in Backends
      /\ lv \in Nat /\ lv # 0 /\ lv <= VersionOf(b, clock)
      /\ mem.checkpoint = None
      /\ UpdatePart(job, mem, live, mver, clock)
      /\ Library(live, mver, clock)
      /\ IndexPart(mem, live, mver, clock)
  BY <1>1, RunningUpdate
<1>3. /\ v \in Nat /\ v # 0 /\ lv <= v /\ v <= VersionOf(b, clock)
      /\ mem.libraryBackend = b
  BY <1>1, <1>2 DEF Job, UpdatePart, UpdateBasics
<1>4. live \in SUBSET Items /\ mver \in [Items -> Nat]
      /\ \A i \in live : VersionOf(b, mver[i]) \in Nat
  BY <1>2, VersionFacts DEF Library
<1>5. gone \subseteq job.known \ job.census
  OBVIOUS
<1>6. /\ kept.rows = [i \in Items |-> IF i \in gone THEN 0 ELSE mem.rows[i]]
      /\ kept.checkpoint = None /\ kept.libraryVersion = lv /\ kept.libraryBackend = b
  <2> HIDE DEF gone
  <2> QED BY <1>2, <1>3 DEF Without, Index
<1>7. kept \in Index
  <2> HIDE DEF gone
  <2>1. [i \in Items |-> IF i \in gone THEN 0 ELSE mem.rows[i]] \in [Items -> Nat]
    BY <1>2 DEF Index
  <2> QED BY <1>2, <2>1 DEF Without, Index
<1> HIDE DEF gone, kept
<1>8. /\ mem'.rows = kept.rows /\ mem'.checkpoint = None /\ mem'.libraryBackend = b
      /\ mem'.libraryVersion \in {lv, v}
  BY <1>1, <1>6, <1>7 DEF Stamped, Index
<1>9. \A i \in live : i \in gone => VersionOf(b, mver[i]) > v
  BY <1>1, <1>2, <1>5 DEF UpdatePart, UpdateCensus
<1>10. \A i \in live : i \notin gone => kept.rows[i] = mem.rows[i]
  BY <1>4, <1>6
<1>11. \A i \in live : Current(mem', mver, i, b, v) \/ LeftOut(mem', i)
  <2> TAKE i \in live
  <2>1. Current(mem, mver, i, b, v) \/ LeftOut(mem, i)
    BY <1>1, <1>2, <1>3 DEF UpdatePart, UpdateRows, Settled
  <2> QED BY <1>8, <1>9, <1>10, <2>1 DEF Current, LeftOut
<1>12. \A i \in live : Current(mem', mver, i, b, lv) \/ LeftOut(mem', i)
  <2> TAKE i \in live
  <2>1. Current(mem, mver, i, b, lv) \/ LeftOut(mem, i)
    BY <1>2, <1>3 DEF IndexPart, StampPart
  <2>2. VersionOf(b, mver[i]) > v => VersionOf(b, mver[i]) > lv
    BY <1>2, <1>3, <1>4
  <2> QED BY <1>8, <1>9, <1>10, <2>1, <2>2 DEF Current, LeftOut
<1> HIDE DEF b, v, lv
<1>13. StampPart(mem', live, mver, clock)
  BY <1>2, <1>3, <1>8, <1>11, <1>12 DEF StampPart
<1>14. IndexPart(mem', live, mver, clock)
  BY <1>8, <1>13 DEF IndexPart, CheckpointPart
<1>15. JobPart(job', mem', live, mver, clock)
  <2>1. CASE job' = NoJob
    BY <2>1, NoJobPart
  <2>2. CASE job' = [job EXCEPT !.pc = "deferred", !.pending = @ \ gone]
    <3>1. job'.kind = "update" /\ job'.pc = "deferred"
      BY <1>1, <1>2, <2>2 DEF Job
    <3> QED BY <3>1 DEF JobPart
  <2> QED BY <1>1, <2>1, <2>2 DEF AfterPersist
<1>16. disk' \in {disk, mem'}
  BY <1>1 DEF AfterPersist
<1> QED BY <1>1, <1>14, <1>15, <1>16, StoreStep

\* A page of the delta is taken as the library has it, but for what the cap turns away;
\* what it does not name was settled before, or lies on a later page.
LEMMA UpdatePageKeepsStampInv ==
  ASSUME TypeInv, StampInv, UpdatePage
  PROVE  StampInv'
<1> DEFINE b == job.backend
           lv == mem.libraryVersion
           delta == ChangedSince(b, lv)
           P == Page(delta, job.start, PageSize)
           taken == Admitted(job, P)
           keys == {e.key : e \in taken}
           next == job.start + Cardinality(P)
           v == CrawlVersion(job)
           rows == [i \in Items |-> IF i \in keys
                                    THEN (CHOOSE e \in taken : e.key = i).ver
                                    ELSE mem.rows[i]]
           seen == [job EXCEPT !.crawlVersion = v]
           j == job'
           idx == mem'
<1>1. /\ job.kind = "update" /\ job.pc = "fetch" /\ LibraryUnchanged /\ disk' = disk
      /\ mem' = [mem EXCEPT
                   !.rows = [i \in Items |-> IF i \in keys
                                             THEN (CHOOSE e \in taken : e.key = i).ver
                                             ELSE @[i]],
                   !.vectors = @ \ keys]
      /\ job' = IF P = {} \/ next >= Cardinality(delta)
                THEN [seen EXCEPT !.pc = "live", !.start = 0, !.known = @ \cup keys,
                                  !.pending = @ \cup keys]
                ELSE [seen EXCEPT !.start = next, !.known = @ \cup keys,
                                  !.pending = @ \cup keys]
  BY DEF UpdatePage, Fetching, TransactionStaysOpen
<1>2. /\ job \in Job /\ mem \in Index /\ b \in Versioned /\ b \in Backends
      /\ lv \in Nat /\ lv # 0 /\ lv <= VersionOf(b, clock)
      /\ mem.checkpoint = None
      /\ UpdatePart(job, mem, live, mver, clock)
      /\ Library(live, mver, clock)
      /\ IndexPart(mem, live, mver, clock)
  BY <1>1, RunningUpdate
<1>3. /\ mver \in [Items -> Nat] /\ clock \in Nat /\ live \in SUBSET Items
      /\ \A i, k \in live : mver[i] = mver[k] => i = k
      /\ job.start \in Nat /\ job.known \in SUBSET Items /\ job.crawlVersion \in Nat
      /\ VersionOf(b, clock) \in Nat
  BY <1>2, VersionFacts DEF Library, Job
<1>4. UpdateBasics(job, mem, clock)
  BY <1>2 DEF UpdatePart
<1>5. v = IF job.crawlVersion = 0 THEN VersionOf(b, clock) ELSE job.crawlVersion
  BY DEF CrawlVersion
<1>6. v \in Nat /\ v # 0 /\ v <= VersionOf(b, clock) /\ lv <= v
  BY <1>2, <1>3, <1>4, <1>5 DEF UpdateBasics
<1>7. delta = Since(b, lv, live, mver) /\ delta \in SUBSET live
  BY DEF ChangedSince, Since
<1> HIDE DEF v, delta
<1>8. /\ \A e \in P : /\ e.key \in delta
                      /\ e.ver = mver[e.key]
                      /\ e.pos = Position(mver, delta, e.key)
      /\ \A e, f \in P : e.pos = f.pos => e = f
      /\ \A i \in delta : \/ Position(mver, delta, i) < job.start
                          \/ \E e \in P : e.key = i
                          \/ Position(mver, delta, i) >= next
      /\ P = {} => \A i \in delta : Position(mver, delta, i) < job.start
      /\ P \in SUBSET Entry /\ IsFiniteSet(P) /\ Cardinality(P) \in Nat
  <2>1. PageSize \in Nat \ {0} /\ delta \in SUBSET Items
        /\ \A i, k \in delta : mver[i] = mver[k] => i = k
    BY <1>3, <1>7, ConstantsAssumption
  <2> QED BY <1>3, <2>1, PageFacts, PageType
<1>9. /\ next \in Nat /\ Cardinality(delta) \in Nat
      /\ \A i \in delta : /\ Position(mver, delta, i) \in Nat
                          /\ Position(mver, delta, i) < Cardinality(delta)
  BY <1>3, <1>7, <1>8, PositionType, FiniteCount
<1>10. mem' = [mem EXCEPT !.rows = rows, !.vectors = @ \ keys]
  <2> HIDE DEF keys, taken
  <2> QED BY <1>1, <1>2 DEF Index
<1> HIDE DEF P, next
<1>11. taken \in SUBSET P
  BY DEF Admitted
<1> HIDE DEF taken
<1>12. \A i \in keys : rows[i] = mver[i] /\ i \in Items
  <2> TAKE i \in keys
  <2>1. \A e \in taken : e.key = i => e.ver = mver[i]
    BY <1>8, <1>11
  <2>2. (CHOOSE e \in taken : e.key = i).ver = mver[i]
    BY <2>1
  <2>3. i \in Items
    BY <1>3, <1>7, <1>8, <1>11
  <2> QED BY <2>2, <2>3
<1>13. \A i \in Items \ keys : rows[i] = mem.rows[i]
  OBVIOUS
<1> HIDE DEF rows
<1>14. keys \in SUBSET Items
  BY <1>12
<1> HIDE DEF keys
<1>15. /\ idx.rows = rows /\ idx.libraryVersion = lv /\ idx.checkpoint = None
       /\ idx.libraryBackend = b
  BY <1>2, <1>4, <1>10 DEF Index, UpdateBasics
<1>16. /\ j.kind = "update" /\ j.backend = b /\ j.crawlVersion = v
       /\ j.known = job.known \cup keys
       /\ \/ j.pc = "fetch" /\ j.start = next
          \/ j.pc = "live" /\ j.start = 0 /\ (P = {} \/ next >= Cardinality(delta))
  <2>1. /\ seen \in Job /\ seen.kind = "update" /\ seen.backend = b /\ seen.crawlVersion = v
        /\ seen.known = job.known /\ seen.pc = "fetch"
    BY <1>1, <1>2, <1>6 DEF Job
  <2> HIDE DEF seen, j
  <2>2. CASE j = [seen EXCEPT !.pc = "live", !.start = 0, !.known = @ \cup keys,
                              !.pending = @ \cup keys]
             /\ (P = {} \/ next >= Cardinality(delta))
    <3>1. /\ j.kind = seen.kind /\ j.backend = seen.backend
          /\ j.crawlVersion = seen.crawlVersion /\ j.known = seen.known \cup keys
          /\ j.pc = "live" /\ j.start = 0
      BY <2>1, <2>2 DEF Job
    <3> QED BY <2>1, <2>2, <3>1
  <2>3. CASE j = [seen EXCEPT !.start = next, !.known = @ \cup keys, !.pending = @ \cup keys]
    <3>1. /\ j.kind = seen.kind /\ j.backend = seen.backend
          /\ j.crawlVersion = seen.crawlVersion /\ j.known = seen.known \cup keys
          /\ j.pc = seen.pc /\ j.start = next
      BY <2>1, <2>3 DEF Job
    <3> QED BY <2>1, <3>1
  <2> QED BY <1>1, <2>2, <2>3 DEF j
<1> HIDE DEF j, idx, seen
<1>17. ASSUME NEW i \in live, i \notin keys, \E e \in P : e.key = i
       PROVE  LeftOut(mem, i)
  <2>1. PICK e \in P : e.key = i
    BY <1>17
  <2>2. e \notin taken
    BY <1>17, <2>1 DEF keys
  <2>3. i \notin job.known
    BY <2>1, <2>2, AdmittedFacts DEF taken
  <2>4. \A f, g \in P : f.key = g.key => f = g
    BY <1>8
  <2>5. ~Uncapped
    BY <1>3, <1>8, <2>1, <2>2, <2>4, UncappedAdmits DEF taken
  <2>6. mem.rows[i] = 0
    BY <1>3, <1>4, <2>3 DEF UpdateBasics, Held
  <2> QED BY <2>5, <2>6 DEF LeftOut
<1>18. ASSUME NEW i \in live
       PROVE  \/ Current(idx, mver, i, b, v)
              \/ LeftOut(idx, i)
              \/ i \in delta /\ Position(mver, delta, i) >= next /\ P # {}
  <2>0. i \in Items
    BY <1>3
  <2>1. CASE i \in keys
    BY <1>12, <1>15, <2>1 DEF Current
  <2>2. CASE i \notin keys /\ \E e \in P : e.key = i
    <3>1. LeftOut(mem, i)
      BY <1>17, <2>2
    <3> QED BY <1>13, <1>15, <2>0, <2>2, <3>1 DEF LeftOut
  <2>3. CASE i \notin keys /\ ~(\E e \in P : e.key = i)
    <3>1. idx.rows[i] = mem.rows[i]
      BY <1>13, <1>15, <2>0, <2>3
    <3>2. i \in delta /\ Position(mver, delta, i) >= job.start
            => Position(mver, delta, i) >= next /\ P # {}
      BY <1>3, <1>8, <1>9, <2>3
    <3>3. CASE job.crawlVersion = 0
      <4>1. job.start = 0
        BY <1>4, <3>3 DEF UpdateBasics
      <4>2. i \in delta => Position(mver, delta, i) >= job.start
        BY <1>9, <4>1
      <4>3. i \notin delta => ~(VersionOf(b, mver[i]) > lv)
        BY <1>7 DEF Since
      <4>4. Current(mem, mver, i, b, lv) \/ LeftOut(mem, i)
        BY <1>2, <1>4 DEF IndexPart, StampPart, UpdateBasics
      <4> QED BY <3>1, <3>2, <4>2, <4>3, <4>4 DEF Current, LeftOut
    <3>4. CASE job.crawlVersion # 0
      <4>1. v = job.crawlVersion
        BY <1>5, <3>4
      <4>2. \/ Current(mem, mver, i, b, v) \/ LeftOut(mem, i)
            \/ i \in delta /\ Position(mver, delta, i) >= job.start
        BY <1>2, <1>7, <3>4, <4>1 DEF UpdatePart, UpdateRows, Settled
      <4> QED BY <3>1, <3>2, <4>2 DEF Current, LeftOut
    <3> QED BY <3>3, <3>4
  <2> QED BY <2>1, <2>2, <2>3
<1>19. UpdateBasics(j, idx, clock)
  <2>1. Held(idx) \subseteq j.known
    <3> SUFFICES ASSUME NEW i \in Items, idx.rows[i] # 0, i \notin keys
                 PROVE  i \in job.known
      BY <1>16 DEF Held
    <3>1. i \in Held(mem)
      BY <1>13, <1>15 DEF Held
    <3> QED BY <1>4, <3>1 DEF UpdateBasics
  <2> QED BY <1>2, <1>6, <1>15, <1>16, <2>1 DEF UpdateBasics
<1>20. UpdateRows(j, idx, live, mver)
  <2> SUFFICES ASSUME NEW i \in live, ~Current(idx, mver, i, b, v), ~LeftOut(idx, i)
               PROVE  j.pc = "fetch" /\ i \in delta /\ Position(mver, delta, i) >= j.start
    BY <1>7, <1>15, <1>16 DEF UpdateRows, Settled
  <2>1. i \in delta /\ Position(mver, delta, i) >= next /\ P # {}
    BY <1>18
  <2> QED BY <1>9, <1>16, <2>1
<1>21. UpdateCensus(j, live, mver)
  <2>1. \A i \in live : Position(mver, live, i) \in Nat
    BY <1>3, PositionType
  <2> QED BY <1>16, <2>1 DEF UpdateCensus
<1>22. IndexPart(idx, live, mver, clock)
  <2>1. \A i \in live : Current(idx, mver, i, b, lv) \/ LeftOut(idx, i)
    <3> TAKE i \in live
    <3>0. i \in Items
      BY <1>3
    <3>1. CASE i \in keys
      BY <1>12, <1>15, <3>1 DEF Current
    <3>2. CASE i \notin keys
      <4>1. Current(mem, mver, i, b, lv) \/ LeftOut(mem, i)
        BY <1>2, <1>4 DEF IndexPart, StampPart, UpdateBasics
      <4> QED BY <1>13, <1>15, <3>0, <3>2, <4>1 DEF Current, LeftOut
    <3> QED BY <3>1, <3>2
  <2> HIDE DEF b, lv
  <2> QED BY <1>2, <1>15, <2>1 DEF IndexPart, StampPart, CheckpointPart
<1>23. JobPart(job', mem', live, mver, clock)
  BY <1>16, <1>19, <1>20, <1>21 DEF JobPart, UpdatePart, j, idx
<1>24. IndexPart(mem', live, mver, clock)
  BY <1>22 DEF idx
<1> QED BY <1>1, <1>23, <1>24, StoreStep

-----------------------------------------------------------------------------

LEMMA StampInvKept ==
  ASSUME ~RemovesDuringJobs, ~PausesDuringJobs, SameNumbers,
         TypeInv, NotPaused, StampInv, [Next]_vars
  PROVE  StampInv'
<1>1. CASE LibraryStep
  BY <1>1, ModifyKeepsStampInv, RemoveKeepsStampInv DEF LibraryStep
<1>2. CASE StartJob \/ Refresh
  BY <1>2, StartBuildKeepsStampInv, StartUpdateKeepsStampInv DEF StartJob, Refresh
<1>3. CASE BuildStep
  BY <1>3, RecrawlKeepsStampInv, ReadPageKeepsStampInv, IndexItemKeepsStampInv,
     EndPageKeepsStampInv, EmbeddingKeepsStampInv, MaybePersistKeepsStampInv,
     FinishBuildKeepsStampInv DEF BuildStep
<1>4. CASE UpdateStep
  BY <1>4, UpdatePageKeepsStampInv, CensusPageKeepsStampInv, FinishUpdateKeepsStampInv,
     EndKeepsStampInv, DeferredKeepsStampInv DEF UpdateStep
<1>5. CASE Disturbance \/ Resume
  BY <1>5, EmbeddingKeepsStampInv, BuildFailsKeepsStampInv, DeferredKeepsStampInv,
     EndKeepsStampInv, StopKeepsStampInv, PauseKeepsStampInv DEF Disturbance
<1>6. CASE UNCHANGED vars
  BY <1>6 DEF vars, StampInv
<1> QED BY <1>1, <1>2, <1>3, <1>4, <1>5, <1>6 DEF Next

LEMMA InitStampInv ==
  ASSUME Init
  PROVE  StampInv
<1>1. Library(live, mver, clock)
  <2>1. clock \in Nat /\ live \in SUBSET Items
    BY FiniteCount DEF Init
  <2>2. mver \in [Items -> 0..clock]
    BY DEF Init
  <2>3. mver \in [Items -> Nat] /\ \A i \in Items : mver[i] <= clock
    BY <2>1, <2>2
  <2> QED BY <2>1, <2>3 DEF Library, Init
<1>2. IndexPart(EmptyIndex, live, mver, clock)
  BY DEF IndexPart, StampPart, CheckpointPart, EmptyIndex
<1> QED BY <1>1, <1>2, NoJobPart DEF Init, StampInv

\* The inductive invariant of the index jobs.
LEMMA StampInvHolds ==
  ASSUME ~RemovesDuringJobs, ~PausesDuringJobs, SameNumbers
  PROVE  Spec => [](TypeInv /\ StampInv)
<1>1. Init => NotPaused
  BY DEF Init, NotPaused, NoJob
<1>2. TypeInv /\ NotPaused /\ [Next]_vars => NotPaused'
  BY NotPausedKept
<1>3. TypeInv /\ NotPaused /\ StampInv /\ [Next]_vars => StampInv'
  BY StampInvKept
<1>4. Init => StampInv
  BY InitStampInv
<1> QED BY InitTypes, TypesKept, <1>1, <1>2, <1>3, <1>4, PTL DEF Spec

\* A stamped index, in memory or on disk, never hides a gap: an item it does not hold as the
\* library has it is one the next update's ?since= will name, or one the cap left out
\* (index-manager.ts:1741, :1869).  Removals and pauses are kept to the time between jobs,
\* and a build is not resumed over an API that numbers versions differently: TLC shows what
\* each of the three does otherwise.
THEOREM StampsAreHonest ==
  ASSUME ~RemovesDuringJobs, ~PausesDuringJobs, SameNumbers
  PROVE  Spec => []StampHonest
<1>1. StampInv => StampHonest
  BY DEF StampInv, IndexPart, StampPart, Current, LeftOut, StampHonest, HonestStamp, Stamp, Lags
<1> QED BY StampInvHolds, <1>1, PTL

\* A stored checkpoint points past nothing: while the library is as it was when the crawl
\* began, what the index lacks is listed at the offset or later (index-manager.ts:1560).
THEOREM CheckpointsAreHonest ==
  ASSUME ~RemovesDuringJobs, ~PausesDuringJobs, SameNumbers
  PROVE  Spec => []CheckpointHonest
<1>1. StampInv => CheckpointHonest
  BY RankIsPosition DEF StampInv, IndexPart, CheckpointPart, CheckpointHonest
<1> QED BY StampInvHolds, <1>1, PTL

LEMMA FinishedBuildCovers ==
  ASSUME Backends \subseteq Versioned, TypeInv, StampInv
  PROVE  BuildCovers
<1> SUFFICES ASSUME job.kind = "build", job.pc = "finish", ~job.cancelled,
                    job.startedAt = clock, ~CapReached(job), NEW i \in live
             PROVE  mem.rows[i] # 0 /\ (~job.resumed => mem.rows[i] = mver[i])
  BY DEF BuildCovers
<1> DEFINE b == job.backend
           v == job.crawlVersion
<1>1. /\ job \in Job /\ b \in Versioned /\ b \in Backends
      /\ BuildPart(job, mem, live, mver, clock)
      /\ Library(live, mver, clock)
  BY RunningBuild
<1>2. /\ i \in Items /\ mver[i] \in Nat /\ mver[i] <= clock /\ clock \in Nat /\ v \in Nat
  BY <1>1 DEF Library, Job
<1>3. BuildBasics(job, mem, clock)
  BY <1>1 DEF BuildPart
<1>4. Trusted(job, clock)
  BY <1>1, <1>3 DEF Trusted, BuildBasics
<1>5. i \in Held(mem)
  <2> SUFFICES ASSUME i \notin Held(mem) PROVE FALSE
    OBVIOUS
  <2>1. Owed(job, mem, live, mver, i)
    BY <1>2 DEF Owed
  <2> QED BY <1>1, <1>2, <1>4, <2>1 DEF BuildPart, BuildAhead, LiesAhead
<1>6. mem.rows[i] # 0
  BY <1>5 DEF Held
<1>7. ASSUME ~job.resumed
      PROVE  mem.rows[i] = mver[i]
  <2>1. v # 0 /\ v >= VersionOf(b, clock)
    BY <1>1, <1>3, <1>5, <1>7 DEF BuildBasics
  <2>2. Current(mem, mver, i, b, v)
    BY <1>1, <1>5 DEF BuildPart, BuildRows
  <2>3. VersionOf(b, mver[i]) <= VersionOf(b, clock)
        /\ VersionOf(b, clock) \in Nat /\ VersionOf(b, mver[i]) \in Nat
    BY <1>1, <1>2, VersionFacts
  <2> QED BY <1>2, <2>1, <2>2, <2>3 DEF Current
<1> QED BY <1>6, <1>7

\* A build that ran through, over a library nobody changed meanwhile, holds every item of
\* it, or as many as the cap lets in; a fresh one holds them as they are.  It is proved for
\* APIs that answer with their version: without one a resumed build cannot tell that its
\* offset went stale.
THEOREM FinishedBuildsCover ==
  ASSUME ~RemovesDuringJobs, ~PausesDuringJobs, SameNumbers, Backends \subseteq Versioned
  PROVE  Spec => []BuildCovers
<1>1. TypeInv /\ StampInv => BuildCovers
  BY FinishedBuildCovers
<1> QED BY StampInvHolds, <1>1, PTL

-----------------------------------------------------------------------------
(* The item cap.                                                           *)

\* What the index holds fits under the cap, and a running job that may add to it knows of
\* every item it holds.
WithinCap(idx) == Cardinality(Held(idx)) <= MaxItems

CapPart(j, idx) ==
  /\ WithinCap(idx)
  /\ j.kind = "build" => /\ Held(idx) \subseteq j.known \cup j.indexed
                         /\ Fetched(j) <= MaxItems
  /\ j.kind = "update" /\ j.pc = "fetch" => /\ Held(idx) \subseteq j.known
                                            /\ Cardinality(j.known) <= MaxItems

CapInv ==
  /\ Library(live, mver, clock)
  /\ CapPart(job, mem)
  /\ WithinCap(disk)

LEMMA SmallerFits ==
  ASSUME NEW S \in SUBSET Items, NEW T \in SUBSET S, Cardinality(S) <= MaxItems
  PROVE  Cardinality(T) <= MaxItems
<1>1. IsFiniteSet(S) /\ Cardinality(S) \in Nat /\ MaxItems \in Nat
  BY ConstantsAssumption, FS_Subset, FiniteCount
<1>2. Cardinality(T) <= Cardinality(S) /\ Cardinality(T) \in Nat
  BY <1>1, FS_Subset, FS_CardinalityType
<1> QED BY <1>1, <1>2

\* Nothing fits better than an index of nothing.
LEMMA EmptyFits ==
  ASSUME NEW idx, Held(idx) = {}
  PROVE  WithinCap(idx)
BY FS_EmptySet, ConstantsAssumption DEF WithinCap

LEMMA HeldSame ==
  ASSUME NEW idx, NEW jdx, jdx.rows = idx.rows
  PROVE  Held(jdx) = Held(idx)
BY DEF Held

\* The library's own changes touch no index.
LEMMA LibraryKeepsCap ==
  ASSUME CapInv, NEW i \in Items, Modify(i) \/ Remove(i)
  PROVE  CapInv'
<1>1. Library(live, mver, clock)' /\ mem' = mem /\ disk' = disk /\ job' = job
  BY ModifyKeepsLibrary, RemoveKeepsLibrary DEF CapInv, Modify, Remove
<1> QED BY <1>1 DEF CapInv

\* A step that adds no row, over a job that goes on as it was or ends.
LEMMA CapGoesOn ==
  ASSUME TypeInv, CapInv, LibraryUnchanged,
         Held(mem') \subseteq Held(mem),
         Held(disk') \in {Held(disk), Held(mem), Held(mem')},
         job'.kind = "build" => /\ job.kind = "build"
                                /\ job'.known = job.known /\ job'.indexed = job.indexed,
         job'.kind = "update" /\ job'.pc = "fetch" =>
           /\ job.kind = "update" /\ job.pc = "fetch"
           /\ job'.known = job.known
  PROVE  CapInv'
<1>1. Library(live, mver, clock)'
  BY DEF CapInv, LibraryUnchanged, libraryVars
<1>2. Held(mem) \in SUBSET Items
  BY DEF Held
<1>3. WithinCap(mem')
  BY <1>2, SmallerFits DEF CapInv, CapPart, WithinCap
<1>4. WithinCap(disk')
  BY <1>3 DEF CapInv, CapPart, WithinCap
<1>5. CapPart(job', mem')
  BY <1>3 DEF CapInv, CapPart, Fetched
<1> QED BY <1>1, <1>4, <1>5 DEF CapInv

\* Starting over, from what is on disk, or with no job at all.
LEMMA CapReloads ==
  ASSUME CapInv, LibraryUnchanged,
         mem' \in {mem, disk}, disk' \in {mem, disk}, job' = NoJob
  PROVE  CapInv'
<1>1. Library(live, mver, clock)'
  BY DEF CapInv, LibraryUnchanged, libraryVars
<1>2. CapPart(NoJob, mem')
  BY DEF CapInv, CapPart, NoJob
<1> QED BY <1>1, <1>2 DEF CapInv, CapPart

LEMMA StartBuildKeepsCap ==
  ASSUME TypeInv, CapInv, NEW b \in Backends, NEW fresh \in BOOLEAN, StartBuild(b, fresh)
  PROVE  CapInv'
<1> DEFINE new == [NoJob EXCEPT !.kind = "build", !.backend = b, !.startedAt = clock]
           cp == mem.checkpoint
           res == [new EXCEPT !.resumed = TRUE, !.unverified = TRUE,
                              !.start = cp.crawlOffset,
                              !.itemsAvailable = cp.itemsAvailable,
                              !.crawlVersion = cp.crawlVersion,
                              !.known = Held(mem),
                              !.pending = cp.pending \cap Held(mem)]
<1>1. LibraryUnchanged /\ disk' = mem
  BY DEF StartBuild, OpenTransactionCommitted
<1>2. Library(live, mver, clock)' /\ WithinCap(disk')
  BY <1>1 DEF CapInv, CapPart, LibraryUnchanged, libraryVars
<1>3. CASE job' = AtHead(res) /\ mem' = mem
  <2>1. /\ job'.kind = "build" /\ job'.known = Held(mem) /\ job'.indexed = {}
    BY <1>3 DEF AtHead, NoJob
  <2>2. job'.known \cup job'.indexed = Held(mem)
    BY <2>1
  <2> HIDE DEF res, new, cp
  <2>3. CapPart(job', mem')
    BY <1>3, <2>1, <2>2 DEF CapInv, CapPart, WithinCap, Fetched
  <2> QED BY <1>2, <2>3 DEF CapInv
<1>4. CASE job' = AtHead(new) /\ mem' = Reset(mem)
  <2>1. /\ job'.kind = "build" /\ job'.known = {} /\ job'.indexed = {}
    BY <1>4 DEF AtHead, NoJob
  <2>2. Held(mem') = {}
    BY <1>4 DEF Reset, EmptyIndex, Held
  <2> HIDE DEF new
  <2>3. Fetched(job') <= MaxItems
    BY <2>1, FS_EmptySet, ConstantsAssumption DEF Fetched
  <2>4. CapPart(job', mem')
    BY <2>1, <2>2, <2>3, EmptyFits DEF CapPart
  <2> QED BY <1>2, <2>4 DEF CapInv
<1> QED BY <1>3, <1>4 DEF StartBuild

LEMMA StartUpdateKeepsCap ==
  ASSUME TypeInv, CapInv, NEW b \in Backends, StartUpdate(b)
  PROVE  CapInv'
<1>1. LibraryUnchanged /\ disk' = mem /\ mem' = mem
  BY DEF StartUpdate, OpenTransactionCommitted
<1>2. job'.kind = "update" /\ job'.known = Held(mem)
  BY DEF StartUpdate, NoJob
<1>3. Library(live, mver, clock)'
  BY <1>1 DEF CapInv, LibraryUnchanged, libraryVars
<1> QED BY <1>1, <1>2, <1>3 DEF CapInv, CapPart, WithinCap

\* The crawl goes on without a row: a page read or ended, a batch embedded, a commit.
LEMMA CrawlKeepsCap ==
  ASSUME TypeInv, CapInv,
         \/ RecrawlFromTop \/ ReadPage \/ EndPage \/ EmbedBatch \/ EmbedFails
         \/ MaybePersist \/ EndCrawl \/ BackfillBatch \/ BackfillDone
  PROVE  CapInv'
<1>1. job.kind = "build" /\ job \in Job /\ mem \in Index /\ LibraryUnchanged
  BY DEF TypeInv, TypeOK, RecrawlFromTop, ReadPage, EndPage, EmbedBatch, EmbedFails,
     MaybePersist, EndCrawl, BackfillBatch, BackfillDone, Fetching
<1>2. mem'.rows = mem.rows /\ disk' \in {disk, mem, mem'}
  <2>1. CASE RecrawlFromTop \/ ReadPage \/ EndPage \/ BackfillDone
    BY <2>1 DEF RecrawlFromTop, ReadPage, EndPage, BackfillDone
  <2>2. CASE EmbedBatch \/ EmbedFails
    BY <1>1, <2>2 DEF EmbedBatch, EmbedFails, YieldWriteLock, Index
  <2>3. CASE MaybePersist \/ EndCrawl
    BY <1>1, <2>3 DEF MaybePersist, EndCrawl, Persist, Index
  <2>4. CASE BackfillBatch
    BY <1>1, <2>4 DEF BackfillBatch, YieldWriteLock, Persist, Index
  <2> QED BY <2>1, <2>2, <2>3, <2>4
<1>3. job'.kind = "build" /\ job'.known = job.known /\ job'.indexed = job.indexed
  <2>1. CASE RecrawlFromTop
    <3> DEFINE j == [job EXCEPT !.unverified = FALSE, !.start = 0, !.itemsAvailable = 0]
    <3>1. j \in Job /\ j.kind = "build" /\ j.known = job.known /\ j.indexed = job.indexed
      BY <1>1 DEF Job
    <3>2. job' = AtHead(j)
      BY <2>1 DEF RecrawlFromTop
    <3> HIDE DEF j
    <3> QED BY <3>1, <3>2 DEF AtHead, Job
  <2>2. CASE ReadPage
    <3> DEFINE v == CrawlVersion(job)
               n == Cardinality(live)
               batch == Page(live, job.start, PageSize)
               seen == [job EXCEPT !.unverified = FALSE, !.crawlVersion = v]
    <3>1. \/ job' = [seen EXCEPT !.pc = "drain"]
          \/ job' = [seen EXCEPT !.pc = "items", !.batch = batch, !.consumed = 0,
                                 !.total = n, !.itemsAvailable = IF @ = 0 THEN n ELSE @]
      BY <2>2 DEF ReadPage
    <3>2. /\ seen.kind = "build" /\ seen.known = job.known /\ seen.indexed = job.indexed
          /\ job'.kind = seen.kind /\ job'.known = seen.known /\ job'.indexed = seen.indexed
      <4> HIDE DEF v, n, batch
      <4> QED BY <1>1, <3>1 DEF Job
    <3> QED BY <3>2
  <2>3. CASE EndPage
    BY <1>1, <2>3 DEF EndPage, Job
  <2>4. CASE EmbedBatch \/ EmbedFails
    BY <1>1, <2>4 DEF EmbedBatch, EmbedFails, Job
  <2>5. CASE MaybePersist
    BY <1>1, <2>5 DEF MaybePersist, AtHead, Job
  <2>6. CASE EndCrawl \/ BackfillBatch \/ BackfillDone
    BY <1>1, <2>6 DEF EndCrawl, BackfillBatch, BackfillDone, Job
  <2> QED BY <2>1, <2>2, <2>3, <2>4, <2>5, <2>6
<1>4. Held(mem') = Held(mem) /\ Held(disk') \in {Held(disk), Held(mem), Held(mem')}
  BY <1>2, HeldSame
<1> QED BY <1>1, <1>3, <1>4, CapGoesOn

\* A crawl below the cap has room for one item more.
LEMMA IndexItemKeepsCap ==
  ASSUME TypeInv, CapInv, IndexItem
  PROVE  CapInv'
<1>1. /\ job.kind = "build" /\ job \in Job /\ mem \in Index
      /\ LibraryUnchanged /\ disk' = disk /\ ~CapReached(job)
  BY DEF TypeInv, TypeOK, IndexItem, PageOver
<1>2. Library(live, mver, clock)' /\ WithinCap(disk')
  BY <1>1 DEF CapInv, LibraryUnchanged, libraryVars
<1>3. PICK e \in job.batch :
        \/ /\ job' = [job EXCEPT !.consumed = @ + 1]
           /\ mem' = mem
        \/ /\ job' = [job EXCEPT !.consumed = @ + 1,
                                !.indexed = @ \cup {e.key},
                                !.pending = IF job.embedderError THEN @
                                            ELSE @ \cup {e.key}]
           /\ mem' = [mem EXCEPT !.rows[e.key] = e.ver]
  BY DEF IndexItem
<1>4. CASE mem' = mem /\ job' = [job EXCEPT !.consumed = @ + 1]
  <2>1. job'.kind = "build" /\ job'.known = job.known /\ job'.indexed = job.indexed
    BY <1>1, <1>4 DEF Job
  <2> QED BY <1>1, <1>4, <2>1, CapGoesOn
<1>5. CASE /\ job' = [job EXCEPT !.consumed = @ + 1, !.indexed = @ \cup {e.key},
                                !.pending = IF job.embedderError THEN @
                                            ELSE @ \cup {e.key}]
           /\ mem' = [mem EXCEPT !.rows[e.key] = e.ver]
  <2> DEFINE F == job.known \cup job.indexed
  <2>1. /\ job'.kind = "build" /\ job'.known = job.known
        /\ job'.indexed = job.indexed \cup {e.key}
    BY <1>1, <1>5 DEF Job
  <2>2. F \in SUBSET Items /\ e.key \in Items
    BY <1>1 DEF Job, Entry
  <2>3. Held(mem') \subseteq Held(mem) \cup {e.key}
    BY <1>1, <1>5 DEF Index, Held
  <2>4. Held(mem) \subseteq F /\ Cardinality(F) < MaxItems
    <3>1. Held(mem) \subseteq F /\ ~(Cardinality(F) >= MaxItems)
      BY <1>1 DEF CapInv, CapPart, CapReached, Fetched
    <3> QED BY <2>2, <3>1, FiniteCount, ConstantsAssumption
  <2>5. job'.known \cup job'.indexed = F \cup {e.key}
    BY <2>1
  <2> HIDE DEF F
  <2>6. Cardinality(F \cup {e.key}) <= MaxItems
    <3>1. IsFiniteSet(F) /\ Cardinality(F) \in Nat /\ MaxItems \in Nat
      BY <2>2, ConstantsAssumption, FS_Subset, FiniteCount
    <3>2. Cardinality(F \cup {e.key}) <= Cardinality(F) + 1
      BY <3>1, FS_AddElement
    <3>3. Cardinality(F \cup {e.key}) \in Nat
      BY <2>2, FiniteCount
    <3> QED BY <2>4, <3>1, <3>2, <3>3
  <2>7. Held(mem') \subseteq F \cup {e.key}
    BY <2>3, <2>4
  <2>8. WithinCap(mem')
    BY <2>2, <2>6, <2>7, SmallerFits DEF WithinCap
  <2> QED BY <1>2, <2>1, <2>5, <2>6, <2>7, <2>8 DEF CapInv, CapPart, Fetched
<1> QED BY <1>3, <1>4, <1>5

\* A build that ends, stamped, resumable or broken off.
LEMMA EndBuildKeepsCap ==
  ASSUME TypeInv, CapInv, FinishBuild \/ BuildFails
  PROVE  CapInv'
<1>1. mem \in Index /\ job' = NoJob /\ LibraryUnchanged /\ disk' \in {disk, mem'}
  BY DEF TypeInv, TypeOK, FinishBuild, BuildFails, Persist
<1>2. mem'.rows = mem.rows
  BY <1>1 DEF FinishBuild, BuildFails, Stamped, Index
<1>3. Held(mem') = Held(mem) /\ Held(disk') \in {Held(disk), Held(mem')}
  BY <1>1, <1>2, HeldSame
<1>4. job'.kind = "idle"
  BY <1>1 DEF NoJob
<1> QED BY <1>1, <1>3, <1>4, CapGoesOn

\* What a page of the delta adds: the items the cap admits are numbered below the room there is.
LEMMA AdmittedFits ==
  ASSUME NEW j, j.known \in SUBSET Items, Cardinality(j.known) <= MaxItems,
         NEW B \in SUBSET Entry, IsFiniteSet(B),
         \A e, f \in B : e.pos = f.pos => e = f
  PROVE  Cardinality(j.known \cup {e.key : e \in Admitted(j, B)}) <= MaxItems
<1> DEFINE fresh == {e \in B : e.key \notin j.known}
           F == {e \in fresh : e \in Admitted(j, B)}
           keys == {e.key : e \in Admitted(j, B)}
           K == {e.key : e \in F}
           room == MaxItems - Cardinality(j.known)
           T == 0 .. (0 + room - 1)
           g == [e \in F |-> Cardinality(FreshBelow(j, B, e))]
           h == [e \in F |-> e.key]
<1>1. \A e \in B : e.pos \in Nat /\ e.key \in Items
  BY DEF Entry
<1>2. IsFiniteSet(j.known) /\ Cardinality(j.known) \in Nat /\ room \in Nat
  BY ConstantsAssumption, FS_Subset, FiniteCount
<1>3. \A e \in B : /\ FreshBelow(j, B, e) \in SUBSET B
                   /\ IsFiniteSet(FreshBelow(j, B, e))
                   /\ Cardinality(FreshBelow(j, B, e)) \in Nat
  <2> TAKE e \in B
  <2>1. FreshBelow(j, B, e) \in SUBSET B
    BY DEF FreshBelow
  <2> QED BY <2>1, FS_Subset, FS_CardinalityType
<1>4. \A e \in F : Cardinality(FreshBelow(j, B, e)) \in T
  <2> TAKE e \in F
  <2>1. Cardinality(FreshBelow(j, B, e)) + Cardinality(j.known) < MaxItems
    BY AdmittedFacts
  <2> QED BY <1>2, <1>3, <2>1, ConstantsAssumption
<1>5. ASSUME NEW e \in F, NEW f \in F, e.pos < f.pos
      PROVE  Cardinality(FreshBelow(j, B, e)) # Cardinality(FreshBelow(j, B, f))
  <2>1. e \in FreshBelow(j, B, f) /\ e \notin FreshBelow(j, B, e)
    BY <1>1, <1>5 DEF FreshBelow
  <2>2. FreshBelow(j, B, e) \subseteq FreshBelow(j, B, f)
    BY <1>1, <1>5 DEF FreshBelow
  <2> QED BY <1>3, <2>1, <2>2, FS_Subset
<1>6. g \in Injection(F, T)
  <2>1. g \in [F -> T]
    BY <1>4
  <2>2. \A e, f \in F : g[e] = g[f] => e = f
    <3> SUFFICES ASSUME NEW e \in F, NEW f \in F, g[e] = g[f], e # f PROVE FALSE
      OBVIOUS
    <3>1. e.pos # f.pos
      OBVIOUS
    <3>2. e.pos < f.pos \/ f.pos < e.pos
      BY <1>1, <3>1
    <3> QED BY <1>5, <3>2
  <2> HIDE DEF F, T, g
  <2> QED BY <2>1, <2>2 DEF Injection, IsInjective
<1>7. IsFiniteSet(T) /\ Cardinality(T) = room
  BY <1>2, IntervalCount
<1>8. IsFiniteSet(F) /\ Cardinality(F) <= room
  <2> HIDE DEF F, T, g, room
  <2>1. IsFiniteSet(F) /\ Cardinality(F) <= Cardinality(T)
    BY <1>6, <1>7, FS_Injection
  <2> QED BY <1>7, <2>1
<1>9. h \in Surjection(F, K)
  <2>1. h \in [F -> K] /\ \A k \in K : \E e \in F : h[e] = k
    OBVIOUS
  <2> HIDE DEF F, K, h
  <2> QED BY <2>1 DEF Surjection
<1>10. IsFiniteSet(K) /\ Cardinality(K) <= Cardinality(F)
  <2> HIDE DEF F, K, h
  <2> QED BY <1>8, <1>9, FS_Surjection
<1>11. Admitted(j, B) \in SUBSET B
  BY DEF Admitted
<1>12. j.known \cup keys = j.known \cup K
  BY <1>11
<1>13. j.known \cap K = {}
  OBVIOUS
<1> HIDE DEF F, K, keys, fresh, T, g, h, room
<1>14. Cardinality(j.known \cup K) = Cardinality(j.known) + Cardinality(K)
  <2>1. Cardinality(j.known \cup K)
          = Cardinality(j.known) + Cardinality(K) - Cardinality(j.known \cap K)
    BY <1>2, <1>10, FS_Union
  <2>2. Cardinality(j.known \cap K) = 0
    BY <1>13, FS_EmptySet
  <2>3. Cardinality(K) \in Nat
    BY <1>10, FS_CardinalityType
  <2> QED BY <1>2, <2>1, <2>2, <2>3
<1>15. Cardinality(K) \in Nat /\ Cardinality(F) \in Nat /\ MaxItems \in Nat
  BY <1>8, <1>10, FS_CardinalityType, ConstantsAssumption
<1>16. Cardinality(j.known) + Cardinality(K) <= MaxItems
  BY <1>2, <1>8, <1>10, <1>15 DEF room
<1>17. Cardinality(j.known \cup keys) <= MaxItems
  BY <1>12, <1>14, <1>16
<1> QED BY <1>17 DEF keys

LEMMA UpdatePageKeepsCap ==
  ASSUME TypeInv, CapInv, UpdatePage
  PROVE  CapInv'
<1> DEFINE delta == ChangedSince(job.backend, mem.libraryVersion)
           P == Page(delta, job.start, PageSize)
           taken == Admitted(job, P)
           keys == {e.key : e \in taken}
           next == job.start + Cardinality(P)
           seen == [job EXCEPT !.crawlVersion = CrawlVersion(job)]
<1>1. /\ job.kind = "update" /\ job.pc = "fetch" /\ LibraryUnchanged /\ disk' = disk
      /\ mem' = [mem EXCEPT
                   !.rows = [i \in Items |-> IF i \in keys
                                             THEN (CHOOSE e \in taken : e.key = i).ver
                                             ELSE @[i]],
                   !.vectors = @ \ keys]
      /\ job' = IF P = {} \/ next >= Cardinality(delta)
                THEN [seen EXCEPT !.pc = "live", !.start = 0, !.known = @ \cup keys,
                                  !.pending = @ \cup keys]
                ELSE [seen EXCEPT !.start = next, !.known = @ \cup keys,
                                  !.pending = @ \cup keys]
  BY DEF UpdatePage, Fetching, TransactionStaysOpen
<1>2. job \in Job /\ mem \in Index /\ Library(live, mver, clock) /\ delta \in SUBSET live
  BY DEF TypeInv, TypeOK, CapInv, ChangedSince
<1>3. P \in SUBSET Entry /\ IsFiniteSet(P) /\ \A e, f \in P : e.pos = f.pos => e = f
  <2>1. /\ mver \in [Items -> Nat] /\ delta \in SUBSET Items /\ job.start \in Nat
        /\ PageSize \in Nat \ {0}
        /\ \A i, k \in delta : mver[i] = mver[k] => i = k
    BY <1>2, ConstantsAssumption DEF Library, Job
  <2> HIDE DEF delta
  <2> QED BY <2>1, PageFacts
<1>4. Held(mem) \subseteq job.known /\ Cardinality(job.known) <= MaxItems
  BY <1>1 DEF CapInv, CapPart
<1>5. Library(live, mver, clock)' /\ WithinCap(disk')
  BY <1>1 DEF CapInv, LibraryUnchanged, libraryVars
<1> HIDE DEF delta, P
<1>6. Cardinality(job.known \cup keys) <= MaxItems
  <2>1. job.known \in SUBSET Items
    BY <1>2 DEF Job
  <2> QED BY <1>3, <1>4, <2>1, AdmittedFits
<1>7. job.known \cup keys \in SUBSET Items
  <2>1. taken \in SUBSET P
    BY DEF Admitted
  <2>2. \A e \in taken : e.key \in Items
    BY <1>3, <2>1 DEF Entry
  <2> QED BY <1>2, <2>2 DEF Job
<1>8. job'.known = job.known \cup keys /\ job'.kind = "update"
  <2>1. seen \in [DOMAIN job -> {seen[x] : x \in DOMAIN job}]
        /\ seen.known = job.known /\ seen.kind = "update"
    BY <1>1, <1>2 DEF Job
  <2> QED BY <1>1, <1>2 DEF Job
<1>9. Held(mem') \subseteq job.known \cup keys
  <2> HIDE DEF keys, taken
  <2>1. \A i \in Items \ keys : mem'.rows[i] = mem.rows[i]
    BY <1>1, <1>2 DEF Index
  <2> QED BY <1>4, <2>1 DEF Held
<1> HIDE DEF keys, taken, seen, next
<1>10. WithinCap(mem')
  BY <1>6, <1>7, <1>9, SmallerFits DEF WithinCap
<1> QED BY <1>5, <1>6, <1>8, <1>9, <1>10 DEF CapInv, CapPart

\* The rest of an update removes, commits and embeds; nothing is added.
LEMMA UpdateGoesOnKeepsCap ==
  ASSUME TypeInv, CapInv,
         CensusPage \/ FinishUpdate \/ EmbedDeferred \/ DeferredFails
  PROVE  CapInv'
<1>1. job \in Job /\ mem \in Index /\ LibraryUnchanged /\ job.kind = "update"
  BY DEF TypeInv, TypeOK, CensusPage, FinishUpdate, EmbedDeferred, DeferredFails
<1>2. Held(mem') \subseteq Held(mem) /\ disk' \in {disk, mem, mem'}
  <2>1. CASE CensusPage
    BY <2>1 DEF CensusPage, TransactionStaysOpen
  <2>2. CASE FinishUpdate
    <3>1. PICK gone : mem' \in {Without(mem, gone), Stamped(Without(mem, gone), job)}
      BY <2>2 DEF FinishUpdate
    <3>2. mem'.rows = [i \in Items |-> IF i \in gone THEN 0 ELSE mem.rows[i]]
      BY <1>1, <3>1 DEF Without, Stamped, Index
    <3>3. Held(mem') \subseteq Held(mem)
      BY <3>2 DEF Held
    <3> QED BY <2>2, <3>3 DEF FinishUpdate, AfterPersist
  <2>3. CASE EmbedDeferred \/ DeferredFails
    <3>1. mem'.rows = mem.rows
      BY <1>1, <2>3 DEF EmbedDeferred, DeferredFails, Index
    <3> QED BY <2>3, <3>1, HeldSame DEF EmbedDeferred, DeferredFails, YieldWriteLock
  <2> QED BY <2>1, <2>2, <2>3
<1>3. job'.kind # "build" /\ ~(job'.kind = "update" /\ job'.pc = "fetch")
  <2>1. CASE CensusPage
    BY <1>1, <2>1 DEF CensusPage, Job
  <2>2. CASE FinishUpdate
    <3>1. PICK p : job' \in {[job EXCEPT !.pc = "deferred", !.pending = p], NoJob}
      BY <2>2 DEF FinishUpdate, AfterPersist
    <3>2. CASE job' = [job EXCEPT !.pc = "deferred", !.pending = p]
      <4>1. job'.kind = "update" /\ job'.pc = "deferred"
        BY <1>1, <3>2 DEF Job
      <4> QED BY <4>1
    <3>3. CASE job' = NoJob
      <4>1. job'.kind = "idle"
        BY <3>3 DEF NoJob
      <4> QED BY <4>1
    <3> QED BY <3>1, <3>2, <3>3
  <2>3. CASE EmbedDeferred \/ DeferredFails
    BY <1>1, <2>3 DEF EmbedDeferred, DeferredFails, Job
  <2> QED BY <2>1, <2>2, <2>3
<1> QED BY <1>1, <1>2, <1>3, CapGoesOn

\* What is asked of a job from outside.
LEMMA OutsideKeepsCap ==
  ASSUME TypeInv, CapInv, RequestStop \/ Pause \/ Resume
  PROVE  CapInv'
<1>1. job \in Job /\ mem \in Index /\ disk \in Index /\ LibraryUnchanged
  BY DEF TypeInv, TypeOK, RequestStop, Pause, Resume
<1>2. /\ job'.kind = job.kind /\ job'.pc = job.pc
      /\ job'.known = job.known /\ job'.indexed = job.indexed
  BY <1>1 DEF RequestStop, Pause, Resume, Job
<1>3. mem'.rows = mem.rows /\ disk'.rows \in {disk.rows, mem.rows}
  <2>1. CASE RequestStop
    BY <2>1 DEF RequestStop
  <2>2. CASE Pause \/ Resume
    <3>1. PICK f \in BOOLEAN : PersistPaused(f)
      BY <2>2 DEF Pause, Resume
    <3> QED BY <1>1, <3>1 DEF PersistPaused, Index
  <2> QED BY <2>1, <2>2
<1>4. Held(mem') = Held(mem) /\ Held(disk') \in {Held(disk), Held(mem)}
  BY <1>3 DEF Held
<1> QED BY <1>1, <1>2, <1>4, CapGoesOn

LEMMA CapInvKept == TypeInv /\ CapInv /\ [Next]_vars => CapInv'
<1> SUFFICES ASSUME TypeInv, CapInv, [Next]_vars PROVE CapInv'
  OBVIOUS
<1>1. CASE LibraryStep
  BY <1>1, LibraryKeepsCap DEF LibraryStep
<1>2. CASE StartJob \/ Refresh
  BY <1>2, StartBuildKeepsCap, StartUpdateKeepsCap DEF StartJob, Refresh
<1>3. CASE BuildStep
  BY <1>3, CrawlKeepsCap, IndexItemKeepsCap, EndBuildKeepsCap DEF BuildStep
<1>4. CASE EndStoppedUpdate \/ EndUpdate \/ UpdateFails \/ Crash \/ Shutdown
  <2>1. /\ LibraryUnchanged /\ job' = NoJob
        /\ mem' \in {mem, disk} /\ disk' \in {mem, disk}
    BY <1>4 DEF EndStoppedUpdate, EndUpdate, UpdateFails, Crash, Shutdown, AfterPersist
  <2> QED BY <2>1, CapReloads
<1>5. CASE UpdatePage \/ CensusPage \/ FinishUpdate \/ EmbedDeferred
  BY <1>5, UpdatePageKeepsCap, UpdateGoesOnKeepsCap
<1>6. CASE EmbedFails \/ BuildFails \/ DeferredFails
  BY <1>6, CrawlKeepsCap, EndBuildKeepsCap, UpdateGoesOnKeepsCap
<1>7. CASE RequestStop \/ Pause \/ Resume
  BY <1>7, OutsideKeepsCap
<1>8. CASE UNCHANGED vars
  BY <1>8 DEF vars, CapInv, CapPart, WithinCap, Held, Fetched
<1> QED BY <1>1, <1>2, <1>3, <1>4, <1>5, <1>6, <1>7, <1>8
        DEF Next, UpdateStep, Disturbance

\* The index never outgrows the item cap, in memory or on disk, whichever jobs wrote it:
\* builds, builds resumed over a listing that moved, updates that add and remove, through
\* stops, pauses, failures, crashes and reloads, and whatever is removed meanwhile
\* (index-manager.ts:1532, :1570, :2086).
THEOREM CapRespectedHolds == Spec => []CapRespected
<1>1. Init => CapInv
  <2> SUFFICES ASSUME Init PROVE CapInv
    OBVIOUS
  <2>1. Library(live, mver, clock)
    BY InitStampInv DEF StampInv
  <2>2. Held(EmptyIndex) = {}
    BY DEF Held, EmptyIndex
  <2> QED BY <2>1, <2>2, EmptyFits DEF Init, CapInv, CapPart, NoJob
<1>2. CapInv => CapRespected
  BY DEF CapInv, CapPart, WithinCap, CapRespected
<1> QED BY InitTypes, TypesKept, CapInvKept, <1>1, <1>2, PTL DEF Spec
=============================================================================
