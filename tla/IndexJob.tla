------------------------------ MODULE IndexJob ------------------------------
(***************************************************************************)
(* The search index's background jobs: SearchIndexBase.buildIncremental    *)
(* and updateIncremental (features/search/index-manager.ts) over the       *)
(* SQLite store (features/search/sqlite-index.ts), started by              *)
(* startIndexBuild / startIndexUpdate (features/search/build.ts).          *)
(*                                                                         *)
(* A job crawls a library that other clients keep changing, one page at a  *)
(* time and newest-modified first, writes one row per item, embeds the     *)
(* rows, and commits now and then together with a checkpoint (where to     *)
(* resume) or a stamp (the library version the rows are complete up to).   *)
(* The process can be stopped, paused, shut down or killed at any await.   *)
(*                                                                         *)
(* This module is the job asked for metadata and vectors                   *)
(* (ZOTEUS_INDEX_FULLTEXT=false): the attachment full-text pass and its    *)
(* own cursor are not here.  One process owns the store.                   *)
(***************************************************************************)
EXTENDS Integers, FiniteSets

CONSTANTS
  Items,             \* keys of the items the library may hold
  Backends,          \* the Zotero APIs that may serve a job: desktop, cloud
  Versioned,         \* the backends that answer with a Last-Modified-Version
  Offset,            \* each backend numbers its versions from its own origin
  PageSize,          \* items per page of the crawl
  VersionsPageSize,  \* keys per page of the ?format=versions census
  MaxItems,          \* ZOTEUS_INDEX_MAX_ITEMS, the item cap
  RemovesDuringJobs, \* may an item leave the library while a job runs?
  PausesDuringJobs,  \* may zotero_index action:"pause" arrive while a job runs?
  ResumesElsewhere,  \* may an interrupted build be resumed over another API?
  MaxClock,          \* bound: how many changes the library sees
  MaxFaults,         \* bound: stops, pauses, crashes and failed calls
  None               \* "no such value"

ASSUME ConstantsAssumption ==
  /\ IsFiniteSet(Items)
  /\ Versioned \subseteq Backends
  /\ Offset \in [Backends -> Nat]
  /\ PageSize \in Nat \ {0}
  /\ VersionsPageSize \in Nat \ {0}
  /\ MaxItems \in Nat \ {0}
  /\ RemovesDuringJobs \in BOOLEAN
  /\ PausesDuringJobs \in BOOLEAN
  /\ ResumesElsewhere \in BOOLEAN
  /\ MaxClock \in Nat
  /\ MaxFaults \in Nat
  /\ None \notin Backends

VARIABLES
  live,    \* the items the library holds
  mver,    \* when each was last changed, on one clock common to the backends
  clock,   \* the time of the library's last change
  mem,     \* the index as the running process sees it
  disk,    \* the index as the last commit left it
  job,     \* the running job, or NoJob
  faults   \* how many of the MaxFaults have been used

libraryVars == <<live, mver, clock>>
vars == <<live, mver, clock, mem, disk, job, faults>>

-----------------------------------------------------------------------------
(* Shapes.                                                                 *)

\* What a stopped, failed or half-embedded build leaves to continue from.
Checkpoint ==
  [crawlOffset : Nat, itemsAvailable : Nat, crawlVersion : Nat,
   backend : Backends, pending : SUBSET Items]

\* rows[i] is the change of item i the index holds, 0 when it holds none.
Index ==
  [rows : [Items -> Nat], vectors : SUBSET Items,
   libraryVersion : Nat, libraryBackend : Backends \cup {None},
   checkpoint : Checkpoint \cup {None}, paused : BOOLEAN]

Entry == [pos : Nat, key : Items, ver : Nat]

Phase == {"idle", "fetch", "items", "embed", "drain", "backfill", "finish",
          "live", "reconcile", "deferred"}

Job ==
  [kind : {"idle", "build", "update"}, pc : Phase,
   backend : Backends \cup {None},
   start : Nat, consumed : Nat, batch : SUBSET Entry, total : Nat,
   crawlVersion : Nat, itemsAvailable : Nat,
   known : SUBSET Items, indexed : SUBSET Items, census : SUBSET Items,
   unverified : BOOLEAN, resumed : BOOLEAN, pending : SUBSET Items,
   cancelled : BOOLEAN, embedderError : BOOLEAN, startedAt : Nat]

NoJob ==
  [kind |-> "idle", pc |-> "idle", backend |-> None,
   start |-> 0, consumed |-> 0, batch |-> {}, total |-> 0,
   crawlVersion |-> 0, itemsAvailable |-> 0,
   known |-> {}, indexed |-> {}, census |-> {},
   unverified |-> FALSE, resumed |-> FALSE, pending |-> {},
   cancelled |-> FALSE, embedderError |-> FALSE, startedAt |-> 0]

EmptyIndex ==
  [rows |-> [i \in Items |-> 0], vectors |-> {},
   libraryVersion |-> 0, libraryBackend |-> None,
   checkpoint |-> None, paused |-> FALSE]

TypeOK ==
  /\ live \in SUBSET Items
  /\ mver \in [Items -> Nat]
  /\ clock \in Nat
  /\ mem \in Index
  /\ disk \in Index
  /\ job \in Job
  /\ faults \in Nat

Held(idx) == {i \in Items : idx.rows[i] # 0}
Missing(idx) == Held(idx) \ idx.vectors

-----------------------------------------------------------------------------
(* The library, as the two Zotero APIs serve it.                           *)

\* A backend that serves no Last-Modified-Version answers 0.
VersionOf(b, t) == IF b \in Versioned THEN Offset[b] + t ELSE 0

\* Pages list the newest change first, so an item's position is the number
\* of items in the listing that changed after it.
Rank(S, i) == Cardinality({k \in S : mver[k] > mver[i]})

Page(S, from, size) ==
  {[pos |-> Rank(S, i), key |-> i, ver |-> mver[i]] :
     i \in {k \in S : from <= Rank(S, k) /\ Rank(S, k) < from + size}}

\* What ?since=v names: the items the backend numbers after v.
ChangedSince(b, v) == {i \in live : VersionOf(b, mver[i]) > v}

LibraryUnchanged == UNCHANGED libraryVars

\* An item created, restored or edited by any client.
Modify(i) ==
  /\ clock < MaxClock
  /\ clock' = clock + 1
  /\ live' = live \cup {i}
  /\ mver' = [mver EXCEPT ![i] = clock + 1]
  /\ UNCHANGED <<mem, disk, job, faults>>

\* An item trashed or deleted by any client.
Remove(i) ==
  /\ RemovesDuringJobs \/ job.kind = "idle"
  /\ i \in live
  /\ clock < MaxClock
  /\ clock' = clock + 1
  /\ live' = live \ {i}
  /\ mver' = [mver EXCEPT ![i] = 0]
  /\ UNCHANGED <<mem, disk, job, faults>>

-----------------------------------------------------------------------------
(* The store.                                                              *)

Fault == faults < MaxFaults /\ faults' = faults + 1

\* save(): one commit of the rows and the whole meta row; a failed one is
\* recorded as persistError and the transaction stays open.
Persist(idx) ==
  \/ disk' = idx /\ UNCHANGED faults
  \/ UNCHANGED disk /\ Fault

\* The commit embedPending makes before each request to the embedder: what
\* cannot be committed then is committed later.
YieldWriteLock == disk' \in {disk, mem}

\* Taking the job lease commits whatever a failed save left open.
OpenTransactionCommitted == disk' = mem

Reset(idx) == [EmptyIndex EXCEPT !.paused = idx.paused]

-----------------------------------------------------------------------------
(* A build.                                                                *)

CanResume(fresh) ==
  ~fresh /\ mem.checkpoint # None /\ Held(mem) # {}

Fetched(j) == Cardinality(j.known \cup j.indexed)

CapReached(j) == Fetched(j) >= MaxItems

\* The head of the crawl loop.
AtHead(j) ==
  [j EXCEPT !.pc = IF j.cancelled \/ CapReached(j) THEN "drain" ELSE "fetch"]

StartBuild(b, fresh) ==
  LET cp     == mem.checkpoint
      resume == CanResume(fresh)
      new    == [NoJob EXCEPT !.kind = "build", !.backend = b, !.startedAt = clock]
  IN /\ job.kind = "idle"
     /\ ~mem.paused
     /\ \/ /\ resume
           /\ ResumesElsewhere \/ b = cp.backend
           /\ job' = AtHead([new EXCEPT !.resumed = TRUE, !.unverified = TRUE,
                                        !.start = cp.crawlOffset,
                                        !.itemsAvailable = cp.itemsAvailable,
                                        !.crawlVersion = cp.crawlVersion,
                                        !.known = Held(mem),
                                        !.pending = cp.pending \cap Held(mem)])
           /\ UNCHANGED mem
        \/ /\ ~resume
           /\ job' = AtHead(new)
           /\ mem' = Reset(mem)
     /\ OpenTransactionCommitted
     /\ LibraryUnchanged
     /\ UNCHANGED faults

\* Seeded fault: judged from the totals alone.
OffsetStillHolds_TotalsOnly(cp, j, total, version) ==
  /\ cp.backend = j.backend
  /\ cp.itemsAvailable # 0 /\ total # 0 => cp.itemsAvailable = total

\* Is the stored offset still a position in this listing?  Judged from the
\* totals and versions of the first page a resumed crawl reads, 0 meaning
\* "not served".
OffsetStillHolds(cp, j, total, version) ==
  /\ cp.backend = j.backend
  /\ cp.itemsAvailable # 0 /\ total # 0 => cp.itemsAvailable = total
  /\ cp.crawlVersion # 0 /\ version # 0 => cp.crawlVersion = version

Fetching(kind) == job.kind = kind /\ job.pc = "fetch"

TrustsOffset ==
  job.unverified =>
    OffsetStillHolds(mem.checkpoint, job, Cardinality(live),
                     VersionOf(job.backend, clock))

\* The offset went stale: walk from the top, stepping over what is held.
RecrawlFromTop ==
  /\ Fetching("build")
  /\ ~TrustsOffset
  /\ job' = AtHead([job EXCEPT !.unverified = FALSE, !.start = 0,
                               !.itemsAvailable = 0])
  /\ LibraryUnchanged
  /\ UNCHANGED <<mem, disk, faults>>

\* Seeded fault: recorded anew from every page.
CrawlVersion_LastPage(j) == VersionOf(j.backend, clock)

\* Recorded once, from the crawl's first page.
CrawlVersion(j) ==
  IF j.crawlVersion = 0 THEN VersionOf(j.backend, clock) ELSE j.crawlVersion

ReadPage ==
  LET batch == Page(live, job.start, PageSize)
      seen  == [job EXCEPT !.unverified = FALSE, !.crawlVersion = CrawlVersion(job)]
  IN /\ Fetching("build")
     /\ TrustsOffset
     /\ job' = IF batch = {}
               THEN [seen EXCEPT !.pc = "drain"]
               ELSE [seen EXCEPT !.pc = "items", !.batch = batch, !.consumed = 0,
                                 !.total = Cardinality(live),
                                 !.itemsAvailable =
                                    IF @ = 0 THEN Cardinality(live) ELSE @]
     /\ LibraryUnchanged
     /\ UNCHANGED <<mem, disk, faults>>

\* The loop over the page ends on a stop, at the cap or at its last item.
PageOver(j) ==
  j.cancelled \/ CapReached(j) \/ j.consumed = Cardinality(j.batch)

\* One item of the page: stepped over when the resumed run holds it already
\* or this crawl has met it, written and queued for embedding otherwise.
IndexItem ==
  /\ job.kind = "build" /\ job.pc = "items"
  /\ ~PageOver(job)
  /\ \E e \in job.batch :
       /\ e.pos = job.start + job.consumed
       /\ \/ /\ e.key \in job.known \cup job.indexed
             /\ job' = [job EXCEPT !.consumed = @ + 1]
             /\ UNCHANGED mem
          \/ /\ e.key \notin job.known \cup job.indexed
             /\ job' = [job EXCEPT !.consumed = @ + 1,
                                   !.indexed = @ \cup {e.key},
                                   !.pending = IF job.embedderError THEN @
                                               ELSE @ \cup {e.key}]
             /\ mem' = [mem EXCEPT !.rows[e.key] = e.ver]
  /\ LibraryUnchanged
  /\ UNCHANGED <<disk, faults>>

\* Seeded fault: advance by the page's length even where a stop cut it short.
Advance_PageLength(j) == j.start + Cardinality(j.batch)

\* The crawl advances by what it got through, not by the page's length.
Advance(j) == j.start + j.consumed

EndPage ==
  /\ job.kind = "build" /\ job.pc = "items"
  /\ PageOver(job)
  /\ job' = [job EXCEPT !.start = Advance(job), !.pc = "embed",
                        !.batch = {}, !.consumed = 0]
  /\ LibraryUnchanged
  /\ UNCHANGED <<mem, disk, faults>>

\* Some of the queue goes to the embedder.
EmbedBatch ==
  /\ job.kind = "build" /\ job.pc \in {"embed", "drain"}
  /\ ~job.cancelled
  /\ \E b \in SUBSET job.pending \ {{}} :
       /\ mem' = [mem EXCEPT !.vectors = @ \cup b]
       /\ job' = [job EXCEPT !.pending = @ \ b]
  /\ YieldWriteLock
  /\ LibraryUnchanged
  /\ UNCHANGED faults

\* The embedder gives up: keyword-only from here, and the queue is dropped.
EmbedFails ==
  /\ job.kind = "build" /\ job.pc \in {"embed", "drain", "backfill"}
  /\ ~job.cancelled /\ ~job.embedderError
  /\ job.pending # {} \/ (job.pc = "backfill" /\ Missing(mem) # {})
  /\ Fault
  /\ job' = [job EXCEPT !.embedderError = TRUE, !.pending = {}]
  /\ YieldWriteLock
  /\ LibraryUnchanged
  /\ UNCHANGED mem

\* Seeded fault: resume one item early.
NoteCheckpoint_OneEarly(j) ==
  [crawlOffset |-> j.start - 1, itemsAvailable |-> j.itemsAvailable,
   crawlVersion |-> j.crawlVersion, backend |-> j.backend,
   pending |-> j.pending]

NoteCheckpoint(j) ==
  [crawlOffset |-> j.start, itemsAvailable |-> j.itemsAvailable,
   crawlVersion |-> j.crawlVersion, backend |-> j.backend,
   pending |-> j.pending]

\* maybePersist, then back to the loop's head or out of the crawl.
MaybePersist ==
  /\ job.kind = "build" /\ job.pc = "embed"
  /\ job' = IF job.start >= job.total THEN [job EXCEPT !.pc = "drain"] ELSE AtHead(job)
  /\ \/ UNCHANGED <<mem, disk, faults>>
     \/ /\ mem' = [mem EXCEPT !.checkpoint = NoteCheckpoint(job)]
        /\ Persist(mem')
  /\ LibraryUnchanged

\* The end of the metadata pass: the queue is drained, the rows are saved.
EndCrawl ==
  /\ job.kind = "build" /\ job.pc = "drain"
  /\ job.cancelled \/ job.pending = {}
  /\ mem' = [mem EXCEPT !.checkpoint = NoteCheckpoint(job)]
  /\ Persist(mem')
  /\ job' = [job EXCEPT !.pc = IF job.resumed THEN "backfill" ELSE "finish"]
  /\ LibraryUnchanged

\* A resumed build embeds what the interrupted one committed without vectors.
BackfillBatch ==
  /\ job.kind = "build" /\ job.pc = "backfill"
  /\ ~job.cancelled /\ ~job.embedderError
  /\ \E b \in SUBSET Missing(mem) \ {{}} :
       LET filled == [mem EXCEPT !.vectors = @ \cup b] IN
       \/ mem' = filled /\ YieldWriteLock /\ UNCHANGED faults
       \/ /\ mem' = [filled EXCEPT !.checkpoint = NoteCheckpoint(job)]
          /\ Persist(mem')
  /\ LibraryUnchanged
  /\ UNCHANGED job

BackfillDone ==
  /\ job.kind = "build" /\ job.pc = "backfill"
  /\ job.cancelled \/ job.embedderError \/ Missing(mem) = {}
  /\ job' = [job EXCEPT !.pc = "finish"]
  /\ LibraryUnchanged
  /\ UNCHANGED <<mem, disk, faults>>

\* Seeded faults: stamp a stopped crawl; stamp one whose embedder failed.
EarnsStamp_Stopped(j) == j.crawlVersion # 0 /\ ~j.embedderError
EarnsStamp_Unembedded(j) == ~j.cancelled /\ j.crawlVersion # 0

\* A stopped crawl or one whose embedder failed leaves a checkpoint and no
\* stamp; a finished one is stamped with the version its crawl began at.
EarnsStamp(j) == ~j.cancelled /\ j.crawlVersion # 0 /\ ~j.embedderError
StaysResumable(j) == j.cancelled \/ j.embedderError

Stamped(idx, j) ==
  [idx EXCEPT !.libraryVersion = j.crawlVersion, !.libraryBackend = j.backend]

FinishBuild ==
  LET stamped == IF EarnsStamp(job) THEN Stamped(mem, job) ELSE mem
  IN /\ job.kind = "build" /\ job.pc = "finish"
     /\ mem' = [stamped EXCEPT !.checkpoint =
                  IF StaysResumable(job) THEN NoteCheckpoint(job) ELSE None]
     /\ Persist(mem')
     /\ job' = NoJob
     /\ LibraryUnchanged

\* A page or an item's own words could not be read.
BuildFails ==
  /\ job.kind = "build" /\ job.pc \in {"fetch", "items"}
  /\ Fault
  /\ mem' = [mem EXCEPT !.checkpoint = NoteCheckpoint(job)]
  /\ disk' \in {disk, mem'}
  /\ job' = NoJob
  /\ LibraryUnchanged

-----------------------------------------------------------------------------
(* An update.                                                              *)

\* Seeded fault: a stamp of either API will do.
UpdateBlocked_AnyBackend(b) == Held(mem) = {} \/ mem.libraryVersion = 0

\* Where a delta would be wrong rather than merely stale, action:"update"
\* runs StartBuild(b, FALSE) instead.
UpdateBlocked(b) ==
  Held(mem) = {} \/ mem.libraryVersion = 0 \/ mem.libraryBackend # b

StartUpdate(b) ==
  /\ job.kind = "idle"
  /\ ~mem.paused
  /\ ~UpdateBlocked(b)
  /\ job' = [NoJob EXCEPT !.kind = "update", !.pc = "fetch", !.backend = b,
                          !.known = Held(mem), !.startedAt = clock]
  /\ OpenTransactionCommitted
  /\ LibraryUnchanged
  /\ UNCHANGED <<mem, faults>>

\* The page's items the cap lets in: any already held, and new ones, in page
\* order, while there is room.
Admitted(j, batch) ==
  LET fresh == {e \in batch : e.key \notin j.known}
  IN {e \in batch :
        e \in fresh =>
          Cardinality({f \in fresh : f.pos < e.pos}) + Cardinality(j.known) < MaxItems}

\* Seeded fault: each page commits as it is applied.
TransactionStaysOpen_CommitsPages == disk' = mem'

\* An update's writes share one transaction until it ends.
TransactionStaysOpen == UNCHANGED disk

\* One page of the delta, re-indexed wholesale.  Embedding waits for the
\* commit (deferEmbedding).
UpdatePage ==
  LET delta == ChangedSince(job.backend, mem.libraryVersion)
      batch == Page(delta, job.start, PageSize)
      taken == Admitted(job, batch)
      keys  == {e.key : e \in taken}
      next  == job.start + Cardinality(batch)
      seen  == [job EXCEPT !.crawlVersion = CrawlVersion(job)]
  IN /\ Fetching("update")
     /\ ~job.cancelled
     /\ mem' = [mem EXCEPT
                  !.rows = [i \in Items |-> IF i \in keys
                                            THEN (CHOOSE e \in taken : e.key = i).ver
                                            ELSE @[i]],
                  !.vectors = @ \ keys]
     /\ job' = IF batch = {} \/ next >= Cardinality(delta)
               THEN [seen EXCEPT !.pc = "live", !.start = 0, !.known = @ \cup keys,
                                 !.pending = @ \cup keys]
               ELSE [seen EXCEPT !.start = next, !.known = @ \cup keys,
                                 !.pending = @ \cup keys]
     /\ TransactionStaysOpen
     /\ LibraryUnchanged
     /\ UNCHANGED faults

\* One page of the keys-only census that finds deletions.
CensusPage ==
  LET batch == Page(live, job.start, VersionsPageSize)
      next  == job.start + Cardinality(batch)
      keys  == {e.key : e \in batch}
  IN /\ job.kind = "update" /\ job.pc = "live"
     /\ job' = [job EXCEPT !.census = @ \cup keys, !.start = next,
                           !.pc = IF batch = {} \/ next >= Cardinality(live)
                                  THEN "reconcile" ELSE "live"]
     /\ UNCHANGED mem
     /\ TransactionStaysOpen
     /\ LibraryUnchanged
     /\ UNCHANGED faults

\* A census of nothing against an index of something is a failed read.
CensusBelieved(j) == ~(j.census = {} /\ j.known # {})

Without(idx, gone) ==
  [idx EXCEPT !.rows = [i \in Items |-> IF i \in gone THEN 0 ELSE @[i]],
              !.vectors = @ \ gone]

MovesStamp(j) == ~j.cancelled /\ CensusBelieved(j) /\ j.crawlVersion # 0

AfterPersist(j) ==
  \/ disk' = mem' /\ UNCHANGED faults /\ job' = j
  \/ UNCHANGED disk /\ Fault /\ job' = NoJob

\* Drop what the library no longer holds, move the stamp, commit once.
FinishUpdate ==
  LET gone == IF CensusBelieved(job) THEN job.known \ job.census ELSE {}
      kept == Without(mem, gone)
  IN /\ job.kind = "update" /\ job.pc = "reconcile"
     /\ mem' = IF MovesStamp(job) THEN Stamped(kept, job) ELSE kept
     /\ AfterPersist([job EXCEPT !.pc = "deferred", !.pending = @ \ gone])
     /\ LibraryUnchanged

\* A stopped update commits the pages it applied and leaves the stamp alone.
EndStoppedUpdate ==
  /\ Fetching("update")
  /\ job.cancelled
  /\ UNCHANGED mem
  /\ AfterPersist(NoJob)
  /\ LibraryUnchanged

\* The delta is durable; its passages are embedded a batch at a time.
EmbedDeferred ==
  /\ job.kind = "update" /\ job.pc = "deferred"
  /\ ~job.cancelled
  /\ \E b \in SUBSET job.pending \ {{}} :
       /\ mem' = [mem EXCEPT !.vectors = @ \cup b]
       /\ job' = [job EXCEPT !.pending = @ \ b]
  /\ YieldWriteLock
  /\ LibraryUnchanged
  /\ UNCHANGED faults

DeferredFails ==
  /\ job.kind = "update" /\ job.pc = "deferred"
  /\ ~job.cancelled /\ job.pending # {}
  /\ Fault
  /\ job' = [job EXCEPT !.embedderError = TRUE, !.pending = {}]
  /\ YieldWriteLock
  /\ LibraryUnchanged
  /\ UNCHANGED mem

EndUpdate ==
  /\ job.kind = "update" /\ job.pc = "deferred"
  /\ job.cancelled \/ job.pending = {}
  /\ \/ disk' = mem /\ UNCHANGED <<mem, faults>>
     \/ mem' = disk /\ UNCHANGED disk /\ Fault
  /\ job' = NoJob
  /\ LibraryUnchanged

\* A failed read rolls the transaction back and reloads what is on disk.
UpdateFails ==
  /\ job.kind = "update" /\ job.pc \in {"fetch", "live"}
  /\ Fault
  /\ mem' = disk
  /\ job' = NoJob
  /\ LibraryUnchanged
  /\ UNCHANGED disk

-----------------------------------------------------------------------------
(* What happens to a job from outside it.                                  *)

RequestStop ==
  /\ job.kind # "idle"
  /\ ~job.cancelled
  /\ Fault
  /\ job' = [job EXCEPT !.cancelled = TRUE]
  /\ LibraryUnchanged
  /\ UNCHANGED <<mem, disk>>

\* persistPaused commits the open transaction with one meta key, the flag.
\* Between jobs that is a whole save that failed, if anything; during a job
\* the rows written so far reach the disk and the rest of the meta row does
\* not.
PersistPaused(flag) ==
  /\ mem' = [mem EXCEPT !.paused = flag]
  /\ disk' = IF job.kind = "idle"
             THEN mem'
             ELSE [disk EXCEPT !.rows = mem.rows, !.vectors = mem.vectors,
                               !.paused = flag]

Pause ==
  /\ PausesDuringJobs \/ job.kind = "idle"
  /\ ~mem.paused
  /\ Fault
  /\ PersistPaused(TRUE)
  /\ job' = IF job.kind = "idle" THEN job ELSE [job EXCEPT !.cancelled = TRUE]
  /\ LibraryUnchanged

Resume ==
  /\ mem.paused
  /\ PersistPaused(FALSE)
  /\ LibraryUnchanged
  /\ UNCHANGED <<job, faults>>

\* The process dies; the next one opens what the last commit left.
Crash ==
  /\ Fault
  /\ mem' = disk
  /\ job' = NoJob
  /\ LibraryUnchanged
  /\ UNCHANGED disk

\* A graceful shutdown closes the store, which commits what is open.
Shutdown ==
  /\ job.kind # "idle"
  /\ Fault
  /\ disk' = mem
  /\ job' = NoJob
  /\ LibraryUnchanged
  /\ UNCHANGED mem

-----------------------------------------------------------------------------

Init ==
  /\ live \in SUBSET Items
  /\ clock = Cardinality(live)
  /\ mver \in [Items -> 0..clock]
  /\ \A i \in Items : mver[i] = 0 <=> i \notin live
  /\ \A i, k \in live : mver[i] = mver[k] => i = k
  /\ mem = EmptyIndex
  /\ disk = EmptyIndex
  /\ job = NoJob
  /\ faults = 0

LibraryStep == \E i \in Items : Modify(i) \/ Remove(i)

StartJob == \E b \in Backends : StartBuild(b, FALSE) \/ StartUpdate(b)

Refresh == \E b \in Backends : StartBuild(b, TRUE)

BuildStep ==
  \/ RecrawlFromTop \/ ReadPage \/ IndexItem \/ EndPage
  \/ EmbedBatch \/ MaybePersist \/ EndCrawl
  \/ BackfillBatch \/ BackfillDone \/ FinishBuild

UpdateStep ==
  \/ UpdatePage \/ CensusPage \/ FinishUpdate \/ EndStoppedUpdate
  \/ EmbedDeferred \/ EndUpdate

Disturbance ==
  \/ EmbedFails \/ BuildFails \/ DeferredFails \/ UpdateFails
  \/ RequestStop \/ Pause \/ Crash \/ Shutdown

Next ==
  \/ LibraryStep \/ StartJob \/ Refresh \/ BuildStep \/ UpdateStep
  \/ Disturbance \/ Resume

Spec == Init /\ [][Next]_vars

-----------------------------------------------------------------------------
(* Properties.                                                             *)

\* With no more items than the cap, the index owes every item of the library.
Uncapped == Cardinality(Items) <= MaxItems

Stamp(idx) == idx.libraryVersion # 0

Lags(idx, i) == VersionOf(idx.libraryBackend, mver[i]) > idx.libraryVersion

HonestStamp(idx) ==
  Stamp(idx) =>
    \A i \in live :
      \/ idx.rows[i] = mver[i]
      \/ Lags(idx, i)
      \/ ~Uncapped /\ idx.rows[i] = 0

\* A stamped index never hides a gap: an item of the library whose current
\* state it does not hold is one that ?since=<stamp> will name, so the next
\* update fetches it (at the cap: an item it holds is held in its current
\* state, or will be named).  True of the store on disk and of the running
\* process, through stops, failed calls, crashes and resumed builds
\* (index-manager.ts: the stamp is the version the crawl BEGAN at).
StampHonest == HonestStamp(disk) /\ HonestStamp(mem)

\* A stored checkpoint never points past an item nothing will come back for:
\* while a versioned library is as it was when the crawl began, what the index
\* lacks lies at or after the offset.  (Once it has changed, the resume sees
\* another version and walks from the top.)
CheckpointHonest ==
  LET cp == disk.checkpoint IN
  cp # None /\ cp.backend \in Versioned /\ cp.crawlVersion = VersionOf(cp.backend, clock) =>
    \A i \in live \ Held(disk) : Rank(live, i) >= cp.crawlOffset

\* A build that ran through, over a library nobody changed meanwhile, holds
\* every item in its current state, whether it started over, resumed at the
\* stored offset or walked again from the top; or, at the cap, as many.
BuildCovers ==
  job.kind = "build" /\ job.pc = "finish" /\ ~job.cancelled /\ job.startedAt = clock =>
    \/ CapReached(job)
    \/ \A i \in live : mem.rows[i] # 0 /\ (~job.resumed => mem.rows[i] = mver[i])

\* The item cap bounds the index whichever jobs wrote it: builds, resumed
\* builds over pages that moved, updates that add and remove.
CapRespected ==
  /\ Cardinality(Held(mem)) <= MaxItems
  /\ Cardinality(Held(disk)) <= MaxItems

\* A build about to be stamped has a vector for every passage it holds: one
\* whose embedder failed earns no stamp, and the build that resumes it embeds
\* what the failed one committed without vectors before it stamps.
StampsOnlyEmbedded ==
  job.kind = "build" /\ job.pc = "finish" /\ EarnsStamp(job) => Missing(mem) = {}

\* What says how far an index goes, beside its rows.
Claims(idx) == <<idx.libraryVersion, idx.libraryBackend, idx.checkpoint>>

\* While an update reads its delta and its census no step, a stop, a pause and a shutdown
\* included, moves the stamp or the checkpoint on disk, so the same delta is read again
\* (index-manager.ts:1880); and an update that is neither stopped nor over has committed
\* nothing.  (A stop, a pause and a shutdown do commit what was written of the delta.)
StampMovesLast ==
  [][job.kind = "update" /\ job.pc \in {"fetch", "live"} =>
       /\ Claims(disk') = Claims(disk)
       /\ job'.kind = "update" /\ ~job'.cancelled => disk'.rows = disk.rows]_vars

\* An emptied library is left out: a census of nothing is never believed.
Synced == live # {} => \A i \in Items : mem.rows[i] = mver[i]

\* The jobs' own steps are run by the event loop; a client keeps asking for
\* action:"update" and, where the index was paused, resumes it.
Fairness ==
  WF_vars(BuildStep) /\ WF_vars(UpdateStep) /\ WF_vars(StartJob) /\ WF_vars(Resume)

FairSpec == Spec /\ Fairness

\* Once the library is quiet and calls succeed, updating the index again and
\* again brings it level with the library and keeps bringing it there.
CatchesUp == []<>Synced
=============================================================================
