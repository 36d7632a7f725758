--------------------------- MODULE FulltextCrawl ---------------------------
(***************************************************************************)
(* A full-text crawl served by the desktop app, and the app itself: the    *)
(* job's reads go through a counting semaphore of its own                  *)
(* (index-manager.ts, buildIncremental and updateIncremental), and the     *)
(* first time the app is given up while the job runs, watchLocalApi        *)
(* (features/search/build.ts) has the job lower that semaphore to one read *)
(* at a time, because the crawl's load is what brought the app down.       *)
(***************************************************************************)
EXTENDS Semaphore, LocalStatus

CONSTANTS
  FulltextConcurrency,  \* DEFAULT_FULLTEXT_CONCURRENCY_LOCAL
  SaturatedConcurrency  \* SATURATED_FULLTEXT_CONCURRENCY

\* Both are among the ceilings asked for, and both are accepted: a configured
\* concurrency is raised to one (index-manager.ts:1353).
ASSUME CrawlAssumption ==
  {FulltextConcurrency, SaturatedConcurrency} \subseteq Ceilings \cap (Nat \ {0})

VARIABLES
  crawling,  \* a job crawls the desktop app, and is subscribed to its outages
  noted      \* localApiDegradedAt is set

semaphoreVars == <<max, available, queue, holders>>
crawlVars == <<semaphoreVars, statusVars, crawling, noted>>

\* The variables keep their types (semaphore.ts, local-status.ts).
CrawlTypeOK ==
  /\ SemaphoreTypeOK
  /\ StatusTypeOK
  /\ crawling \in BOOLEAN
  /\ noted \in BOOLEAN

CrawlInit ==
  /\ StatusInit
  /\ max = FulltextConcurrency /\ available = max /\ queue = <<>> /\ holders = {}
  /\ crawling = FALSE
  /\ noted = FALSE

\* Seeded fault: the record of an outage outlives its job.
NotedAtStart_Kept == noted

\* localApiDegradedAt as a job starts.
NotedAtStart == FALSE

\* A job pinned to the desktop app starts, with a new semaphore, and
\* subscribes to the outages of the app in the same breath.
StartCrawl ==
  /\ ~crawling
  /\ localApi
  /\ crawling' = TRUE
  /\ noted' = NotedAtStart
  /\ max' = FulltextConcurrency
  /\ available' = FulltextConcurrency
  /\ queue' = <<>>
  /\ holders' = {}
  /\ UNCHANGED statusVars

\* fulltextForPage, fulltextForKeys: the running job's reads, through run().
StartRead(c) ==
  /\ crawling
  /\ Acquire(c)
  /\ UNCHANGED <<statusVars, crawling, noted>>

EndRead(c) ==
  /\ crawling
  /\ Release(c)
  /\ UNCHANGED <<statusVars, crawling, noted>>

\* The job settles once its reads have, and unsubscribes.
EndCrawl ==
  /\ crawling
  /\ holders \cup Waiting = {}
  /\ crawling' = FALSE
  /\ UNCHANGED <<semaphoreVars, statusVars, noted>>

\* The app goes from answering to given up.
Degrades == localApi /\ ~localApi'

\* noteLocalApiDegraded: the first outage of a running job.
NoteLocalApiDegraded ==
  /\ crawling /\ ~noted
  /\ noted' = TRUE
  /\ \/ SetMax(SaturatedConcurrency)
     \/ max = SaturatedConcurrency /\ UNCHANGED semaphoreVars

\* The app and its probes move on; the listener runs within the probe.
Moves(Step) ==
  /\ Step
  /\ \/ Degrades /\ NoteLocalApiDegraded
     \/ ~(Degrades /\ crawling /\ ~noted) /\ UNCHANGED <<semaphoreVars, noted>>
  /\ UNCHANGED crawling

CrawlNext ==
  \/ StartCrawl
  \/ \E c \in Clients : StartRead(c) \/ EndRead(c)
  \/ EndCrawl
  \/ Moves(StatusNext)

CrawlSpec == CrawlInit /\ [][CrawlNext]_crawlVars

(***************************************************************************)
(* The fairness of the two parts: work that holds a permit ends, time      *)
(* passes, probes have a time budget and tools keep being called.  Jobs    *)
(* need neither start nor end.                                             *)
(***************************************************************************)
CrawlFairSpec ==
  /\ CrawlSpec
  /\ \A c \in Clients : WF_crawlVars(EndRead(c))
  /\ WF_crawlVars(Moves(Tick))
  /\ WF_crawlVars(Moves(Probe))
  /\ WF_crawlVars(Moves(Ensure(FALSE)))

-----------------------------------------------------------------------------

\* The state of a crawl is sound through outages and new crawls: its variables have their
\* types and bounds, its permits add up, and groups are published only while the app is
\* believed up (semaphore.ts:20, local-status.ts:230, index-manager.ts:822).
CrawlSound == CrawlTypeOK /\ Accounting /\ GroupsOnlyWhileUp

\* While the app is given up, a crawl that set out on it starts one read at a
\* time and no more, whichever job this is and however many reads were out
\* (index-manager.ts:812-818, the defect #39).
QuietWhileDown ==
  [][crawling /\ ~localApi' /\ holders' \ holders # {}
       => Cardinality(holders') <= SaturatedConcurrency]_crawlVars
=============================================================================
