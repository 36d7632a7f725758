# Zoteus in TLA+

Zoteus is an MCP server that lets a language model work with a Zotero library. It talks to
two Zotero APIs at once: the desktop app's local API and zotero.org's Web API. It keeps a
search index beside the library, routes every read and write to one API or the other, and
may serve many sessions over HTTP. This directory models the parts of it whose correctness
depends on the order of events: jobs that crawl a library which changes under them, a router
that must not read a desktop copy older than what the server has just written, several
processes on one index file, writes whose answers are lost, tokens in a file that is written
late.

Paths below are relative to the implementation directory, `src/src/`. `PROJECT.json` maps
every definition to the lines it stands for, names a seeded fault for each property and lists
the hazards line by line.

## The system

| Component | State it keeps | Operations | Talks to | What makes it hard |
|---|---|---|---|---|
| Index jobs (`features/search/index-manager.ts`, `build.ts`) | rows, vectors, checkpoint, stamp (`libraryVersion`, `libraryBackend`), pause flag; the run's own locals | build, resume, update, refresh, stop, pause, resume | the APIs through `build.ts`; the store; an embedder | a library that shifts between pages; stop or death at any await; two version sequences; half-embedded runs |
| Search index registry (`features/search/index-registry.ts`, `repair.ts`, `factory.ts`) | per library: its open index, the opening in flight, leases, last use | open, withIndex, reopen, evict, closeAll | tools; the stores; the session contexts | openings shared by calls; an eviction that awaits; files deleted and replaced |
| Index stores (`sqlite-index.ts`, in-memory in `index-manager.ts`, `persistence.ts`) | tables and one meta row; one open transaction; job lease; codes of vectors; a JSON file | open, migrate, repair, flush, save, lease, reload, close | the file system, another process | what a commit takes along; a store shared by two processes; files moved one after the other |
| Full-text and own-words catch-up (`fulltext-source.ts`, `own-words-source.ts`) | two further cursors | catch-up passes | local API | a cursor that passes what it has not read |
| Search (`tools/semantic-search.ts`, `query()`) | none that outlives a call, but an index that changes under it | query over one and several libraries | stores, embedders, registry | jobs that rebuild while a query is embedded |
| Embedders (`features/search/embeddings.ts`) | a worker thread, calls pending on it | embed, close | index jobs, searches | a worker that dies, is closed and replaced |
| Counting semaphore (`lib/semaphore.ts`) | ceiling, permits, queue | acquire, release, setMax | fetcher, full-text reads | a ceiling that moves while permits are out |
| Fetcher (`api/http.ts`) | semaphore, backoff per origin | fetch with deadline and retries | all clients | permits held through sleeps |
| Router and pending writes (`router/library-router.ts`, `pending-writes.ts`) | per library: the latest cloud write not yet seen on the desktop, its baseline | noteCloudWrite, route, searchItems | web client's `onWrite`; local client | concurrent reads and writes; the desktop's sync is invisible; two APIs that filter differently |
| Desktop availability (`router/local-status.ts`, `capabilities.ts`) | up/down, group ids, TTLs, failures, probe in flight | ensure, probe | local client; router; index jobs (degradation listener) | shared probe with two awaits; stale answers; two-strikes rule |
| Desktop and cloud writes (`api/local-writes.ts`, `api/web-client.ts`, `tools/library-writer.ts`) | key grant, record of what landed | write with 401/412/428 retries, fallback to the cloud, batches | both APIs | a retry of what has landed; the later of several requests |
| OAuth provider and store (`auth/`) | codes, tokens, clients, debounced file | authorize, exchange, refresh, revoke, flush | HTTP transport | one-time codes; rotation and crash |
| Account contexts (`server.ts`, `index.ts`) | per account and Zotero key: a context, its age, the indexes under all of an account's | resolve, recheck, evict, flush | registry; zotero.org; the HTTP transport | builds and checks shared by calls; an account evicted while its calls wait; revoked keys |
| HTTP transport, sessions (`transports/http.ts`, `lib/lifecycle.ts`) | session table, in-flight counts | open, route, sweep, shutdown | tools | sweeping a session that is being answered |
| Merge, import (`tools/merge-items.ts`, `tools/import.ts`) | a plan and its progress | ordered conditional writes | both APIs | partial failure between requests |
| Usage log (`lib/usage/`) | a buffer, rows, rollups | record, flush, roll up, prune | file system | several processes; pruning before counting |
| Documents (`tools/get-fulltext.ts`, `tools/pdf-images.ts`, `features/ocr/`) | two gates, an engine, a pool of canvases | read, OCR, draw | attachments | gates that nest; canvases that outlive a call |
| Index commands (`tools/index-tool.ts`, `cli/index-command.ts`) | which file is whose; holds | the actions of `zotero_index`, `zoteus index` | registry, jobs | restarts, interrupts, a default that changes |
| Citations, notes and their markdown, scholar lookups, parsers, configuration | none that outlives a call | pure functions and one-shot requests | | not concurrent |

### Interactions

* `library-router.ts` reads `Capabilities` synchronously on every decision. `LocalApiStatus`
  is the only writer after startup.
* The web client reports every write it made to `noteCloudWrite`. From then on the router
  sends that library's reads to the cloud until the desktop is seen to have caught up.
* A job of the index is served by whichever API the router names at its start, and stores
  which one it was, because the two number their versions independently.
* `LocalApiStatus` tells a running crawl when the desktop app stops answering. The crawl
  lowers its semaphore's ceiling.
* A job's rows, its stamp and its checkpoint reach the file in one transaction; the file's
  meta row is also written by other processes, each only the fields it changed.

## The modules

Components that interact are composed: `FulltextCrawl` extends `Semaphore` and `LocalStatus`,
because a job lowers the semaphore's ceiling within the probe's step; `PagePictures` queues
for the gate of `TextReading`. Components that share no state are checked in one run by a
*sum* module: its variable `part` says which of them a behaviour exercises, and the others
stay as they start. A run's states are then the sum, not the product, of its parts' states,
and a property of a part is what it is without the others. The modules `MCDesktop`, `MCJobs`,
`MCReading`, `MCStores` and `MCAccounts` extend parts that theorems speak of and instantiate
the rest; `MCLibrary`, `MCTraffic` and `MCTools` instantiate all. Which parts share a run is
partly a matter of its size: a run takes at most four minutes.

| Run | Parts |
|---|---|
| `index_safety` (`MCJobs`) | `IndexJob`, `PassageStore` |
| `index_catches_up` (`MCIndexJob`) | `IndexJob` |
| `desktop` (`MCDesktop`) | `FulltextCrawl` = `Semaphore` + `LocalStatus`, refining `Permits`; `LocalRouting` |
| `stores` (`MCStores`) | `IndexRegistry`, `SharedStore`, `StoreOpening`, `JsonStore`, `UsageLog` |
| `reading` (`MCReading`) | `VectorCodes`, `Retrieval`, `IndexCommands` (two parts: *calls at once*, *jobs in turn*) |
| `library` (`MCLibrary`) | `MergeItems`, `Import`, `BodyText`, `OwnWords`, `Listing` |
| `traffic` (`MCTraffic`) | `DesktopWrites`, `CloudWrites`, `HttpFetch`, `HttpSessions`, `Embedder` |
| `accounts` (`MCAccounts`) | `OAuthGrants`, `AccountContexts` |
| `tools` (`MCTools`) | `TextReading`, `PagePictures`, `IndexCommands` (one command, for its liveness) |
| `registry_repairs`, `merge_cloud`, `usage_rollups` | violations: see *Findings* |

Every module marks its *seeded faults*: operators that sit just above the definition they
would replace and say what a plausible bug there would be. Each property of a passing run
is violated when one of them takes the definition's place.

JavaScript is single-threaded, so an action is the code from one `await` to the next. Where
the code has no `await` in a loop (an update's page), the whole loop is one action. Where
awaits can be left out because no other actor can act between them, the comment at the
action says so. Constants that lift an assumption are named for what they allow
(`RemovesDuringJobs`, `SyncOverlaps`, `RepairsOverlap`, ...); what turning one on shows is under
*What the assumptions hide*.

### IndexJob

*State and code.* `mem` is the index as the process sees it and `disk` what the last commit
left; they differ by the open SQLite transaction. `rows[i]` records *which change* of item
`i` is indexed, which is all the properties need of its text. `job` holds the locals of
`buildIncrementalClaimed` and `updateIncrementalClaimed`; `job.pc` names the await the job is
at. `live`, `mver` and `clock` are the library: `Modify` and `Remove` are other clients.
A backend `b` serves change `t` under the version `Offset[b] + t`, so that versions from
different APIs are comparable only by mistake; one outside `Versioned` serves none.

*Actions.* `StartBuild` (fresh or resumed), `RecrawlFromTop`, `ReadPage`, `IndexItem`,
`EndPage`, `EmbedBatch`, `MaybePersist`, `EndCrawl`, `BackfillBatch`, `BackfillDone`,
`FinishBuild`; `StartUpdate`, `UpdatePage`, `CensusPage`, `FinishUpdate`, `EndStoppedUpdate`,
`EmbedDeferred`, `EndUpdate`; and what disturbs them: `EmbedFails`, `BuildFails`,
`DeferredFails`, `UpdateFails`, `RequestStop`, `Pause`, `Resume`, `Crash`, `Shutdown`.

*Properties.*
* `StampHonest`: an item of the library the index does not hold in its current state is one
  that `?since=<stamp>` names. It is what lets an update skip everything else.
* `CheckpointHonest`: a stored offset never points past an item the crawl has not indexed.
* `BuildCovers`: a build that ran through holds every item of a library that did not change.
* `StampsOnlyEmbedded`: a build about to be stamped has no passage without its vector,
  whichever run left it so. (An update whose deferred embedding fails leaves a stamped index
  with passages without vectors, and reports them; only builds fill such gaps.)
* `StampMovesLast`: while an update reads its delta and its census nothing that happens moves
  the stamp or the checkpoint on disk, so the delta is read again; one that goes on has
  committed no row. Rows of a delta do reach the disk when it is stopped, paused or shut down
  (`sqlite-index.ts:2453`), under the old stamp.
* `CatchesUp` (liveness): repeating `action:"update"` brings the index level.

*Bounds.* Three items and pages of two give a page boundary, a partial last page
and an item that can move across the boundary; four library changes allow an item to be
created, changed, and changed again during a resumed run; two faults are a stop and then a
failure or crash in the run that resumes. `index_catches_up` is checked without
symmetry. That no sequence of jobs holds more than the item cap (`index-manager.ts:2086`) is
`CapRespected`: the libraries of the runs fit under the cap, so no run checks it; it is
proved (`CapRespectedHolds`).

*Fairness.* The event loop runs a job's own steps, so `BuildStep` and `UpdateStep` are
weakly fair. `StartJob` and `Resume` are fair because the property is about a client that
keeps asking. Library changes and faults are bounded and never fair.

### Semaphore, Permits, LocalStatus, FulltextCrawl (run `desktop`)

`Acquire`, `Release` and `SetMax` are the semaphore's three operations; `max`, `available` and
`queue` are its fields and `holders` the calls inside `run()`. `Permits` is what the class promises, with no word of how it counts:
calls wait or hold, a step grants only under the ceiling it leaves in force and leaves
nobody waiting under it. `ImplementsPermits` is the refinement, forgetting the queue's order.

In `LocalStatus` times are in units of five seconds, the shortest TTL; the age stops counting
at the longest TTL because the code only compares it. `Ensure` starts the shared probe;
`ProbeUp`, `GroupsListed` and `ProbeDown` are its awaits' continuations. The desktop app has
four conditions: answering, answering the ping but not yet the group listing, refusing, and
dropping packets. `TwoStrikes` and `GroupsOnlyWhileUp` are its safety properties, `AppNoticed`
(started and quit) its liveness: weak fairness of the clock, of the probe's continuation (it
has a 1.5 s budget) and of unforced calls to `ensure()`, which every tool call makes.

`FulltextCrawl` joins them: a job pinned to the desktop app starts with a fresh semaphore
(`StartCrawl`), its reads run through it, and the probe's step that gives the app up lowers
the ceiling in the same step (`Moves`). `QuietWhileDown` is the point of it: while the app is
given up, a crawl that set out on it starts one read at a time, however many were out.
Three reads under ceilings 1 and 2 cover a ceiling lowered under load with a queue.

### LocalRouting (run `desktop`)

One library, two objects. `cloud` and `copy` are zotero.org's and the desktop's copy of each
object, `pending` the router's entry (`PendingCloudWrites`), `inFlight` the writes whose
responses have not been handled, `probes` the baseline requests, `reading` the reads inside
`route()`. `CloudWrite`/`NoteCloudWrite` are the two halves of a write; `ProbeAnswered`,
`BaselineArrives` and `ProbeFails` those of the baseline request; `RouteAsks`,
`RouteAnswered`, `RouteFails` and `RouteDecides` those of a routed read. `SyncDownload` and
`SyncApply` are the desktop's own sync, external and in two halves because it is not atomic.

`ReadYourWrites` is the promise: no read goes to the desktop while it lacks a write this
server has reported. `MeasuredOverrideEnds` (in `ReadsGoOn`) is its counterpart: the override
is lifted in the end. Both hold under four assumptions, each a constant a configuration can
lift: `RemovesUnsynced`, `EditsUnsynced`, `SyncOverlaps`, `ReportsOverlap`. Two writes race
each other's baselines, to the same object or to two; two reads race each other's checks.

Fairness: the app keeps syncing and is up again and again (`[]<>served`); a client keeps
reading; a request that can be answered again and again is answered in the end. Without
reads nothing lifts an override: the code checks on the way in to a read.

### IndexRegistry (run `stores`)

A *handle* is an open index: a database connection, open, closing (its release has begun) or
closed. `entries`, `inflight` and `leases` are the registry's maps of those names, `order` the
libraries of `entries` by `lastUsed`. An element of `inflight` says how far `open` has got:
before `createSearchIndex` has answered, or in the eviction loop with a victim whose release
it awaits. `call` is a tool call: a search (`withIndex`), a status call (`openIfExists`), a
build (`open`), or the second half of a repair (`reopen`). `Evict` is the session cache's
(`server.ts`), `Shutdown` the process's; both are `closeAll`.

`InUseKept` says that nothing closes the index a search holds or a build writes, no file is
deleted under a build, every open handle can be found and closed, and all calls that share
an opening are told how it ends. Three libraries and room for one: every opening of a second
evicts, and the third can be opened while the second's release is awaited. `RepairsOverlap`
is off; `registry_repairs` turns it on. Not stated: after an account is evicted, a call that
was waiting is handed an index that `closeAll` has closed; and while a victim's release is
awaited, an opening of the same library opens its file a second time.

### SharedStore, StoreOpening, JsonStore, UsageLog (run `stores`)

*SharedStore* is one SQLite file under several processes: the job lease with its heartbeat
and takeover, the meta row each process keeps in memory and merges back field by field, the
refresh before a decision. `JobAlone`: one job at a time, and what it committed stays.
`StampKept`: the stamp and the checkpoint in the file change at the hand of the process that
runs the job. Two processes and two jobs are a takeover and a return; one fault is a crash, a
failed release or a hold.

*StoreOpening* is the path of a database through migration, moving aside, repair, damage,
other versions of the program and a crash between any two file operations; builds of it, which
adopt vectors from a database that was moved aside, start afresh or resume an interrupted one
of the same model and embed what it left without a vector. `PathsSafe`: no log meets another
database, no usable one is deleted, every vector fits the text beside it.

*JsonStore* is the in-memory index's file: writes chained behind one another with what they
write taken when asked, a hold written ahead, a save skipped when another process replaced
the file. `LastAskedIsWritten`: a handle whose writes are done finds in its own file the last
state it was asked to write and the hold it is under.

*UsageLog* is the buffer, the rows (by id, the next one being one more than the largest) and
the day's rollups under several processes; that no event is dropped before a rollup counted it
is the second half of `PathsSafe`. Two processes, three events and room for two, over two days
of which one is kept: one process writes while the other's rollup is under way, and both age
and number prune. `usage_rollups` refutes the stronger claim of a comment.

### PassageStore (run `index_safety`)

What an index job does to an item's passages, its metadata, body and notes, with the counters
kept beside the rows by hand, in the SQLite store and in the one in memory. Before each request
to the model what there is is committed (`yieldWriteLock`), checkpoint or not, so a kill can
leave vectors on disk of passages that an older checkpoint lists; the build that resumes from
it asks for them again, and the SQLite store counts each a second time. `again` is the set of
those. `RowsHonest`: the counters are what the rows say, the vectors' but for `again`, and a
vector is of its row's text; in the store in memory not of an item that one update took out
and put back twice (`twice`). `MissesOnlyRecounted`: a build that records its version misses
no more vectors than it has counted twice. That it misses none is what a comment's reasoning
comes to, and is not so (*Observed*). Two items and two jobs: one that leaves something behind
and one that takes it up. One item has notes and no attachment, the other an attachment and no
notes (`Wordless`, `Bodiless`), and the second may be listed twice by one update (`Relisted`).

### VectorCodes, Retrieval (run `reading`)

*VectorCodes*: one binary code per stored vector, kept in memory by every process that
searches; two processes, two widths. *Retrieval*: the two rankings, their fusion and
the widening of the pool, over one and several libraries, while jobs change an index during
the query's embedding. `SearchesHonest` is what the two owe a search: a page leaves out
nothing it had room for, and a code describes the vector beside it, so no search misses a
stored vector because of the codes. Two libraries, and pages of one and two, so that each
boundary is met with one element more than it holds.

### MergeItems, Import, BodyText, OwnWords, Listing (run `library`)

*MergeItems*: reads, plan, master, children, trashings, each a request of its own that may
fail or lose its answer, while the user edits. `MergeKeepsAll`: no child is trashed with its
duplicate, what is trashed was absorbed, the user's edits stand, only what the approved
preview showed is touched. `OnCloud` is off; `merge_cloud` turns it on.
*Import*: three readers, three routes to save by, the local API in several requests (`Chunk`
objects each) of which any may fail or find the app without writes; `SavedOnce`: no entry
twice, none blank, but that what the local API had taken when it turned out not to take writes
(`broke`) is sent once more.
*BodyText* and *OwnWords*: the two catch-ups of an index job, with updates that are asked for
full text and own words and, as is the default, updates that are not. `CatchUpsHonest`: text
that the full-text cursor has passed, and words from before the stamp, are in the index.
`CatchUpsKeep`: what an update takes out is marked to be read again. Neither is so without
exception, and ghosts say where the exceptions lie: `forgone`, the attachments whose text an
update gave up (it refreshed the item without reading text, or the text was extracted between
the delta's reads and the probe); `lost`, the notes that left their item for another and went
with the first one's words; `owed`, a build or a stamp that owes own words; `vouched`, the
cursor was set by a pass that read all it names. The ghosts are part of what is rolled back
with the index, and an attachment or note leaves them when it is read again.
*Listing*: a search listing put together from two APIs that filter differently, while the
library is edited and the app comes and goes: `ListingsHonest`.

Two duplicates and two children give a move, a failed move and a child added late; three
attachments of two items are enough to cut a map in the middle of an item; two items and two
notes, in the four places they can start at but for names (`StartHomes`), let one move and one
be written; pages of the trash, batches of keys and requests of a save of one meet each
boundary with one element more than they hold.

### DesktopWrites, CloudWrites, HttpFetch, HttpSessions, Embedder (run `traffic`)

*DesktopWrites*: the grant dialog, 401, 412 and 428, the app's restart, lost answers, and the
fallback that starts an operation over on the cloud while no call of it has returned. A call of
more objects than a request holds is several requests (`Posts`), and none of them counts as
landed before the last has: `before` is how many had been answered when the operation started over.
*CloudWrites*: batches under write tokens and versions, deletions, notes and tags rewritten
from what was read, attachments in several requests, a 503 after a write that landed, of any
kind of call (`AnswersAfter`).
`WritesLandOnce` is about both: nothing twice, one copy, nobody's edit lost; but that what
`before` counts is created again on the cloud, and a text whose append was answered 503 after
it landed is appended again.
*HttpFetch*: permits held through backoff and retries; `BudgetHolds`. *HttpSessions*:
admission, sweep, deletion; a session in use is not swept. Both are `RequestsGetTheirDue`.
*Embedder*: the worker, its death, its replacement, `close()`, and calls of two batches with a
pause between them; `NoOrphan`: no thread is left running a model that nobody will close.
`EverythingEnds` is the liveness of all five. One kind of call does not end: one whose worker
ended while it paused posts its next batch to a thread that is gone (`Stranded`), and
`StrandedByPause`, a part of `EverythingEnds`, says that no other way leads there.

*Fairness.* Time goes on, timers fire, a request has a budget; nothing is assumed of servers.
The five parts number their actors from one, so that one fairness condition per number is
one per actor of the part that moves. No symmetry, because of the liveness.

### OAuthGrants, AccountContexts (run `accounts`)

*OAuthGrants.* A *consent* is one authorization request: `starting` while zotero.org
is asked for a request token, `pending` on the consent page, `callbacks` while the user's key is
fetched, then a code in `codes`. `requests` holds the code a token request was challenged for:
the SDK compares the PKCE verifier between the challenge and the exchange. `mem` is the store
in memory, `disk` its file and `writes` what is between: each `flush()` adds a write that
starts when the one before it has settled and takes its snapshot then. A token is the pair
it was minted in; access and refresh tokens are kept apart because they lapse and go separately.
`ConsentGrantsOnce`: what is allowed once is granted once, whatever is submitted twice; no
store, present or to come, holds two refresh tokens of one consent; a token speaks for the
user who consented. `FileSettles`: with nothing left to write the file says what memory says.
`FileMovesForward`: the file never falls back to a rotated refresh token. One consent, two
clients, three queued writes, two faults; consents share nothing but the store's writes.
`MaxPairs = 3` numbers the code too, so the run reaches two pairs of tokens, one rotation.

*AccountContexts.* `keys` and `accounts` are `ContextCache`'s two levels in the order of their
`lastUsed`, `entry` a `KeyEntry` with its context, `tail` the promises of `resolveTail`.
`ResolveHit`, `ResolveDue` and `ResolveMiss` are the three ways through `resolve`; `MissHits`,
`Build`, `BuildFails`, `Built` and `Released` the steps of a miss, one at a time;
`Confirmed`, `Refused` and `RefusedLate` the ends of a check. `AccountIndexes`: an account's
files are opened once at a time, are open exactly while it is cached, closed when the server
has shut down, and only a refused key stays retired. `GoInTime`: what is closed to make room
is idle, and a refused key is served for less than the recheck interval. One account with
three keys in a cache that keeps two, one with one, room for one account. Not stated: a call
that was given its context before its account was evicted may open an index of the closed
registry again; a call whose check is under way when its key is dropped is told to reconnect
although the key is good.

### TextReading, PagePictures (run `tools`)

*TextReading*: exact pages, the OCR of pages without text under its gate, and the drawing gate
below it. *PagePictures*: canvases through a bounded pool, repeats, cuts and what is said of
them. `AnswersHonest`: a page's text is answered as it is, a machine's reading only on pages
named as such, no picture is left out or doubled unsaid, no canvas in use is handed out.
`CallsEnd`: every reading is answered, under fairness of the engine and of the calls; and so is
a command, see `IndexCommands`.
`MCTools` renames the pictures' page sizes (`PageSizes`) because a constant is set by name.

### IndexCommands (runs `reading`, `tools`)

*State and code.* Which file holds which library: `file` is what is on disk at each path, the
original one and one beside it for each library; `server` the program, whether it is the
command line, its default library and the one its registry takes for the original's
(`primaryLibrary`); `held` its holds in memory, `moving` the pause or resume being persisted;
`job` the jobs, each with the file as it was last committed (`before`), which is what a restart
finds; `call` the calls. `named` and `restored` are ghosts: the libraries somebody asked to
index by name, and those whose rows the end of the program brought back into the original
file, because a job had not committed that they were gone.

*Actions.* `Ask`, `Find`, `Decide` are a call of `zotero_index` up to its action; `Status`,
`Stop`, `SetPaused` with `Persist` (an await between the hold in memory and on disk), `Start`
(build, refresh, update and its fallback, with their refusals) the actions; `Choose` a plain
search's choice of an index; `JobPage`, `JobEnds` the jobs; `Poll`, `Exit`, `Interrupt` the
command line, which is a program with one call; `ReachChanges`, `Restart` what disturbs them.

*Properties.* `HoldStands`: what runs under a hold that is on disk has been asked to stop.
`SecondCrawlChosen`: a job on one file crawls a library another file has rows of only if it was
named once, or restored. `SearchesItsOwn`: a search is answered from the library it is about.
`ExitTold`: the command exits when nothing runs, and with success when nothing failed.
`CommandsHonest` is `HoldStands`, `SecondCrawlChosen` and `ExitTold`.
`CommandEnds` (liveness, within `CallsEnd`): a command ends unless it is interrupted twice; fair
are its own steps and that a job gets on.

*Bounds.* Two libraries. *Calls at once*: two calls and one restart, or one command; two
are enough for a pause that meets a resume or a job. *Jobs in turn*: one call at a time but
three of them, whose jobs outlive them, and two restarts: a named crawl, a start for another
default, an unnamed crawl. With fewer calls the restored rows of the ghost never come into it
and `SecondCrawlChosen` holds without the ghost, for want of behaviours.

## What is proved

All theorems hold for every value of the constants, under the assumptions named. Eight
modules hold them; each extends the module of its component.

| Theorem | Module | Property | Assumes |
|---|---|---|---|
| `Invariance`, `TypeCorrect`, `AccountingHolds`, `NoIdlePermitHolds`, `GrantsUnderCeilingHolds` | `DesktopProofs` | `SemaphoreInv` and its parts, `GrantsUnderCeiling` | `SemaphoreAssumption` |
| `PermitsImplemented` | `DesktopProofs` | `ImplementsPermits` | the same |
| `GroupsOnlyWhileUpHolds`, `TwoStrikesHolds` | `DesktopProofs` | the probe's two | `StatusAssumption` |
| `CrawlTypes`, `CrawlAccounts`, `CrawlGroups`, `CrawlIsSound`, `CrawlTwoStrikes`, `CrawlImplementsPermits`, `CrawlQuietWhileDown` | `DesktopProofs` | `CrawlTypeOK`, `Accounting` and `GroupsOnlyWhileUp` (together `CrawlSound`), `TwoStrikes`, `ImplementsPermits`, `QuietWhileDown` of the crawl and its app together | those two and `CrawlAssumption` |
| `TypeCorrect`, `StampMovesLastHolds`, `StampsOnlyEmbeddedHolds` | `IndexJobProofs` | `TypeOK`, `StampMovesLast`, `StampsOnlyEmbedded` | `ConstantsAssumption` |
| `StampsAreHonest`, `CheckpointsAreHonest` | `IndexJobProofs` | `StampHonest`, `CheckpointHonest` | that, `~RemovesDuringJobs`, `~PausesDuringJobs`, `SameNumbers` |
| `FinishedBuildsCover` | `IndexJobProofs` | `BuildCovers` | and every API serves versions |
| `CapRespectedHolds` | `IndexJobProofs` | `CapRespected` | `ConstantsAssumption` |
| `ReadYourWritesHolds` | `DesktopProofs` | `ReadYourWrites` | `RoutingAssumption`, `InTurn` |
| `SavedOnceHolds` | `LibraryProofs` | `SavedOnce` | `LibraryAssumption` |
| `MergeKeepsAllHolds` | `LibraryProofs` | `MergeKeepsAll` | and `~OnCloud` |
| `CatchUpsKeepHolds`, `CatchUpsHonestHolds` | `LibraryProofs` | `CatchUpsKeep`, `CatchUpsHonest` | `LibraryAssumption` |
| `LastAskedHolds` | `StoreProofs` | `LastAskedIsWritten` | none |
| `JobsAreAlone`, `StampsAreKept` | `StoreProofs` | `JobAlone`, `StampKept` | `SharedAssumption` |
| `InUseKeptHolds` | `DataProofs` | `InUseKept` | `StoresAssumption`, `~RepairsOverlap` |
| `PathsSafeHolds` | `DataProofs` | `PathsSafe` | `StoresAssumption` |
| `RequestsGetTheirDueHolds`, `NoOrphanHolds`, `WritesLandOnceHolds` | `TrafficProofs` | `RequestsGetTheirDue`, `NoOrphan`, `WritesLandOnce` | `TrafficAssumption` |
| `AccountIndexesHolds`, `GoInTimeHolds` | `AccountProofs` | `AccountIndexes`, `GoInTime` | `AccountsAssumption` |
| `ConsentIsGrantedOnce`, `FileSettlesHolds`, `FileMovesForwardHolds` | `AccountProofs` | `ConsentGrantsOnce`, `FileSettles`, `FileMovesForward` | `OAuthAssumption` |
| `CommandInvAlways`, `HoldsStand`, `SecondCrawlsChosen`, `ExitsTold`, `CommandsAreHonest`, `SearchesTheirOwn` | `CommandProofs` | `CommandInv`, the three parts of `CommandsHonest` and itself, `SearchesItsOwn` | `CommandAssumption` |

The assumptions on constants are evaluated by TLC in the runs. `~RemovesDuringJobs`,
`~PausesDuringJobs`, `InTurn`, `~RepairsOverlap` and `~OnCloud` are the switches the passing
runs set, and the theorems are false without them:
`registry_repairs` and `merge_cloud` are runs, the others are under *What the assumptions
hide*. Each inductive invariant was an invariant of a TLC run
before it was proved.

*Semaphore* (with the next two and *LocalRouting* in `DesktopProofs`). `SemaphoreInv` is inductive and none of its parts is alone: that a permit is not
idle after a release needs the count to be right, and the count needs the queue and the
holders to be disjoint and the queue to hold nobody twice. `FrontCardinality` and
`ServeFront` state once what serving the `n` oldest calls does to cardinalities. For the
refinement, `ServedLeave` says that those who stop waiting are exactly those served, which
makes each operation a step of `Permits`, and `StepsAreOrderly` that no step grants over the
ceiling or leaves a call waiting under it.

*FulltextCrawl.* `ProbeInv`: while a probe is in flight nothing else writes `localApi`, so
what it remembered at its start is still true after its awaits. `ThrottleInv` joins the two
components: between crawls the semaphore is empty; while a crawl runs over an app that was
given up it has been told; once told it keeps its ceiling. Every step of the whole is a step
of the semaphore or starts a crawl on an empty one (`StepOfTheSemaphore`), so `NextInv` and
the refinement's lemmas are used as they are: a start is a moved ceiling with nobody about.

*IndexJob.* Types first, one lemma per action. `StampMovesLastHolds` rests on `UpdateInv`: while
an update reads, memory and disk agree on the stamp and the checkpoint (`ReadsUnderStamp`), so
whatever commits what is in memory moves neither, and a job on a paused index has been told to
stop (`PausedStops`). `StampsOnlyEmbeddedHolds` rests on `EmbedInv`, which says where the passages without vectors
are while a job runs: while the crawl of a fresh build has met no embedder error, whatever
lacks a vector is pending; after an uncancelled backfill nothing does; a resumed run inherits
gaps that its backfill closes. The honesty of the stamp rests on three facts about a crawl:
what it owes lies ahead of its position in the listing; the version it will stamp is the one
the library had as it began; and a change during the crawl moves an item to the front of the
listing and so only pushes the others back, past positions not yet read. What was pushed, or
changed behind the position, carries a later version than the stamp. A removal would pull
items forward, past the position, hence `~RemovesDuringJobs`; a pause within a job commits
rows without the rest of the meta row, hence `~PausesDuringJobs`; `SameNumbers` says that an
interrupted build is resumed over the API that began it, or that there is only one. The cap
needs none of these: `CapInv` says that a running job has counted every item the index
holds, and `AdmittedFits` that the items a page may still admit are numbered, one number
each, below the room that is left.

*LocalRouting.* A sync carries the whole library, so the desktop's copy is the cloud's as of
some write `d`: what was written up to `d` it has, of later writes nothing (`AsOf(d)`). The
inductive invariant `RoutingInv` says that such a `d` exists, and that an entry, a baseline or
a check waiting for a later write still sees the object as it was when measured. So a check
that finds it moved proves the write came over, and with it every earlier one. `InTurn`: no
unsynced edit or removal, no sync across a write, answers in the order of the writes.

*JsonStore* (with the next in `StoreProofs`). What a handle was asked to write last is at its
queue's end or is what the file was last left with (`AskedLast`); a hold being set or lifted is the last write of the queue,
because every save waits for it (`HoldsAgree`).

*SharedStore.* `SharedInv`: a process at work is the one the file's fresh lease names, and
everyone else finds that lease live; only a working process has an open transaction or a
meta row that differs from the one it read, so nobody else's merge can change the stamp.

*IndexRegistry* (with the next two in `DataProofs`). `RegInv` is stated over explicit arguments (`HandlesOK(hs, ents, infl, sh)`),
so that it can be said of a state within a step: an opening that remembers its handle, evicts
over the limit and answers the calls that wait is one step. Its parts: what is entered is held
and not on its way out (`EntriesOK`); an opening's victim is closing and nothing else refers
to it (`OpeningsOK`); what is built is open and what is open is entered, before `closeAll`
(`ServiceOK`); a library's leases are as many as the searches on it (`LeasesOK`), so an
eviction, which wants none, finds no reader; the order of use lists every entry once
(`OrderOK`). `OneWriter` is what `~RepairsOverlap` buys: at most one call builds or
deletes the primary's file, so a file that is deleted belongs to an index with a fault and
without a build.

*StoreOpening.* `OpeningInv`: a step writes at most the database at the path (`WriteKeeps`), so
one that was moved aside stays what it was when it was found to be a source of vectors
(`Source`), and a pointer to it that a database carries stays true. A stage in which the
files at the path are about to go (`Doomed`) is reached only with a database this build can
do nothing with, and nothing makes it good again while the server is at that stage. The log
lies beside its own database or is gone, and it is the first of the two to go (`PathOK`). An
index that is open holds vectors of the model in use or none (`Serves`), which is why an
interrupted build that is resumed, after openings under other models, still ends with
vectors of one model.

*UsageLog.* `UsageInv`: the rows that were written after a rollup read the table are young,
are the last of the table, and are no more than it may hold (`LeftOK`), so the pruning that
follows takes only rows that the rollup read (`PrunesRead`), and those it has counted. What waits
in a buffer has been written and read by nobody, and is younger than its row may become
before it is pruned (`BufferOK`). The clock may be set back at any time; what the proof takes
from `Tick` and `ScanKeepsUp` are the two bounds stated there: no rollup outlasts a tick, and
while one is under way no other process fills the table.

*AccountContexts* (with *OAuthGrants* in `AccountProofs`). `ContextInv` is stated over explicit arguments too, because a context that
is added drops keys of its account and releases another one in the same step (`Settle`). Its
parts: the orders of use list what is cached, every key under its account (`ListsOK`); what is
cached is open, what is open is cached, and each account's indexes are open once
(`ServedOK`); only the first miss in the queue is under way (`TailOK`), and it found the
indexes of its account before it began (`MissOK`), so two first calls do not open two; what is
being closed is held by the one call that evicts, and its account is not cached (`MissOK`,
`ClosingOK`), so it cannot be opened meanwhile; a retired context is the only one of its account and
of a refused key, and a key that is served has been refused no longer than it was last
confirmed (`EntriesOK`), which is below the interval whenever it is served. That
a context being settled is fresh rests on the clock standing meanwhile, which is stated at
`Tick`: no build or release takes a whole recheck interval.
`SansFacts` and `FirstFacts` say what the operators on the orders of use return.

*Traffic.* `BudgetInv`: a request that sleeps has more of its budget left than it means to
sleep, because a wait that would not fit is not begun; so time never takes more than is
left. The delays double, and `FetchAssumption` asks no more of them than to be numbers.
`SessionInv`: an open session counts exactly the responses that are open on it, so a sweep,
which takes those that count none, takes none with a response; an id without a session has
no response left, or its next session would count too few. `ModelInv`: at most one thread is
alive, the one the provider is loading or has loaded, never both; `close()` waits only for a
load that is in flight. The five parts share no variable, so a step of one leaves the
others' invariants alone.

*Writes* (also in `TrafficProofs`). On the desktop, `WritesInv`: an operation that is at the
version an item has read the tags it has (`ReadWell`), so a patch that is accepted drops none;
what was told to have landed keeps the operation on its copy (`Settled`); and only requests
before the one that is out have been carried out, next to those of the call that an operation
which starts over on the cloud leaves behind (`before`; `CreatedWell`), so what is created
twice is what had been answered then. On zotero.org, `CloudInv`: what a call saw of an item
is so while the item's version stands (`SeenWell`), and a version that its caller named is not
exchanged for a later one (`PinHeld`), so nothing unseen is discarded; what is still to be
created has not been, on either copy (`ToMake`, `MadeOnce`); what is told is so at every step
up to the end (`ToldWell`, `EndsWell`). The three kinds of call that name an item once each
have steps of their own, which is what `Placed` says. `LibraryOnward` joins them: whatever
another call does, versions only grow, and a changed item has a new one. The operations and
calls are those of the run (`Programs`, `Works`), each over any two items; how many requests a
create takes (`Posts`), their number, the batch and the mishaps are open. An append that is sent
again after a 503 that hid its landing doubles the text; `CreatedOnce` makes that exception
and `MadeOnce` makes it too.

*MergeItems* (with the next three in `LibraryProofs`). `MergeInv`: a record at the version it was read
at is as it was read (`FreshIsRead`), so a write that pins that version sees what the plan saw; the
master as written has all that was read of the duplicates (`Absorbed`); while nothing was
written since the last listing, what it found empty is empty (`StillEmpty`), which is why the
trashing pins the library's version too and why the theorem asks for `~OnCloud`; what the preview
showed and the merge has not seen change stands (`AsApproved`). `MayDo` collects what a step
of the merge may then do to the library; a user's step is told from it by the count of edits.

*Import.* `ImportInv`: what the local API is yet to be sent (`rest`) has not been saved, so no
request of it saves an entry twice; a route that is tried after it finds saved at most what
the local API had taken when it broke off (`broke`), and saves each once more; blank entries
are never among those a route takes.

*OwnWords.* `CensusHonest`: a census that is whole says of each note that stood still since the
job began what it now is. `WordsInv` adds where a job has got to: what it has refreshed, and
what its stamp will not name again, is as the census says. A note that moves takes its words
out of the index under its old item, and its new item is not named for it: such notes are in
`lost` until they are read again, and `LostIsLost` says that the index has no words of theirs,
in memory or in what a roll-back brings back.

*BodyText.* `LossInv`: what an update has taken out of the index and not put back belongs to
an item it refreshed, over an index it marked as partial or without being asked for full
text, or waits for the catch-up (`LossOwned`); and a whole map names all that was extracted, so
an empty answer to a read means that there is no text. `CursorInv`: a cursor is earned by a pass
that held every attachment up to the version it opened with, or by an update whose delta and
catch-up together named everything later than the cursor before it (`PassCovers`,
`DeltaCovers`, `CatchUpCovers`), and all of it was read, save what is in `forgone`: the text of
an item that was refreshed without it, and text extracted between the delta's reads and the
probe.

What the library of a merge holds at first and which item an attachment hangs off are given by
the run (`Libraries`, `Parent`); the proofs use only their types.

*OAuthGrants.* A consent is in one place at a time: on its way, pending, a code, or spent. Every
store (memory, file, the snapshots queued between) is sound, and each is no older than the
one it replaces; the last chained write stands for what memory holds when it settles.

*IndexCommands* (`CommandProofs`). `CommandInv` has two halves. `ServedInv` is about what
serves calls. A library's path is told by the one the registry takes for the original's, which
changes only with a start, so a job is on its library's path (`JobsOK`) and a row has its
file's stamp or came without one (`FilesOK`); both are said of the file and of what a job last
committed (`Copies`), because that is what a start finds. A hold in memory is the one on disk,
and while it is moved it stands (`HoldOK`), so the hold on disk is never ahead of the one that
stops jobs. A file beside the original gets rows only of a library that was named or restored,
or that the original neither holds nor is there to hold under the stamp it has (`Apart`,
`ChosenOK`): with an unstamped original anything may be in it. `ExitOK` is about the command:
its one call watches every index on which a job runs or has ended (`Watches`), by status calls
that nothing can refuse, because the job's library was readable when it started, its file is
there and its stamp is that library's. So the last answer it had is of the job's end. A step
of one call and a step of a job disturb different parts of both halves; `CallMoves`,
`IndexMoves`, `CallStepExit` and `JobStepExit` say which, once for all actions.

*Only model-checked.* Liveness under fairness (`CatchesUp`, `AppNoticed`, `ReadsGoOn`,
`EverythingEnds`, `CallsEnd`): the prover handles neither fairness nor ENABLED. Also, not for
reasons of principle: `RowsHonest` and `MissesOnlyRecounted`, `SearchesHonest`, `ListingsHonest`,
`AnswersHonest`. Induction over data is out of the prover's reach: what a fold computes for
every input stays with TLC.

## Findings

Each is a run that TLC finds violated, and an entry in `PROJECT.json` with the quoted text.

| Run | What the code does | Lines |
|---|---|---|
| `registry_repairs` | a second repair of an unreadable index deletes the file the first has begun to build | `features/search/repair.ts:52` |
| `merge_cloud` | the cloud client sends no library version with a batch of versioned objects, so a child that moves onto a duplicate after the last listing is trashed with it | `api/web-client.ts:659` |
| `usage_rollups` | pruning cuts inside a day, and the next rollup replaces that day's by one of the rows left | `lib/usage/store.ts:285` |

## What the assumptions hide

The passing runs set some constants to exclude what the code does not guard against. Turning
one on makes TLC find a violation of the property named; those that contradict no sentence
of the repository, or did not fit the number of runs kept, are listed here.

| Constant or instance | Violates | Because |
|---|---|---|
| `RemovesDuringJobs = TRUE` (`IndexJob`) | `StampHonest` | the crawl advances by position (`index-manager.ts:1598`): an item that slides forward over a page boundary is neither read nor named by the next delta |
| `PausesDuringJobs = TRUE` | `StampHonest` | a pause commits the open transaction |
| `ResumesElsewhere = TRUE`, two APIs | `StampHonest` | one API's version under the name of the other |
| `RemovesUnsynced = TRUE` (`LocalRouting`) | `ReadYourWrites` | an object gone from the cloud retires the override of every earlier write |
| `EditsUnsynced`, `SyncOverlaps`, `ReportsOverlap` | `ReadYourWrites` | a version moves without the write having come over |
| groups listed by an app that is opening (`LocalStatus`) | groups learned at last | a failed listing is recorded as a known empty one (`local-client.ts:711`, against `local-status.ts:190`) |
| `SearchesElsewhere = TRUE` (`VectorCodes`) | codes describe vectors | a search over several libraries never reads the other process's codes |
| `Interrupted = TRUE` (`StoreOpening`) | `OneLibrary` | a JSON index is taken over without its library's name, so a build for another library resumes it (`sqlite-index.ts`, `importJson`) |
| `Tick`'s two bounds, `ScanKeepsUp` (`UsageLog`) | `CountedBeforePruned` | a row another process writes after a rollup read the table is pruned with it, if it is old or crowded out by then (`store.ts:288`): by more than a day in a buffer, by a rollup of the retention's length, or by more rows than the table may hold |
| `SecondCrawlChosen` without its ghost `restored` (`IndexCommands`) | itself | a named build clears the original file in a transaction that its first page commits; meanwhile a plain build of the default library finds no rows there, is not refused and fills the sibling; if the program ends before that commit the original holds the library again, and every later plain call crawls on in the sibling (`index-manager.ts:1315`, against `index-tool.ts:155`) |

Some things are left out by the form of an action, with no constant to turn:

* The lease of a running job does not age (`LeaseAges` of `SharedStore`). The code beats it only
  where it commits (`sqlite-index.ts:272`, `:2389`), so a job that commits nothing for the margin
  of its operation could be taken over while it works.
* `Initialize` of `HttpSessions` is one step; the code awaits the factory before it begins to
  count the response (`http.ts:236`). A response closed in between is counted and never uncounted, and its
  session is not swept.
* A search takes its total after its await, from the index as it then is
  (`index-manager.ts:3184`); `Retrieval` takes rows and total together.
* An attachment that is moved takes its annotations to another item without a version of theirs moving
  (`index-manager.ts:2733`); in `OwnWords` what moves is the note itself.

Other exceptions are part of a property, and a ghost says what it excepts: `again` and `twice` (`PassageStore`), vectors counted
twice, and rows an update put back twice (`RowsHonest`, `MissesOnlyRecounted`); `forgone` and `vouched` (`BodyText`), `lost` and `owed` (`OwnWords`);
`broke` and `before`, what a save or a create repeats by the next route; a text whose
append was answered 503 too late (`late`, `CloudWrites`). What the code does in these cases, and which of its sentences speaks
against it, is in the list that follows.

Observed while modelling, outside any property that is checked, or excepted by one:

* *Index jobs.* "Nothing is persisted until the update has fully succeeded"
  (`index-manager.ts:1880`): a shutdown, a stop or a pause in the middle of one commits what
  it has written (`sqlite-index.ts:2453`); the stamp stays, so the next update reads that again
  (`StampMovesLast`). The in-memory store's failed update says "nothing was written" though
  the shutdown save writes what it did (`index-manager.ts:2313`).
* *Vectors.* "Each passage is embedded once per build, so a changed row is a new vector"
  (`sqlite-index.ts:1675`): not so after a kill. Vectors are committed before each embedding request
  (`sqlite-index.ts:2403`, `index-manager.ts:2921`), later than the checkpoint that lists their
  passages; the resumed build asks for them again (`index-manager.ts:1521`), each is counted
  twice, and a build that lacks as many vectors elsewhere is stamped as whole. TLC violates
  `StampedWhole` of `PassageStore` in 18 steps. An update whose deferred embedding fails leaves
  passages without vectors in a stamped index, says so, and only a build fills the gap.
* *Catch-ups.* An update that is not asked for full text, the default, replaces a changed item
  without its body text, and neither stamp nor cursor names it again
  (`index-manager.ts:1912`, `:2041`, `:2093`). Text extracted between a delta's reads and the probe is in neither
  (`index-manager.ts:2569`, `:2379`). A note that moves leaves the index with its old item
  (`index-manager.ts:2733`). An index without own words "fills its gap,
  once, on its first update" (`index-tool.ts:286`): not if that update refreshed an item with a note,
  whose words are in the index when the catch-up asks whether it holds any
  (`index-manager.ts:2714`, `:2754`); the other items' words are then never read (TLC violates
  `GapFilled` of `OwnWords` in 12 states). A degraded census is stamped, and its notice
  cleared by the next update; deleting the only note of an item withholds the stamp.
* *Embedder.* "Anything still waiting on a batch is told so" (`embeddings.ts:855`): a call that
  is between two batches waits on none. Its worker's end clears what is pending
  (`embeddings.ts:786`), the call then posts its next batch to the thread that is gone (`:803`, `:879`) and
  is never answered (TLC violates `NobodyWaits`).
* *Searches.* A rebuild started while the query is embedded makes a search answer "No matches".
  `combinedSearch` never calls `syncFromStore`. `buildCodes` failing after `begin()` leaves
  `inTransaction` set.
* *Index commands.* An unnamed call during the first page of a refresh of the original file is
  not refused. Deleting the original after a named sibling was built orphans the sibling. An
  unreadable index's hold is lost on repair. The comment "no cross-process lock" in
  `cli/index-command.ts` predates the lease.
* *Writes.* `deleteByKeys` sends one library version with every batch of fifty, so the second
  is refused after the first was purged. Earlier batches of a failing `postArray` go
  unreported. `landed` is set when a call returns, not with its first request
  (`library-writer.ts:107`, against its `:46`), so a create of more than fifty objects
  (`local-writes.ts:382`) whose second request finds the app without writes creates the first fifty
  on the cloud too. An append is doubled if a 503 follows a PATCH that landed. An attachment whose upload
  fails stays as an empty item.
* *Merge, import.* A merge with `expect_versions` replans and writes a master that moved
  (`merge-items.ts:446`). `dc:replaces` names duplicates that were left out of the trash. A save
  that breaks off after its first fifty entries sends all of them by the next route
  (`import.ts:712`, `local-writes.ts:382`, against `import.ts:826`).
* *Sessions, fetcher.* The drain does not cover a session whose initialize is arriving. The
  fetcher does not look again at a backoff that was extended while it slept one out. In
  `index.ts`, a rejected flush of the OAuth store skips the flush of the indexes.
* *Usage log.* `RetentionDays` of one shrinks yesterday's report; a rollup's SELECT stands
  outside its transaction.
* *Documents.* Following `page_range` after a capped OCR leaves the pages beyond unnamed. An
  engine's start has no deadline and holds the OCR gate. Pages with only tiny or dropped images are
  reported as "drawn as vectors".

## What is left out

* In `IndexJob`: passages (an item is one; `PassageStore` has three), the two catch-ups
  (`BodyText`, `OwnWords`), other processes (`SharedStore`), text itself.
* In `IndexRegistry`: `saveAll` and `list`'s wording; every save is part of a release.
* In `LocalRouting`: several libraries (they share no state), pinned reads, group permission.
* In `LocalStatus`: the wording of outcomes; the startup probe's three attempts are the
  initial states they can end in.
* In `OAuthGrants`: request signing, page markup, client metadata documents (`lib/cimd.ts`)
  and what the SDK checks (redirect URIs, the verifier: `RefuseExchange`).
* Whole: the parsers of documents and citations (`features/notes/markdown.ts`, BibTeX, RIS,
  LaTeX), scholar lookups, `lib/update-check.ts`, configuration. They compute a result from
  their input and keep no state between calls.
* Hazards without a property say why in `PROJECT.json`.

## Plan

1. Done: the modules above, their runs, and eight modules of proofs.
2. Next proofs: `RowsHonest` and `MissesOnlyRecounted`, `SearchesHonest`, then `AnswersHonest`.
3. Abstract specifications still worth stating: the index as a lagging snapshot of its
   library, which `IndexJob` refines; a consent as a one-shot grant with one heir, which
   `OAuthGrants` refines.
