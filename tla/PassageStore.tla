---------------------------- MODULE PassageStore ----------------------------
(***************************************************************************)
(* What an index job does to the passages of a store, and the queue of     *)
(* those that wait for the embedding model (features/search/               *)
(* index-manager.ts, with the SQLite store and the one in memory).  An     *)
(* item has up to three passages, its metadata, its body and its notes,    *)
(* whose ids stay the same when their text changes; counters and the set   *)
(* of items with a body are kept beside the rows and adjusted by hand.     *)
(* The SQLite store can roll back and embeds an update's passages after    *)
(* its delta is committed; the one in memory embeds as it goes.            *)
(***************************************************************************)
EXTENDS Naturals, SequencesExt

CONSTANTS
  Items,
  BatchSize,   \* passages in a request to the model
  Wordless,    \* items that have no notes
  Bodiless,    \* items that have no attachment with text
  Salvaged,    \* items whose first text has a vector in a salvaged index
  Relisted,    \* bound: items that one listing of an update may bring twice, once each
  MaxText,     \* bound on the edits of an item
  MaxJobs,
  None

VARIABLES
  kind,      \* which store this is
  text,      \* the library: the version of each item's text
  store,     \* rows, vectors, items and what is counted beside them
  saved,     \* the store, checkpoint and stamp as last committed, or as the file has them
  check,     \* the checkpoint: passages that awaited their vectors; None without one
  stamped,   \* the library version is recorded, so updates will do
  job,       \* what runs, its pass, whether that pass has come to its end
  pending,   \* passages queued for embedding, with the text they were queued with
  asked,     \* those of the request under way
  done,      \* items an update has written
  embedder,  \* FALSE once a request failed, until the next job
  jobs,
  again,     \* history: passages given a vector they had, since the vectors were last counted
  twice      \* history: items that one update took out and put back twice

passageVars ==
  <<kind, text, store, saved, check, stamped, job, pending, asked, done, embedder, jobs, again, twice>>

Parts == {"meta", "body", "words"}
Ids == Items \X Parts
Nothing == [id \in Ids |-> None]
EmptyStore ==
  [row |-> Nothing, vec |-> Nothing, item |-> {}, documents |-> 0, vectors |-> 0, bodies |-> 0, withBody |-> {}]
Idle == [is |-> "none", pass |-> "none", drains |-> FALSE]

Held(s) == {id \in Ids : s.row[id] # None}
Vectored(s) == {id \in Ids : s.vec[id] # None}
Of(i, parts) == {id \in Ids : id[1] = i /\ id[2] \in parts}
Bodies(S) == {id \in S : id[2] = "body"}

\* refreshCounts, and what loadFromJSON counts as it puts the passages back.
Recounted(s) ==
  [s EXCEPT !.documents = Cardinality(Held(s)), !.vectors = Cardinality(Vectored(s)),
            !.bodies = Cardinality(Bodies(Held(s))), !.withBody = {id[1] : id \in Bodies(Held(s))}]

PassageInit ==
  /\ kind \in {"sqlite", "memory"}
  /\ text = [i \in Items |-> 1]
  /\ store = EmptyStore /\ check = None /\ stamped = FALSE
  /\ saved = [store |-> store, check |-> check, stamped |-> stamped]
  /\ job = Idle /\ pending = <<>> /\ asked = <<>> /\ done = {} /\ embedder = TRUE /\ jobs = 0
  /\ again = {} /\ twice = {}

Saves(s, c, st) == saved' = [store |-> s, check |-> c, stamped |-> st]

------------------------------------------------------------------------------
(* The store's operations.                                                 *)

\* putPassage: a second copy of an id is stepped over.
Put(s, ids, t) ==
  LET new == ids \ Held(s) IN
    [s EXCEPT !.row = [id \in Ids |-> IF id \in new THEN t ELSE s.row[id]],
              !.item = @ \cup {id[1] : id \in ids},
              !.documents = @ + Cardinality(new),
              !.bodies = @ + Cardinality(Bodies(new)),
              !.withBody = @ \cup {id[1] : id \in Bodies(new)}]

Without(s, ids) ==
  LET gone == ids \cap Held(s) IN
    [s EXCEPT !.row = [id \in Ids |-> IF id \in gone THEN None ELSE s.row[id]],
              !.vec = [id \in Ids |-> IF id \in gone THEN None ELSE s.vec[id]],
              !.documents = @ - Cardinality(gone),
              !.vectors = @ - Cardinality(gone \cap Vectored(s)),
              !.bodies = @ - Cardinality(Bodies(gone))]

\* Seeded fault: the item stays among those that have a body.
ClearBody_Listed(s, i) == Without(s, Of(i, {"body"}))

\* clearFulltext, clearOwnWords and deleteItem.
ClearBody(s, i) == [Without(s, Of(i, {"body"})) EXCEPT !.withBody = @ \ {i}]
ClearWords(s, i) == Without(s, Of(i, {"words"}))
DeleteItem(s, i) == [Without(s, Of(i, Parts)) EXCEPT !.withBody = @ \ {i}, !.item = @ \ {i}]

\* putVector: the SQLite store counts every row it changes, the other holds a map.
PutVector(s, rec) ==
  IF kind = "sqlite"
  THEN IF s.row[rec.id] = None THEN s ELSE [s EXCEPT !.vec[rec.id] = rec.text, !.vectors = @ + 1]
  ELSE [s EXCEPT !.vec[rec.id] = rec.text, !.vectors = @ + (IF s.vec[rec.id] = None THEN 1 ELSE 0)]

\* Seeded fault: the salvaged index answers by id alone.
Salvages_ById(id, t) == kind = "sqlite" /\ id[1] \in Salvaged

\* The salvaged index has a vector under this id, of this text.
Salvages(id, t) == kind = "sqlite" /\ id[1] \in Salvaged /\ t = 1

\* Listed with one text, or with the text each has in s.
Texted(ids, t) == LET q == SetToSeq(ids) IN [k \in DOMAIN q |-> [id |-> q[k], text |-> t]]
Records(s, ids) == LET q == SetToSeq(ids) IN [k \in DOMAIN q |-> [id |-> q[k], text |-> s.row[q[k]]]]

\* adoptVector.
Adopted(s, ids, t) == FoldLeft(PutVector, s, Texted({id \in ids : Salvages(id, t)}, 1))

\* addMetadata, addFulltext, addOwnWords: what is new is stored, and queued unless it
\* was adopted.  The queue is what follows the store in the pair.
Added(s, ids, t) ==
  LET new == ids \ Held(s)
      s2 == IF embedder THEN Adopted(Put(s, ids, t), new, t) ELSE Put(s, ids, t)
  IN  <<s2, IF embedder THEN pending \o Records(s2, new \ Vectored(s2)) ELSE pending>>

Writes(added) == store' = added[1] /\ pending' = added[2]

------------------------------------------------------------------------------
(* A job: the passes it goes through, each draining the queue at its end.  *)

In(what, pass) == job.is = what /\ job.pass = pass /\ ~job.drains /\ asked = <<>>

\* A build starts over, or carries on from a checkpoint, whose passages are queued again.
StartBuild ==
  /\ job = Idle /\ jobs < MaxJobs /\ jobs' = jobs + 1
  /\ job' = [is |-> IF check = None THEN "build" ELSE "resumed", pass |-> "items", drains |-> FALSE]
  /\ store' = IF check = None THEN EmptyStore ELSE store
  /\ pending' = IF check = None THEN <<>> ELSE Records(store, check \cap Held(store))
  /\ stamped' = FALSE /\ embedder' = TRUE /\ done' = {}
  /\ again' = IF check = None THEN {} ELSE again
  /\ UNCHANGED <<kind, text, saved, check, asked, twice>>

StartUpdate ==
  /\ job = Idle /\ stamped /\ jobs < MaxJobs /\ jobs' = jobs + 1
  /\ job' = [is |-> "update", pass |-> "changed", drains |-> FALSE]
  /\ pending' = <<>> /\ embedder' = TRUE /\ done' = {}
  /\ UNCHANGED <<kind, text, store, saved, check, stamped, asked, again, twice>>

IsBuild == job.is \in {"build", "resumed"}

\* indexItem: an item and its own words, in a savepoint.
IndexItem(i, words) ==
  /\ In(job.is, "items") /\ IsBuild /\ i \notin store.item
  /\ Writes(Added(store, Of(i, IF words THEN {"meta", "words"} ELSE {"meta"}), text[i]))
  /\ UNCHANGED <<kind, text, saved, check, stamped, job, asked, done, embedder, jobs, again, twice>>

\* What of the queue the checkpoint lists.
Checkpoint == {pending[k].id : k \in DOMAIN pending}

Ended ==
  job' = Idle /\ pending' = <<>> /\ asked' = <<>>

\* The insert fails: the item is rolled back to the savepoint, its passages leave the
\* queue, and the build ends with the whole items it has.
IndexItemFails(i) ==
  /\ In(job.is, "items") /\ IsBuild /\ i \notin store.item /\ kind = "sqlite"
  /\ store' = Recounted(store) /\ again' = {}
  /\ check' = Checkpoint
  /\ Saves(store', check', stamped)
  /\ Ended
  /\ UNCHANGED <<kind, text, stamped, done, embedder, jobs, twice>>

\* indexFulltext.
IndexBody(i) ==
  /\ In(job.is, "texts") /\ IsBuild /\ i \in store.item \ (store.withBody \cup Bodiless)
  /\ Writes(Added(store, Of(i, {"body"}), text[i]))
  /\ UNCHANGED <<kind, text, saved, check, stamped, job, asked, done, embedder, jobs, again, twice>>

\* restorePassages: put back as they were, and queued whether or not they were embedded.
Restored(added, old) ==
  LET s == [added[1] EXCEPT !.row = [id \in Ids |-> IF id \in Held(old) THEN old.row[id] ELSE @[id]]]
      s2 == [Recounted(s) EXCEPT !.vectors = added[1].vectors]
      s3 == IF embedder THEN Adopted(s2, {id \in Held(old) : old.row[id] = 1}, 1) ELSE s2
  IN  <<s3, IF embedder THEN added[2] \o Records(s3, Held(old) \ Vectored(s3)) ELSE added[2]>>

\* An item the library changed, taken out and put back: what of it could not be read
\* comes back as it was, what it no longer has does not.  A listing that shifts under the
\* update brings it a second time.
Replace(i, given, unread) ==
  LET old == [store EXCEPT !.row = [id \in Ids |-> IF id \in Of(i, unread) THEN store.row[id] ELSE None]]
  IN
  /\ In("update", "changed") /\ (i \in done => i \in Relisted \ twice)
  /\ Writes(Restored(Added(DeleteItem(store, i), Of(i, {"meta"} \cup given), text[i]), old))
  /\ done' = done \cup {i}
  /\ twice' = twice \cup ({i} \cap done)
  /\ UNCHANGED <<kind, text, saved, check, stamped, job, asked, embedder, jobs, again>>

\* fulltextCatchUp, ownWordsCatchUp: items the delta did not bring; what was read may
\* come to no passage.
CatchUpBody(i, given) ==
  /\ In("update", "bodies") /\ i \in store.item \ done
  /\ Writes(Added(ClearBody(store, i), Of(i, given \cap {"body"}), text[i]))
  /\ done' = done \cup {i}
  /\ UNCHANGED <<kind, text, saved, check, stamped, job, asked, embedder, jobs, again, twice>>

CatchUpWords(i, given) ==
  /\ In("update", "words") /\ i \in store.item \ done
  /\ Writes(Added(ClearWords(store, i), Of(i, given \cap {"words"}), text[i]))
  /\ done' = done \cup {i}
  /\ UNCHANGED <<kind, text, saved, check, stamped, job, asked, embedder, jobs, again, twice>>

Reconcile(i) ==
  /\ In("update", "removed") /\ i \in store.item
  /\ store' = DeleteItem(store, i)
  /\ UNCHANGED <<kind, text, saved, check, stamped, job, pending, asked, done, embedder, jobs, again, twice>>

\* A pass has come to its end, and drains the queue.
PassEnds ==
  /\ job # Idle /\ ~job.drains /\ asked = <<>>
  /\ job' = [job EXCEPT !.drains = TRUE]
  /\ UNCHANGED <<kind, text, store, saved, check, stamped, pending, asked, done, embedder, jobs, again, twice>>

\* On the SQLite store an update's passages wait until its delta is committed.
Defers == kind = "sqlite" /\ job.is = "update" /\ job.pass # "embed"
Drained == job.drains /\ asked = <<>> /\ (pending = <<>> \/ Defers)

NextPass ==
  /\ Drained /\ job.pass \in {"items", "changed", "bodies", "removed"}
  /\ job' = [job EXCEPT !.drains = FALSE,
                        !.pass = CASE job.pass = "items" -> "texts" [] job.pass = "changed" -> "bodies"
                                   [] job.pass = "bodies" -> "removed" [] job.pass = "removed" -> "words"]
  /\ IF IsBuild THEN check' = Checkpoint /\ Saves(store, check', stamped) ELSE UNCHANGED <<saved, check>>
  /\ UNCHANGED <<kind, text, store, stamped, pending, asked, done, embedder, jobs, again, twice>>

\* maybePersist, between two items of a build.
Persist ==
  /\ IsBuild /\ asked = <<>>
  /\ check' = Checkpoint /\ Saves(store, check', stamped)
  /\ UNCHANGED <<kind, text, store, stamped, job, pending, asked, done, embedder, jobs, again, twice>>

\* embedPending: yieldWriteLock commits what there is before the request, checkpoint or not.
Request ==
  /\ pending # <<>> /\ asked = <<>> /\ embedder /\ ~Defers
  /\ Len(pending) >= BatchSize \/ job.drains
  /\ LET n == IF Len(pending) < BatchSize THEN Len(pending) ELSE BatchSize IN
       asked' = SubSeq(pending, 1, n) /\ pending' = SubSeq(pending, n + 1, Len(pending))
  /\ IF kind = "sqlite" THEN Saves(store, check, stamped) ELSE UNCHANGED saved
  /\ UNCHANGED <<kind, text, store, check, stamped, job, done, embedder, jobs, again, twice>>

Answer ==
  /\ asked # <<>> /\ asked' = <<>>
  /\ store' = FoldLeft(PutVector, store, asked)
  /\ again' = IF kind = "sqlite" THEN again \cup ({asked[k].id : k \in DOMAIN asked} \cap Vectored(store)) ELSE again
  /\ UNCHANGED <<kind, text, saved, check, stamped, job, pending, done, embedder, jobs, twice>>

\* noteEmbedFailure: nothing more is queued in this job.
RequestFails ==
  /\ asked # <<>> /\ asked' = <<>>
  /\ embedder' = FALSE /\ pending' = <<>>
  /\ UNCHANGED <<kind, text, store, saved, check, stamped, job, done, jobs, again, twice>>

Missing(s) == Held(s) \ Vectored(s)

\* Seeded fault: what an earlier run left without vectors is left so.
Shortfall_None == FALSE

Shortfall == store.documents > store.vectors

\* backfillVectors, at the end of a build that was resumed.
Backfill ==
  /\ job.is = "resumed" /\ job.pass = "texts" /\ Drained /\ embedder
  /\ Shortfall /\ Missing(store) # {}
  /\ pending' = Records(store, Missing(store))
  /\ UNCHANGED <<kind, text, store, saved, check, stamped, job, asked, done, embedder, jobs, again, twice>>

\* A build is stamped unless its vectors are incomplete, in which case it can be resumed.
FinishBuild ==
  /\ IsBuild /\ job.pass = "texts" /\ Drained
  /\ job.is = "resumed" /\ embedder => ~Shortfall \/ Missing(store) = {}
  /\ stamped' = embedder
  /\ check' = IF embedder THEN None ELSE {}
  /\ Saves(store, check', stamped')
  /\ Ended
  /\ UNCHANGED <<kind, text, store, done, embedder, jobs, again, twice>>

\* embedDeferred: each passage once, with the text it has now.
Deferred == Records(store, Checkpoint \cap Held(store))

\* The delta is persisted; the SQLite store embeds what was deferred.
DeltaDone ==
  /\ job.is = "update" /\ job.pass = "words" /\ Drained
  /\ Saves(store, check, stamped)
  /\ IF kind = "sqlite"
     THEN /\ job' = [job EXCEPT !.pass = "embed"] /\ pending' = Deferred /\ UNCHANGED asked
     ELSE Ended
  /\ UNCHANGED <<kind, text, store, check, stamped, done, embedder, jobs, again, twice>>

FinishUpdate ==
  /\ job.is = "update" /\ job.pass = "embed" /\ Drained
  /\ Saves(store, check, stamped)
  /\ Ended
  /\ UNCHANGED <<kind, text, store, check, stamped, done, embedder, jobs, again, twice>>

\* The user stops the job, or a build fails between two items: what is there is kept.
Stop ==
  /\ job # Idle /\ asked = <<>>
  /\ check' = IF IsBuild THEN Checkpoint ELSE check
  /\ Saves(store, check', stamped)
  /\ Ended
  /\ UNCHANGED <<kind, text, store, stamped, done, embedder, jobs, again, twice>>

\* An update fails: the SQLite store goes back to what is committed, the other cannot.
UpdateFails ==
  /\ job.is = "update"
  /\ store' = IF kind = "sqlite" THEN Recounted(saved.store) ELSE store
  /\ again' = {}
  /\ Ended
  /\ UNCHANGED <<kind, text, saved, check, stamped, done, embedder, jobs, twice>>

\* The process is killed and started again.
Kill ==
  /\ job # Idle
  /\ store' = Recounted(saved.store) /\ again' = {} /\ check' = saved.check /\ stamped' = saved.stamped
  /\ Ended
  /\ UNCHANGED <<kind, text, saved, done, embedder, jobs, twice>>

Edit(i) ==
  /\ text[i] < MaxText
  /\ text' = [text EXCEPT ![i] = @ + 1]
  /\ UNCHANGED <<kind, store, saved, check, stamped, job, pending, asked, done, embedder, jobs, again, twice>>

PassageNext ==
  \/ StartBuild \/ StartUpdate
  \/ \E i \in Items :
       \/ \E words \in BOOLEAN : (words => i \notin Wordless) /\ IndexItem(i, words)
       \/ IndexItemFails(i) \/ IndexBody(i) \/ Reconcile(i)
       \/ \E given \in {{}, {"body"}} : i \notin Bodiless /\ CatchUpBody(i, given)
       \/ \E given \in {{}, {"words"}} : i \notin Wordless /\ CatchUpWords(i, given)
       \/ \E given, unread \in SUBSET {"body", "words"} : 
            /\ given \cap unread = {}
            /\ (i \in Wordless => "words" \notin given) /\ (i \in Bodiless => "body" \notin given)
            /\ Replace(i, given, unread)
       \/ Edit(i)
  \/ PassEnds \/ NextPass \/ Persist \/ Request \/ Answer \/ RequestFails
  \/ Backfill \/ FinishBuild \/ DeltaDone \/ FinishUpdate \/ Stop \/ UpdateFails \/ Kill

PassageSpec == PassageInit /\ [][PassageNext]_passageVars

------------------------------------------------------------------------------

\* What is counted beside the rows is what counting them gives (sqlite-index.ts:1526,
\* index-manager.ts:3384): the counters decide which items are read again and what a
\* resumed build embeds.  Vectors alone are counted too many, one for each passage whose
\* vector the SQLite store was given a second time (sqlite-index.ts:1674).
CountsExact ==
  LET counted == Recounted(store) IN
  store = [counted EXCEPT !.vectors = @ + Cardinality(again)]

\* A stored vector stands beside its passage, and is of the text that passage has, which
\* jobs take out and put back under the same id while the old text waits in the queue or
\* in a request (index-manager.ts:2921).  The store in memory may keep the first text's
\* vector of an item that one update took out and put back twice.
VectorOfText == \A id \in Vectored(store) : store.vec[id] = store.row[id] \/ (kind = "memory" /\ id[1] \in twice)

PassagesHonest == CountsExact /\ VectorOfText

\* A build that records its version, resumed or not, misses no more vectors than it counted
\* twice, and it counts one twice only when it asked for vectors it had: no later update
\* would come back for what is missing (index-manager.ts:1486, :1734).
MissesOnlyRecounted ==
  [][~stamped /\ stamped' => Cardinality(Missing(store')) <= Cardinality(again')]_passageVars

\* What the counters are there for: a build that records its version leaves no passage
\* without its vector.  After a kill it may (index-manager.ts:1521, sqlite-index.ts:1675).
StampedWhole == [][~stamped /\ stamped' => Missing(store') = {}]_passageVars
=============================================================================
