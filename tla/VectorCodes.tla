---------------------------- MODULE VectorCodes ----------------------------
(***************************************************************************)
(* The binary codes of a SQLite index (features/search/sqlite-index.ts):   *)
(* one per stored vector, kept by row id beside it, centred on a stored    *)
(* mean of one width, and held in memory by every process that searches.   *)
(* Two processes share the file; one of them may run a build or an update. *)
(* A code only says where to look: a wrong one loses results in silence.   *)
(* A vector is known by the text it embeds and its width, 0 for none.      *)
(***************************************************************************)
EXTENDS Integers, FiniteSets

CONSTANTS
  Procs,
  Texts,            \* numbers, for the texts of passages
  MaxPid,           \* bound on row ids
  Widths,           \* what the embedding model may produce
  MinCandidates,    \* annMinCandidates: up to here every vector is scanned
  SearchesElsewhere,\* a search may build codes while the other process runs a job
  MaxSteps,         \* bound on jobs started and requests asked
  MaxFaults,
  None

\* There is a text for every row id.
TextsAssumption == 1..MaxPid \subseteq Texts

VARIABLES
  db,      \* what is committed: rows, codes, the width of the mean, whether it was built
  view,    \* what each process sees inside its transaction; None outside one
  proc,    \* what each process remembers
  missed,  \* a search did not look at a vector that was there all along
  model,   \* the width the embedder produces now
  steps, faults

codesVars == <<db, view, proc, missed, model, steps, faults>>

Pids == 1..MaxPid
NoCodes == [p \in Pids |-> None]
Fresh == [row |-> [p \in Pids |-> None], code |-> NoCodes, mean |-> 0, complete |-> FALSE]

Stored(d) == {p \in Pids : d.row[p] # None}
Embedded(d) == {p \in Stored(d) : d.row[p].width # 0}
Coded(d) == {p \in Pids : d.code[p] # None}
Lowest(S) == CHOOSE p \in S : \A q \in S : p <= q
Highest(S) == CHOOSE p \in S : \A q \in S : q <= p

\* An index of a version that had no codes.
Uncoded ==
  [Fresh EXCEPT !.row = [p \in Pids |-> [text |-> p, width |-> Lowest(Widths)]], !.complete = TRUE]

\* vectorDimension: of the first row that has one.
Dimension(d) == IF Embedded(d) = {} THEN 0 ELSE d.row[Lowest(Embedded(d))].width

Sees(p) == IF view[p] = None THEN db ELSE view[p]

\* invalidateCodes: what was loaded and what was said about it.
Forgets(x) == [x EXCEPT !.cache = None, !.unusable = FALSE]

\* Seeded fault: what others wrote is counted, and the codes loaded before are kept.
Reread_Counts(x, d) ==
  [x EXCEPT !.n = Cardinality(Embedded(d)), !.has = Coded(d) # {}, !.stale = FALSE]

\* refreshCounts.
Reread(x, d) ==
  [Forgets(x) EXCEPT !.n = Cardinality(Embedded(d)), !.has = Coded(d) # {}, !.stale = FALSE]

Opened(d) ==
  Reread([n |-> 0, has |-> FALSE, cache |-> None, unusable |-> FALSE, stale |-> FALSE,
          job |-> "none", asked |-> None], d)

\* refreshFromStore: not over a transaction or a job of its own.
Synced(p) ==
  IF proc[p].stale /\ view[p] = None /\ proc[p].job = "none" THEN Reread(proc[p], db) ELSE proc[p]

CodesInit ==
  /\ db \in {Fresh, Uncoded} /\ view = [p \in Procs |-> None]
  /\ proc = [p \in Procs |-> Opened(db)]
  /\ missed = FALSE
  /\ model = Lowest(Widths)
  /\ steps = 0 /\ faults = 0

All(d) == {<<q, d.row[q]>> : q \in Embedded(d)}

\* Of the vectors a search found stored when it was asked, those that are still there.
Still(x, d) == IF x.asked = None THEN x ELSE [x EXCEPT !.asked = @ \cap All(d)]

\* SQLite lets one connection write at a time.
MayWrite(p) == \A q \in Procs \ {p} : view[q] = None

\* p writes d in the transaction it is in or begins.
Writes(p, d, x) ==
  /\ MayWrite(p)
  /\ view' = [view EXCEPT ![p] = d]
  /\ proc' = [proc EXCEPT ![p] = Still(x, d)]
  /\ UNCHANGED db

\* p ends its transaction with d committed, which the other connections can tell.
Commits(p, d, x) ==
  /\ MayWrite(p)
  /\ db' = d
  /\ view' = [view EXCEPT ![p] = None]
  /\ proc' = [q \in Procs |-> IF q = p THEN Still(x, d)
                              ELSE IF d # db THEN [Still(proc[q], d) EXCEPT !.stale = TRUE]
                              ELSE proc[q]]

Ends(p, x) ==
  /\ UNCHANGED db
  /\ view' = [view EXCEPT ![p] = None]
  /\ proc' = [proc EXCEPT ![p] = Still(x, db)]

------------------------------------------------------------------------------
(* Jobs, one at a time by the lease: a build that empties the index or     *)
(* carries on where one stopped, or an update, whose delta is one          *)
(* transaction and whose passages are embedded afterwards.                 *)

StartJob(p, kind) ==
  /\ steps < MaxSteps /\ steps' = steps + 1
  /\ \A q \in Procs : proc[q].job = "none"
  /\ kind = "build" \/ Sees(p).complete = (kind = "update")
  /\ LET x == [Synced(p) EXCEPT !.job = IF kind = "update" THEN "delta" ELSE "build"] IN
       IF kind = "build"
       THEN Writes(p, Fresh, [Forgets(x) EXCEPT !.n = 0, !.has = FALSE])
       ELSE Commits(p, Sees(p), x)
  /\ UNCHANGED <<missed, model, faults>>

\* Seeded fault: the passages are deleted, and their codes looked for afterwards.
Without_RowFirst(d, pid, has) == [d EXCEPT !.row[pid] = None]

Without(d, pid, has) ==
  [d EXCEPT !.row[pid] = None, !.code[pid] = IF has THEN None ELSE @]

\* deleteItem, and clearFulltext and clearOwnWords in the catch-ups: only an update deletes.
Delete(p, pid) ==
  /\ proc[p].job = "delta"
  /\ pid \in Stored(Sees(p))
  /\ LET e == Without(Sees(p), pid, proc[p].has) IN
       Writes(p, e, [Forgets(proc[p]) EXCEPT !.n = @ - (IF Sees(p).row[pid].width # 0 THEN 1 ELSE 0)])
  /\ UNCHANGED <<missed, model, steps, faults>>

\* putPassage: the row id after the highest one, which a deletion may have freed.
Put(p, t) ==
  LET d == Sees(p)
      pid == IF Stored(d) = {} THEN 1 ELSE Highest(Stored(d)) + 1
  IN
  /\ proc[p].job \in {"build", "delta"}
  /\ \A q \in Stored(d) : d.row[q].text # t
  /\ pid \in Pids
  /\ Writes(p, [d EXCEPT !.row[pid] = [text |-> t, width |-> 0]], proc[p])
  /\ UNCHANGED <<missed, model, steps, faults>>

\* putVector, adoptVector: a code describes the vector it was taken from.
Embed(p, pid) ==
  LET d == Sees(p) IN
  /\ proc[p].job \in {"build", "embed"}
  /\ pid \in Stored(d) /\ d.row[pid].width = 0
  /\ Writes(p, [d EXCEPT !.row[pid].width = model, !.code[pid] = IF proc[p].has THEN None ELSE @],
            [Forgets(proc[p]) EXCEPT !.n = @ + 1])
  /\ UNCHANGED <<missed, model, steps, faults>>

\* A persist of a build; yieldWriteLock before an embedding request.
Persist(p) ==
  /\ view[p] # None /\ proc[p].job \in {"build", "embed"}
  /\ Commits(p, view[p], proc[p])
  /\ UNCHANGED <<missed, model, steps, faults>>

\* refreshCodes against a mean of this width: the vectors that have no code.
CodedMore(d, dim) ==
  [d EXCEPT !.code = [p \in Pids |-> IF d.code[p] = None /\ p \in Embedded(d) /\ d.row[p].width = dim
                                     THEN d.row[p] ELSE d.code[p]]]

\* refreshCodes: all of them when there is no mean of this width (dropCodes).
Recoded(d, dim) ==
  CodedMore(IF d.mean = dim THEN d ELSE [d EXCEPT !.mean = dim, !.code = NoCodes], dim)

\* What it leaves in memory: hasCodes is set by a code written, cleared by dropCodes.
AfterCoding(x, d, dim) ==
  LET wrote == Coded(Recoded(d, dim)) # (IF d.mean = dim THEN Coded(d) ELSE {})
  IN  [Forgets(x) EXCEPT !.has = wrote \/ (@ /\ d.mean = dim)]

\* finalizeVectors, then the persist.
Finalized(p, x) ==
  LET d == [Sees(p) EXCEPT !.complete = TRUE] IN
    IF x.n > MinCandidates /\ Dimension(d) # 0
    THEN Commits(p, Recoded(d, Dimension(d)), AfterCoding(x, d, Dimension(d)))
    ELSE Commits(p, d, x)

DeltaDone(p) ==
  /\ proc[p].job = "delta"
  /\ Finalized(p, [proc[p] EXCEPT !.job = "embed"])
  /\ UNCHANGED <<missed, model, steps, faults>>

Finish(p) ==
  /\ proc[p].job \in {"build", "embed"}
  /\ Finalized(p, [proc[p] EXCEPT !.job = "none"])
  /\ UNCHANGED <<missed, model, steps, faults>>

\* A job fails: what an update has not committed is rolled back, a build keeps what it has.
Fail(p) ==
  /\ proc[p].job # "none" /\ faults < MaxFaults
  /\ faults' = faults + 1
  /\ IF proc[p].job = "build"
     THEN Commits(p, Sees(p), [proc[p] EXCEPT !.job = "none"])
     ELSE Ends(p, Reread([proc[p] EXCEPT !.job = "none"], db))
  /\ UNCHANGED <<missed, model, steps>>

\* The process is killed and started again.
Restart(p) ==
  /\ faults < MaxFaults
  /\ faults' = faults + 1
  /\ Ends(p, Opened(db))
  /\ UNCHANGED <<missed, model, steps>>

\* The model is changed for one of another width; nothing stored says which it was.
ModelChanges(w) ==
  /\ faults < MaxFaults /\ w # model
  /\ faults' = faults + 1
  /\ model' = w
  /\ UNCHANGED <<db, view, proc, missed, steps>>

------------------------------------------------------------------------------
(* Searches                                                                *)

\* semantic_search brings the index level, then query() embeds what was asked.
Ask(p) ==
  /\ steps < MaxSteps /\ steps' = steps + 1
  /\ proc[p].asked = None
  /\ LET x == Synced(p) IN
       proc' = [proc EXCEPT ![p] = [x EXCEPT !.asked = All(Sees(p))]]
  /\ UNCHANGED <<db, view, missed, model, faults>>

\* dropStaleVectors: the query has another width than the vectors.  Committed at once.
DropStale(p) ==
  LET d == Sees(p) IN
  /\ proc[p].asked # None /\ proc[p].n > 0
  /\ Dimension(d) \notin {0, model}
  /\ Commits(p, [row |-> [q \in Pids |-> IF d.row[q] = None THEN None ELSE [d.row[q] EXCEPT !.width = 0]],
                 code |-> NoCodes, mean |-> 0, complete |-> d.complete],
             [Forgets(proc[p]) EXCEPT !.has = FALSE, !.n = 0, !.asked = None])
  /\ UNCHANGED <<missed, model, steps, faults>>

\* Looked at: the vectors at the row ids a loaded code leads to.
Reached(d, cache) == {<<q, d.row[q]>> : q \in {q \in Embedded(d) : cache[q] = d.row[q]}}
\* A vector of another width than the query's is no loss.
Served(p, looked) ==
  missed' = (missed \/ ~({a \in proc[p].asked : a[2].width = model} \subseteq looked))

\* loadCodes: one code per vector, all of the mean's width.
Covers(x, d) ==
  /\ Cardinality(Coded(d)) = x.n
  /\ \A q \in Coded(d) : d.code[q].width = d.mean

Narrow(p) ==
  /\ proc[p].asked # None
  /\ Dimension(Sees(p)) \in {0, model} \/ proc[p].n = 0

\* codesFor declines: too few vectors, codes it has given up on, a job of its own under way.
Scan(p) ==
  /\ Narrow(p)
  /\ \/ proc[p].n <= MinCandidates
     \/ proc[p].unusable
     \/ proc[p].cache = None /\ proc[p].job # "none"
  /\ Served(p, IF proc[p].n = 0 THEN {} ELSE All(Sees(p)))
  /\ proc' = [proc EXCEPT ![p].asked = None]
  /\ UNCHANGED <<db, view, model, steps, faults>>

\* The codes in memory serve.
ByCodes(p) ==
  /\ Narrow(p)
  /\ proc[p].n > MinCandidates /\ ~proc[p].unusable /\ proc[p].cache # None
  /\ Served(p, Reached(Sees(p), proc[p].cache))
  /\ proc' = [proc EXCEPT ![p].asked = None]
  /\ UNCHANGED <<db, view, model, steps, faults>>

\* buildCodes: whatever is missing is written and committed, and all of them are loaded.
ByNewCodes(p) ==
  LET d == Sees(p)
      r == Recoded(d, Dimension(d))
      x == AfterCoding(proc[p], d, Dimension(d))
  IN
  /\ Narrow(p)
  /\ proc[p].n > MinCandidates /\ ~proc[p].unusable /\ proc[p].cache = None
  /\ proc[p].job = "none" /\ Dimension(d) # 0
  /\ SearchesElsewhere \/ \A q \in Procs : proc[q].job = "none"
  /\ Served(p, IF Covers(x, r) THEN Reached(r, r.code) ELSE All(r))
  /\ Commits(p, r, [x EXCEPT !.cache = IF Covers(x, r) THEN r.code ELSE None,
                             !.unusable = ~Covers(x, r), !.asked = None])
  /\ UNCHANGED <<model, steps, faults>>

CodesNext ==
  \/ \E p \in Procs :
       \/ \E kind \in {"build", "resume", "update"} : StartJob(p, kind)
       \/ \E pid \in Pids : Delete(p, pid) \/ Embed(p, pid)
       \/ \E t \in Texts : Put(p, t)
       \/ Persist(p) \/ DeltaDone(p) \/ Finish(p) \/ Fail(p) \/ Restart(p)
       \/ Ask(p) \/ DropStale(p) \/ Scan(p) \/ ByCodes(p) \/ ByNewCodes(p)
  \/ \E w \in Widths : ModelChanges(w)

CodesSpec == CodesInit /\ [][CodesNext]_codesVars

------------------------------------------------------------------------------

\* A stored code describes the vector stored under its row id, which a deletion and the
\* next passage may have changed meanwhile (sqlite-index.ts:2079).
CodesDescribe ==
  \A d \in {db} \cup {view[p] : p \in Procs} :
    d # None => \A q \in Coded(d) : d.row[q] = d.code[q]

\* A search looks at every vector that was stored when it brought itself level and still
\* is, whichever way it looks: codes that would miss one are not used (:1966).
ServedWhole == ~missed

CodesHonest == CodesDescribe /\ ServedWhole
=============================================================================
