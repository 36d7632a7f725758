------------------------------- MODULE MCJobs -------------------------------
(***************************************************************************)
(* What the jobs of an index do and leave: the crawl and its stamps, and   *)
(* the passages with their counters and vectors.  They share no state here *)
(* (each takes the store at its own grain), so a behaviour exercises one   *)
(* of them and the other stays as it starts.                               *)
(***************************************************************************)
EXTENDS MCIndexJob

CONSTANTS Entries, BatchSize, Wordless, Bodiless, Salvaged, Relisted, MaxText, MaxJobs

VARIABLES
  part,  \* what this behaviour exercises
  kind, text, store, saved, check, stamped, rowJob, pending, asked, done, embedder, jobs,
  again, twice

Rows == INSTANCE PassageStore WITH Items <- Entries, job <- rowJob

passageVars ==
  <<kind, text, store, saved, check, stamped, rowJob, pending, asked, done, embedder, jobs,
    again, twice>>

JobsInit ==
  /\ part \in {"crawl", "passages"}
  /\ Init /\ (part # "crawl" => live = {})
  /\ Rows!PassageInit /\ (part # "passages" => kind = "sqlite")

JobsNext ==
  \/ part = "crawl" /\ Next /\ UNCHANGED <<part, passageVars>>
  \/ part = "passages" /\ Rows!PassageNext /\ UNCHANGED <<part, vars>>

JobsSpec == JobsInit /\ [][JobsNext]_<<part, vars, passageVars>>

\* The counters are what the rows say, up to the vectors asked for again after a kill, and
\* a vector is of its row's text, through jobs that fail, stop or are killed
\* (sqlite-index.ts:1526, :1674).
RowsHonest == Rows!PassagesHonest

\* A build that records its version misses no more vectors than were counted twice
\* (index-manager.ts:1486, :1734).
MissesOnlyRecounted == Rows!MissesOnlyRecounted
=============================================================================
