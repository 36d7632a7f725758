------------------------------ MODULE MCReading ------------------------------
(***************************************************************************)
(* What calls read and from where: the codes kept beside the vectors, the  *)
(* search, and the index a call or a command is about.  They share no      *)
(* state here (each takes the index at its own grain), so a behaviour      *)
(* exercises one of them and the others stay as they start.                *)
(***************************************************************************)
EXTENDS IndexCommands, Sequences

CONSTANTS
  Procs, Texts, MaxPid, Widths, MinCandidates, SearchesElsewhere, MaxSteps, MaxFaults,
  Libraries, Limits, PoolPerHit, MaxSearches, MaxChanges

VARIABLES
  part,  \* the component this behaviour exercises
  db, view, proc, missed, model, steps, faults,
  index, canEmbed, hit, answer, searches, changes

\* Four passages of two items: three of one, which fill a pool between them.
ItemOf == <<"a", "a", "a", "b">>
Ranks == {<<>>, <<1>>, <<4>>, <<1, 2>>, <<4, 1>>, <<1, 2, 4>>, <<2, 4, 3>>, <<3, 2, 1, 4>>}
Old == {<<>>, <<1, 4>>}

Codes == INSTANCE VectorCodes
Search == INSTANCE Retrieval WITH
  embedder <- canEmbed, call <- hit, Order <- <<"user", "group">>

ASSUME ReadingAssumption == Codes!TextsAssumption

codesVars == <<db, view, proc, missed, model, steps, faults>>
searchVars == <<index, canEmbed, hit, answer, searches, changes>>
vars == <<part, codesVars, searchVars, commandVars>>

\* The commands' bounds: two calls at once and one more start; or three calls in turn that
\* start jobs, which outlive them, and two more starts.
Within ==
  \/ part = "calls at once" /\ calls' <= 2 /\ starts' <= 1
  \/ /\ part = "jobs in turn" /\ reach' = reach
     /\ \A c \in Callers : call'[c].pc # "idle" =>
          call'[c].action \in Starts /\ \A d \in Callers \ {c} : call'[d].pc = "idle"

Init ==
  /\ part \in {"codes", "search", "calls at once", "jobs in turn"}
  /\ Codes!CodesInit /\ (part # "codes" => ~db.complete)
  /\ Search!SearchInit
  /\ part # "search" => ~canEmbed /\ \A l \in Libraries : ~index[l].file
  /\ CommandInit
  /\ part # "calls at once" => ~server.command
  /\ part \in {"codes", "search"} => ~file[Original].version /\ ~file[Original].paused

Next ==
  \/ part = "codes" /\ Codes!CodesNext /\ UNCHANGED <<part, searchVars, commandVars>>
  \/ part = "search" /\ Search!SearchNext /\ UNCHANGED <<part, codesVars, commandVars>>
  \/ CommandNext /\ Within /\ UNCHANGED <<part, codesVars, searchVars>>

Spec == Init /\ [][Next]_vars

\* A page leaves out nothing it had room for, and neither does an answer over several
\* libraries; a code describes the vector beside it, and no search misses a stored vector
\* because of the codes (index-manager.ts:3175, :2921, semantic-search.ts:206,
\* sqlite-index.ts:2079).
SearchesHonest ==
  (part = "codes" => Codes!CodesHonest) /\ (part = "search" => Search!SearchesHonest)
=============================================================================
