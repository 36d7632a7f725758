---------------------------- MODULE CommandProofs ----------------------------
(***************************************************************************)
(* What is promised of the commands on indexes, for any libraries, callers *)
(* and bounds, through starts for other default libraries and whatever was *)
(* not committed when the program ended.                                   *)
(*                                                                         *)
(* The inductive invariant has two halves.  What serves calls (ServedInv): *)
(* a call is about one library and that library's file; a hold in memory   *)
(* is the one on disk, or stands until it is; rows are of their file's     *)
(* stamp or came without one; a file beside the original has rows, or is   *)
(* about to, only of a library somebody named or a start brought back, or  *)
(* that the original neither holds nor is there to hold.  And the command  *)
(* (ExitOK): it is one call, which watches whatever it has started, by     *)
(* status calls that nothing can refuse.                                   *)
(***************************************************************************)
EXTENDS IndexCommands, TLAPS

-----------------------------------------------------------------------------
(* The inductive invariant.                                                *)

CallActions == Actions \cup {"none"}
Answers == Refused \cup {"none", "building", "idle", "done", "error", "stopping", "ok", "started",
                         "hits", "empty", "failure", "success"}
Pcs == {"idle", "finding", "choosing", "deciding", "acting", "persisting", "over", "exited"}
Calls == [pc : Pcs, action : CallActions, named : BOOLEAN, lib : Libs \cup {None},
          path : Paths \cup {None}, found : BOOLEAN, answer : Answers]

CommandTypes ==
  /\ file \in [Paths -> File]
  /\ server \in [up : BOOLEAN, command : BOOLEAN, default : Libs, primary : Libs]
  /\ held \in [Paths -> BOOLEAN]
  /\ moving \in [Paths -> Callers \cup {None}]
  /\ job \in [Paths -> Job \cup {None}]
  /\ state \in [Paths -> {"idle", "done", "error"}]
  /\ call \in [Callers -> Calls]

\* A call is about the library it named or the default one, and about that one's file, and
\* so is what it started.
Underway(c) == call[c].pc \notin {"idle", "over", "exited"}

CallsOK ==
  \A c \in Callers : Underway(c) \/ Runs(c) =>
    /\ call[c].lib \in Libs
    /\ call[c].path = PathFor(call[c].lib)
    /\ ~call[c].named => call[c].lib = server.default

\* The hold in memory is the one on disk, but while it is moved it stands.
HoldOK ==
  /\ \A p \in Paths :
       /\ moving[p] = None => held[p] = file[p].paused
       /\ moving[p] # None =>
            /\ held[p]
            /\ call[moving[p]].pc = "persisting" /\ call[moving[p]].path = p
            /\ call[moving[p]].action \in {"pause", "resume"}
            /\ file[p].paused = (call[moving[p]].action = "resume")
       /\ held[p] /\ job[p] # None => job[p].cancelled
  /\ \A c \in Callers : call[c].pc = "persisting" => moving[call[c].path] = c

\* What is on disk of a path, and what was committed before the job that runs.
Copies(p) == {file[p]} \cup (IF job[p] = None THEN {} ELSE {job[p].before})

\* Rows are of the stamp or came without one; a file beside the original is one library's.
CopyOK(p, f) ==
  /\ f.rows \subseteq f.old \cup {f.stamp}
  /\ p \in Libs => f.rows \subseteq {p} /\ f.stamp \in {None, p}
  /\ p = Original =>
       /\ f.stamp \in {None, server.primary}
       /\ server.primary # server.default => f.stamp = server.primary

FilesOK == \A p \in Paths : \A f \in Copies(p) : CopyOK(p, f)

\* A job is its path's library's, and a crawl has stamped the file.
JobsOK ==
  \A p \in Paths : job[p] # None =>
    /\ PathFor(job[p].lib) = p
    /\ ~job[p].delta => file[p].stamp = job[p].lib

\* A library somebody named or a start brought back, or one the original file does not hold
\* and is not there to hold.
Apart(l) ==
  \/ l \in named \cup restored
  \/ l \notin file[Original].rows /\ \A f \in Copies(Original) : f.stamp \notin {None, l}

\* A file beside the original has rows, or is about to, only of such a library.
ChosenOK ==
  /\ \A l \in Libs :
       /\ \A f \in Copies(l) : f.rows # {} => Apart(l)
       /\ job[l] # None => Apart(l)
  /\ \A c \in Callers, l \in Libs :
       call[c].pc = "acting" /\ call[c].action \in Starts /\ ~call[c].named /\ call[c].path = l
       => Apart(l)

\* A command is one call.  What it started is asked about until it has ended, by a status
\* that cannot be refused.
Watches(c, p) ==
  /\ call[c].path = p /\ call[c].lib \in Libs \cap reach /\ PathFor(call[c].lib) = p
  /\ file[p].there /\ Reachable(file[p].stamp)
  /\ Underway(c) => call[c].action = "status" /\ call[c].pc \in {"finding", "deciding", "acting"}
  /\ call[c].pc = "deciding" => call[c].found
  /\ call[c].pc = "over" => call[c].answer \notin Refused
  /\ call[c].pc = "over" /\ ~Runs(c) => job[p] = None /\ call[c].answer = state[p]
  /\ call[c].pc = "exited" => job[p] = None /\ (call[c].answer = "success" => state[p] # "error")

ExitOK ==
  /\ \A c \in Callers :
       /\ call[c].pc = "exited" => server.command /\ ~server.up
       /\ call[c].pc = "acting" => file[call[c].path].there
  /\ server.command =>
       /\ \A c \in Callers :
            /\ call[c].pc # "idle" => calls = 1 /\ \A d \in Callers \ {c} : call[d].pc = "idle"
            /\ Underway(c) \/ Runs(c) => call[c].lib \in reach
       /\ calls \in {0, 1}
       /\ \A p \in Paths : job[p] # None \/ state[p] # "idle" =>
            \E c \in Callers : call[c].pc # "idle" /\ Watches(c, p)

CommandInv == CommandTypes /\ CallsOK /\ HoldOK /\ FilesOK /\ JobsOK /\ ChosenOK /\ ExitOK

LEMMA CommandFacts ==
  /\ Default \in Libs /\ None \notin Libs /\ None \notin Callers /\ None \notin Job
  /\ Original \notin Libs /\ Original \in Paths /\ Libs \subseteq Paths
  /\ \A p \in Paths : p = Original \/ p \in Libs
BY CommandAssumption DEF Paths

\* A library's path tells it.
LEMMA PathFacts ==
  ASSUME server.primary \in Libs, NEW l \in Libs
  PROVE  /\ PathFor(l) \in Paths
         /\ PathFor(l) = Original <=> l = server.primary
         /\ PathFor(l) # Original => PathFor(l) = l
         /\ \A k \in Libs : PathFor(k) = PathFor(l) => k = l
BY CommandFacts DEF PathFor

LEMMA NoFileType == NoFile \in File /\ Empty \in File /\ Empty.there /\ ~NoFile.there
BY DEF NoFile, Empty, File

LEMMA NoCallType == NoCall \in Calls
BY DEF NoCall, Calls, Pcs, CallActions, Actions, Answers

-----------------------------------------------------------------------------
(* It holds at the start.                                                  *)

LEMMA OriginalsTypes ==
  ASSUME NEW o \in Originals
  PROVE  /\ o \in File
         /\ o.rows \subseteq o.old \cup {o.stamp}
         /\ o.stamp \in Libs \cup {None}
<1> USE CommandFacts
<1>1. CASE o = NoFile
  BY <1>1, NoFileType DEF NoFile
<1>2. CASE \E l \in Libs, s \in Libs \cup {None} :
             o = [Empty EXCEPT !.rows = {l}, !.old = {l}, !.stamp = s, !.version = TRUE]
  <2>1. PICK l \in Libs, s \in Libs \cup {None} :
          o = [Empty EXCEPT !.rows = {l}, !.old = {l}, !.stamp = s, !.version = TRUE]
    BY <1>2
  <2>2. QED BY <2>1 DEF Empty, NoFile, File
<1>3. CASE o = [Empty EXCEPT !.rows = {Default}, !.stamp = Default, !.paused = TRUE]
  BY <1>3 DEF Empty, NoFile, File
<1>4. \/ o = NoFile
      \/ \E l \in Libs, s \in Libs \cup {None} :
           o = [Empty EXCEPT !.rows = {l}, !.old = {l}, !.stamp = s, !.version = TRUE]
      \/ o = [Empty EXCEPT !.rows = {Default}, !.stamp = Default, !.paused = TRUE]
  <2> DEFINE Labelled(l, s) == [Empty EXCEPT !.rows = {l}, !.old = {l}, !.stamp = s, !.version = TRUE]
             Held == [Empty EXCEPT !.rows = {Default}, !.stamp = Default, !.paused = TRUE]
  <2>1. Originals = {NoFile, Held} \cup UNION {{Labelled(l, s) : s \in Libs \cup {None}} : l \in Libs}
    BY DEF Originals
  <2> SUFFICES o = NoFile \/ (\E l \in Libs, s \in Libs \cup {None} : o = Labelled(l, s)) \/ o = Held
    OBVIOUS
  <2> HIDE DEF Labelled, Held
  <2>2. \A l \in Libs : o \in {Labelled(l, s) : s \in Libs \cup {None}} => \E s \in Libs \cup {None} : o = Labelled(l, s)
    OBVIOUS
  <2>3. o \in UNION {{Labelled(l, s) : s \in Libs \cup {None}} : l \in Libs}
          => \E l \in Libs : o \in {Labelled(l, s) : s \in Libs \cup {None}}
    OBVIOUS
  <2>4. o = NoFile \/ o \in UNION {{Labelled(l, s) : s \in Libs \cup {None}} : l \in Libs} \/ o = Held
    BY <2>1
  <2>5. QED BY <2>2, <2>3, <2>4
<1>5. QED BY <1>1, <1>2, <1>3, <1>4

LEMMA CommandInvInit == CommandInit => CommandInv
<1> SUFFICES ASSUME CommandInit PROVE CommandInv
  OBVIOUS
<1> USE CommandFacts
<1>1. PICK o \in Originals :
        file = [p \in Paths |-> IF p = Original THEN [o EXCEPT !.there = TRUE] ELSE NoFile]
  BY DEF CommandInit
<1>2. PICK b \in BOOLEAN :
        server = [up |-> TRUE, command |-> b, default |-> Default, primary |-> Primary(file[Original], Default)]
  BY DEF CommandInit
<1>3. /\ o \in File /\ o.rows \subseteq o.old \cup {o.stamp} /\ o.stamp \in Libs \cup {None}
  BY OriginalsTypes
<1>4. /\ file \in [Paths -> File]
      /\ file[Original].rows = o.rows /\ file[Original].old = o.old /\ file[Original].stamp = o.stamp
      /\ \A l \in Libs : file[l] = NoFile
  <2>1. [o EXCEPT !.there = TRUE] \in File
    BY <1>3 DEF File
  <2>2. /\ [o EXCEPT !.there = TRUE].rows = o.rows
        /\ [o EXCEPT !.there = TRUE].old = o.old
        /\ [o EXCEPT !.there = TRUE].stamp = o.stamp
    BY <1>3 DEF File
  <2>3. QED BY <1>1, <2>1, <2>2, NoFileType
<1>5. server.primary = (IF o.stamp = None THEN Default ELSE o.stamp) /\ server.primary \in Libs
  BY <1>2, <1>3, <1>4 DEF Primary
<1>6. /\ held = [p \in Paths |-> file[p].paused]
      /\ moving = [p \in Paths |-> None] /\ job = [p \in Paths |-> None]
      /\ state = [p \in Paths |-> "idle"] /\ call = [c \in Callers |-> NoCall] /\ calls = 0
      /\ named = {} /\ restored = {}
  BY DEF CommandInit
<1>7. \A c \in Callers : call[c].pc = "idle"
  BY <1>6 DEF NoCall
<1>8. CommandTypes
  <2>1. held \in [Paths -> BOOLEAN]
    BY <1>4, <1>6 DEF File
  <2>2. call \in [Callers -> Calls]
    BY <1>6, NoCallType
  <2>3. QED BY <1>2, <1>4, <1>5, <1>6, <2>1, <2>2 DEF CommandTypes
<1>9. CallsOK
  BY <1>6, <1>7 DEF CallsOK, Underway, Runs, NoCall
<1>10. HoldOK
  BY <1>6, <1>7 DEF HoldOK
<1>11. FilesOK
  <2>1. \A p \in Paths : Copies(p) = {file[p]}
    BY <1>6 DEF Copies
  <2>2. CopyOK(Original, file[Original])
    BY <1>2, <1>3, <1>4, <1>5 DEF CopyOK
  <2>3. ASSUME NEW l \in Libs PROVE CopyOK(l, file[l])
    <3>1. file[l].rows = {} /\ file[l].stamp = None /\ l # Original
      BY <1>4 DEF NoFile
    <3>2. QED BY <3>1 DEF CopyOK
  <2>4. QED BY <2>1, <2>2, <2>3 DEF FilesOK
<1>12. JobsOK
  BY <1>6 DEF JobsOK
<1>13. ChosenOK
  BY <1>4, <1>6, <1>7 DEF ChosenOK, Copies, NoFile
<1>14. ExitOK
  BY <1>6, <1>7 DEF ExitOK, Underway, Runs, NoCall
<1>15. QED BY <1>8, <1>9, <1>10, <1>11, <1>12, <1>13, <1>14 DEF CommandInv
-----------------------------------------------------------------------------
(* Steps that only move a call on.                                         *)

\* What of the invariant is not about the command.
ServedInv == CommandTypes /\ CallsOK /\ HoldOK /\ FilesOK /\ JobsOK /\ ChosenOK

\* The libraries and the paths they have stay as they are; so does what is said of a file and
\* of a job, which may be asked to stop.
Servers == [up : BOOLEAN, command : BOOLEAN, default : Libs, primary : Libs]

Same == server' \in Servers /\ server'.primary = server.primary /\ server'.default = server.default

SameFile(p) ==
  /\ file'[p].rows = file[p].rows /\ file'[p].old = file[p].old
  /\ file'[p].stamp = file[p].stamp /\ file'[p].paused = file[p].paused

SameJob(p) ==
  /\ job'[p] = None <=> job[p] = None
  /\ job[p] # None =>
       /\ job'[p].lib = job[p].lib /\ job'[p].delta = job[p].delta /\ job'[p].before = job[p].before
       /\ job[p].cancelled => job'[p].cancelled

SameIndexes ==
  /\ file' \in [Paths -> File] /\ job' \in [Paths -> Job \cup {None}]
  /\ \A p \in Paths : SameFile(p) /\ SameJob(p)

LEMMA Kept ==
  ASSUME ServedInv
  PROVE  /\ UNCHANGED server => Same
         /\ UNCHANGED <<file, job>> => SameIndexes
BY DEF ServedInv, CommandTypes, Same, Servers, SameIndexes, SameFile, SameJob

LEMMA SameCopies ==
  ASSUME SameIndexes, NEW p \in Paths, NEW f \in Copies(p)'
  PROVE  \E g \in Copies(p) : f.rows = g.rows /\ f.old = g.old /\ f.stamp = g.stamp
BY DEF SameIndexes, SameFile, SameJob, Copies

LEMMA FilesKept ==
  ASSUME FilesOK, JobsOK, SameIndexes, Same
  PROVE  FilesOK' /\ JobsOK'
<1>1. ASSUME NEW p \in Paths, NEW f \in Copies(p)' PROVE CopyOK(p, f)'
  <2>1. PICK g \in Copies(p) : f.rows = g.rows /\ f.old = g.old /\ f.stamp = g.stamp
    BY SameCopies
  <2>2. CopyOK(p, g)
    BY DEF FilesOK
  <2>3. QED BY <2>1, <2>2 DEF CopyOK, Same
<1>2. FilesOK'
  BY <1>1 DEF FilesOK
<1>3. JobsOK'
  BY DEF JobsOK, SameIndexes, SameFile, SameJob, PathFor, Same
<1>4. QED BY <1>2, <1>3

LEMMA ApartKept ==
  ASSUME SameIndexes, UNCHANGED <<named, restored>>, NEW l, Apart(l)
  PROVE  Apart(l)'
<1>1. Original \in Paths
  BY CommandFacts
<1>2. \A f \in Copies(Original)' : \E g \in Copies(Original) : f.stamp = g.stamp
  BY <1>1, SameCopies
<1>3. file'[Original].rows = file[Original].rows
  BY <1>1 DEF SameIndexes, SameFile
<1>4. QED BY <1>2, <1>3 DEF Apart

\* One call moves on.
LEMMA CallMoves ==
  ASSUME ServedInv, NEW c \in Callers, NEW new \in Calls,
         call' = [call EXCEPT ![c] = new],
         SameIndexes, UNCHANGED <<state, ghosts>>, Same,
         new.pc \notin {"idle", "over", "exited"} \/ new.answer \in {"building", "started"} =>
           /\ new.lib \in Libs /\ new.path = PathFor(new.lib)
           /\ ~new.named => new.lib = server.default,
         \A l \in Libs : new.pc = "acting" /\ new.action \in Starts /\ ~new.named /\ new.path = l => Apart(l)
  PROVE  /\ CallsOK' /\ FilesOK' /\ JobsOK' /\ ChosenOK'
         /\ held' \in [Paths -> BOOLEAN] /\ moving' \in [Paths -> Callers \cup {None}] => CommandTypes'
<1> USE CommandFacts
<1>0. UNCHANGED <<named, restored>>
  BY DEF ghosts
<1>1. call \in [Callers -> Calls]
  BY DEF ServedInv, CommandTypes
<1>2. /\ call'[c] = new
      /\ \A d \in Callers \ {c} : call'[d] = call[d]
  BY <1>1
<1>3. ASSUME held' \in [Paths -> BOOLEAN], moving' \in [Paths -> Callers \cup {None}] PROVE CommandTypes'
  <2>1. call' \in [Callers -> Calls]
    BY <1>1
  <2>2. QED BY <1>3, <2>1 DEF ServedInv, CommandTypes, Same, Servers, SameIndexes
<1>4. CallsOK'
  BY <1>1, <1>2 DEF ServedInv, CallsOK, Underway, Runs, PathFor, Same
<1>5. FilesOK' /\ JobsOK'
  BY FilesKept DEF ServedInv
<1>6. ChosenOK'
  <2>1. ASSUME NEW l \in Libs, NEW f \in Copies(l)', f.rows # {} PROVE Apart(l)'
    <3>1. \E g \in Copies(l) : g.rows # {}
      BY <2>1, SameCopies
    <3>2. Apart(l)
      BY <3>1 DEF ServedInv, ChosenOK
    <3>3. QED BY <1>0, <3>2, ApartKept
  <2>2. ASSUME NEW l \in Libs, job'[l] # None PROVE Apart(l)'
    <3>1. Apart(l)
      BY <2>2 DEF ServedInv, ChosenOK, SameIndexes, SameJob
    <3>2. QED BY <1>0, <3>1, ApartKept
  <2>3. ASSUME NEW d \in Callers, NEW l \in Libs,
               call'[d].pc = "acting", call'[d].action \in Starts, ~call'[d].named, call'[d].path = l
        PROVE  Apart(l)'
    <3>1. Apart(l)
      BY <1>2, <2>3 DEF ServedInv, ChosenOK
    <3>2. QED BY <1>0, <3>1, ApartKept
  <2>4. QED BY <2>1, <2>2, <2>3 DEF ChosenOK
<1>7. QED BY <1>3, <1>4, <1>5, <1>6

\* Neither into nor out of the persisting of a hold.
LEMMA HoldKept ==
  ASSUME ServedInv, NEW c \in Callers, NEW new \in Calls,
         call' = [call EXCEPT ![c] = new], call[c].pc # "persisting", new.pc # "persisting",
         SameIndexes, UNCHANGED <<held, moving>>
  PROVE  HoldOK'
<1> USE CommandFacts
<1>1. call \in [Callers -> Calls]
  BY DEF ServedInv, CommandTypes
<1>2. /\ call'[c] = new
      /\ \A d \in Callers \ {c} : call'[d] = call[d]
  BY <1>1
<1>3. \A p \in Paths : moving[p] # None => moving[p] \in Callers /\ moving[p] # c
  BY DEF ServedInv, CommandTypes, HoldOK
<1>4. ASSUME NEW p \in Paths PROVE
        /\ moving'[p] = None => held'[p] = file'[p].paused
        /\ moving'[p] # None =>
             /\ held'[p]
             /\ call'[moving'[p]].pc = "persisting" /\ call'[moving'[p]].path = p
             /\ call'[moving'[p]].action \in {"pause", "resume"}
             /\ file'[p].paused = (call'[moving'[p]].action = "resume")
        /\ held'[p] /\ job'[p] # None => job'[p].cancelled
  BY <1>2, <1>3 DEF ServedInv, HoldOK, SameIndexes, SameFile, SameJob
<1>5. ASSUME NEW d \in Callers, call'[d].pc = "persisting" PROVE moving'[call'[d].path] = d
  BY <1>2, <1>5 DEF ServedInv, HoldOK
<1>6. QED BY <1>4, <1>5 DEF HoldOK

LEMMA CallMovesOn ==
  ASSUME ServedInv, NEW c \in Callers, NEW new \in Calls,
         call' = [call EXCEPT ![c] = new], call[c].pc # "persisting", new.pc # "persisting",
         SameIndexes, UNCHANGED <<held, moving, state, ghosts>>, Same,
         new.pc \notin {"idle", "over", "exited"} \/ new.answer \in {"building", "started"} =>
           /\ new.lib \in Libs /\ new.path = PathFor(new.lib)
           /\ ~new.named => new.lib = server.default,
         \A l \in Libs : new.pc = "acting" /\ new.action \in Starts /\ ~new.named /\ new.path = l => Apart(l)
  PROVE  ServedInv'
<1>1. held' \in [Paths -> BOOLEAN] /\ moving' \in [Paths -> Callers \cup {None}]
  BY DEF ServedInv, CommandTypes
<1>2. QED BY <1>1, CallMoves, HoldKept DEF ServedInv

\* A call is over.
LEMMA CallEnds ==
  ASSUME ServedInv, NEW c \in Callers, NEW a \in Answers, NEW pc \in {"over", "exited"},
         call' = [call EXCEPT ![c].pc = pc, ![c].answer = a], call[c].pc # "persisting",
         a \in {"building", "started"} => Underway(c),
         SameIndexes, UNCHANGED <<held, moving, state, ghosts>>, Same
  PROVE  ServedInv'
<1> DEFINE new == [call[c] EXCEPT !.pc = pc, !.answer = a]
<1>1. call[c] \in Calls
  BY DEF ServedInv, CommandTypes
<1>2. /\ new \in Calls /\ new.pc = pc /\ new.answer = a
      /\ new.lib = call[c].lib /\ new.path = call[c].path /\ new.named = call[c].named
  BY <1>1 DEF Calls, Pcs
<1>3. call' = [call EXCEPT ![c] = new]
  OBVIOUS
<1> HIDE DEF new
<1>4. a \in {"building", "started"} =>
        /\ new.lib \in Libs /\ new.path = PathFor(new.lib)
        /\ ~new.named => new.lib = server.default
  BY <1>2 DEF ServedInv, CallsOK
<1>5. QED BY <1>2, <1>3, <1>4, CallMovesOn

LEMMA AskServed ==
  ASSUME ServedInv, NEW c \in Callers, NEW a \in Actions, NEW l \in Libs \cup {None}, Ask(c, a, l)
  PROVE  ServedInv'
<1> DEFINE lib == IF l = None THEN server.default ELSE l
           found == [NoCall EXCEPT !.pc = "finding", !.action = a, !.named = l # None,
                                   !.lib = lib, !.path = PathFor(lib)]
           refused == [NoCall EXCEPT !.pc = "over", !.action = a, !.answer = "unreachable"]
           new == IF lib \in reach \/ (a = "search" /\ l = None) THEN found ELSE refused
<1> USE CommandFacts
<1>1. lib \in Libs /\ PathFor(lib) \in Paths
  BY DEF ServedInv, CommandTypes, PathFor
<1>2. call[c].pc = "idle" /\ call' = [call EXCEPT ![c] = new]
  BY DEF Ask, Up
<1>3. UNCHANGED <<file, server, held, moving, job, state, ghosts>> 
  BY DEF Ask
<1>4. Same /\ SameIndexes
  BY <1>3, Kept
<1> HIDE DEF lib
<1>5. /\ found \in Calls /\ found.pc = "finding"
      /\ found.lib = lib /\ found.path = PathFor(lib) /\ found.named = (l # None)
  BY <1>1 DEF NoCall, Calls, Pcs, CallActions, Answers
<1>6. refused \in Calls /\ refused.pc = "over" /\ refused.answer = "unreachable"
  BY DEF NoCall, Calls, Pcs, CallActions, Answers, Refused
<1>7. l = None => lib = server.default
  BY DEF lib
<1> HIDE DEF found, refused
<1>8. /\ new \in Calls /\ new.pc \in {"finding", "over"}
      /\ new.pc \notin {"idle", "over", "exited"} \/ new.answer \in {"building", "started"} =>
           /\ new.lib \in Libs /\ new.path = PathFor(new.lib)
           /\ ~new.named => new.lib = server.default
  BY <1>1, <1>5, <1>6, <1>7
<1> HIDE DEF new
<1>9. QED BY <1>2, <1>3, <1>4, <1>8, CallMovesOn

\* A call that goes on about the same library.
LEMMA CallGoesOn ==
  ASSUME ServedInv, NEW c \in Callers, Underway(c) \/ Runs(c), NEW new \in Calls,
         call' = [call EXCEPT ![c] = new], call[c].pc # "persisting", new.pc # "persisting",
         new.lib = call[c].lib, new.path = call[c].path, new.named = call[c].named,
         SameIndexes, UNCHANGED <<server, held, moving, state, ghosts>>,
         \A l \in Libs : new.pc = "acting" /\ new.action \in Starts /\ ~new.named /\ new.path = l => Apart(l)
  PROVE  ServedInv'
<1>1. Same
  BY Kept
<1>3. /\ new.lib \in Libs /\ new.path = PathFor(new.lib)
      /\ ~new.named => new.lib = server.default
  BY DEF ServedInv, CallsOK
<1>4. QED BY <1>1, <1>3, CallMovesOn

LEMMA FindServed == ASSUME ServedInv, NEW c \in Callers, Find(c) PROVE ServedInv'
<1> DEFINE pc == IF call[c].action = "search" THEN "choosing" ELSE "deciding"
           there == file[call[c].path].there
           new == [call[c] EXCEPT !.pc = pc, !.found = there]
<1> USE CommandFacts
<1>1. call[c] \in Calls /\ call[c].pc = "finding" /\ Underway(c)
  BY DEF Find, Up, Underway, ServedInv, CommandTypes
<1>2. there \in BOOLEAN
  <2>1. call[c].path \in Paths
    BY <1>1, PathFacts DEF ServedInv, CallsOK, CommandTypes
  <2>2. QED BY <2>1 DEF ServedInv, CommandTypes, File
<1>3. call' = [call EXCEPT ![c] = new] /\ UNCHANGED <<file, server, held, moving, job, state, ghosts>>
  BY DEF Find
<1> HIDE DEF there
<1>4. /\ new \in Calls /\ new.pc = pc
      /\ new.lib = call[c].lib /\ new.path = call[c].path /\ new.named = call[c].named
  BY <1>1, <1>2 DEF Calls, Pcs
<1> HIDE DEF new
<1>5. SameIndexes
  BY <1>3, Kept
<1>6. QED BY <1>1, <1>3, <1>4, <1>5, CallGoesOn

LEMMA UnreadableServed == ASSUME ServedInv, NEW c \in Callers, Unreadable(c) PROVE ServedInv'
<1>1. /\ call' = [call EXCEPT ![c].pc = "over", ![c].answer = "unreachable"] /\ call[c].pc = "acting"
      /\ UNCHANGED <<file, server, held, moving, job, state, ghosts>>
  BY DEF Unreadable, Answer, Up
<1>2. "unreachable" \in Answers /\ Same /\ SameIndexes
  BY <1>1, Kept DEF Answers, Refused
<1>3. QED BY <1>1, <1>2, CallEnds

LEMMA StatusServed == ASSUME ServedInv, NEW c \in Callers, Status(c) PROVE ServedInv'
<1> DEFINE a == IF job[call[c].path] # None THEN "building" ELSE state[call[c].path]
<1>1. /\ call' = [call EXCEPT ![c].pc = "over", ![c].answer = a] /\ call[c].pc = "acting"
      /\ UNCHANGED <<file, server, held, moving, job, state, ghosts>>
  BY DEF Status, Acts, Answer, Up
<1>2. Underway(c)
  BY <1>1 DEF Underway
<1>3. call[c].path \in Paths
  BY <1>2, PathFacts DEF ServedInv, CallsOK, CommandTypes
<1>4. a \in Answers
  BY <1>3 DEF Answers, ServedInv, CommandTypes
<1>5. Same /\ SameIndexes
  BY <1>1, Kept
<1> HIDE DEF a
<1>6. QED BY <1>1, <1>2, <1>4, <1>5, CallEnds

LEMMA ChooseServed == ASSUME ServedInv, NEW c \in Callers, Choose(c) PROVE ServedInv'
<1> DEFINE p == IF OwnSearched(c) THEN call[c].path ELSE Original
           a == IF ~Reachable(file[p].stamp) THEN "unreachable"
                ELSE IF file[p].rows = {} THEN "empty"
                ELSE IF WrongLibrary(c, p) THEN "another library"
                ELSE "hits"
           new == [call[c] EXCEPT !.pc = "over", !.path = p, !.answer = a]
<1> USE CommandFacts
<1>1. /\ call[c].pc = "choosing" /\ call' = [call EXCEPT ![c] = new]
      /\ UNCHANGED <<file, server, held, moving, job, state, ghosts>>
  BY DEF Choose, Up
<1>2. call[c] \in Calls /\ call[c].path \in Paths
  BY <1>1, PathFacts DEF ServedInv, CallsOK, CommandTypes, Underway
<1>3. p \in Paths /\ a \in Answers /\ a \notin {"building", "started"}
  BY <1>2 DEF Answers, Refused
<1>4. Same /\ SameIndexes
  BY <1>1, Kept
<1> HIDE DEF a, p
<1>5. new \in Calls /\ new.pc = "over" /\ new.answer = a
  BY <1>2, <1>3 DEF Calls, Pcs
<1> HIDE DEF new
<1>6. QED BY <1>1, <1>3, <1>4, <1>5, CallMovesOn

LEMMA OverServed == ASSUME ServedInv, NEW c \in Callers, Over(c) PROVE ServedInv'
<1>1. /\ call[c].pc = "over" /\ call' = [call EXCEPT ![c] = NoCall]
      /\ UNCHANGED <<file, server, held, moving, job, state, ghosts>>
  BY DEF Over, Up
<1>2. Same /\ SameIndexes
  BY <1>1, Kept
<1>3. NoCall \in Calls /\ NoCall.pc = "idle" /\ NoCall.answer = "none"
  BY NoCallType DEF NoCall
<1>4. QED BY <1>1, <1>2, <1>3, CallMovesOn

LEMMA PollServed == ASSUME ServedInv, NEW c \in Callers, Poll(c) PROVE ServedInv'
<1> DEFINE new == Polled(c)
<1>1. /\ call[c].pc = "over" /\ Runs(c) /\ call' = [call EXCEPT ![c] = new]
      /\ UNCHANGED <<file, server, held, moving, job, state, ghosts>>
  BY DEF Poll, Up
<1>2. call[c] \in Calls
  BY DEF ServedInv, CommandTypes
<1>3. /\ new \in Calls /\ new.pc = "finding"
      /\ new.lib = call[c].lib /\ new.path = call[c].path /\ new.named = call[c].named
  BY <1>2 DEF Polled, Calls, Pcs, CallActions, Actions, ReadOnly, Answers
<1>4. SameIndexes
  BY <1>1, Kept
<1> HIDE DEF new
<1>5. QED BY <1>1, <1>3, <1>4, CallGoesOn

LEMMA ExitServed == ASSUME ServedInv, NEW c \in Callers, Exit(c) PROVE ServedInv'
<1> DEFINE a == IF call[c].answer \in Refused \cup {"error"} THEN "failure" ELSE "success"
<1>1. /\ call[c].pc = "over" /\ call' = [call EXCEPT ![c].pc = "exited", ![c].answer = a]
      /\ UNCHANGED <<file, held, moving, job, state, ghosts>> /\ server' = [server EXCEPT !.up = FALSE]
  BY DEF Exit, Up
<1>2. Same /\ SameIndexes
  BY <1>1, Kept DEF Same, Servers, ServedInv, CommandTypes
<1>3. a \in Answers /\ a \notin {"building", "started"}
  BY DEF Answers
<1> HIDE DEF a
<1>4. QED BY <1>1, <1>2, <1>3, CallEnds

\* A second crawl is not started unasked: what is not split from the original file, or has
\* rows of its own, stands apart.
LEMMA UnaskedApart ==
  ASSUME ServedInv, NEW c \in Callers, NEW l \in Libs, Underway(c),
         ~call[c].named, call[c].path = l, ~SecondCrawl(c)
  PROVE  Apart(l)
<1> USE CommandFacts
<1>1. /\ call[c].lib \in Libs /\ call[c].lib = server.default /\ PathFor(call[c].lib) = l
  BY DEF ServedInv, CallsOK
<1>2. call[c].lib = l /\ server.primary # l
  BY <1>1 DEF PathFor
<1>3. CASE file[Original].rows = {}
  <2>1. \A f \in Copies(Original) : f.stamp \notin {None, l}
    BY <1>1, <1>2 DEF ServedInv, FilesOK, CopyOK, CommandTypes, Servers
  <2>2. QED BY <1>3, <2>1 DEF Apart
<1>4. CASE file[Original].rows # {}
  <2>1. file[l].rows # {}
    BY <1>1, <1>2, <1>4 DEF SecondCrawl, Split
  <2>2. QED BY <2>1 DEF ServedInv, ChosenOK, Copies
<1>5. QED BY <1>3, <1>4

LEMMA DecideServed == ASSUME ServedInv, NEW c \in Callers, Decide(c) PROVE ServedInv'
<1> DEFINE p == call[c].path
           new == [call[c] EXCEPT !.pc = "acting"]
<1> USE CommandFacts
<1>1. /\ call[c].pc = "deciding" /\ Underway(c) /\ call[c] \in Calls
      /\ UNCHANGED <<server, held, moving, job, state, ghosts>> /\ Same
  BY Kept DEF Decide, Up, Underway, ServedInv, CommandTypes
<1>2. p \in Paths
  BY <1>1, PathFacts DEF ServedInv, CallsOK, CommandTypes
<1>3. \/ \E a \in {"second crawl", "no index"} :
           call' = [call EXCEPT ![c].pc = "over", ![c].answer = a] /\ UNCHANGED file
      \/ /\ call[c].action \in Starts => ~SecondCrawl(c)
         /\ call' = [call EXCEPT ![c] = new] /\ file' = [file EXCEPT ![p].there = TRUE]
  BY DEF Decide, Answer, To
<1>4. ASSUME NEW a \in {"second crawl", "no index"}, UNCHANGED file,
             call' = [call EXCEPT ![c].pc = "over", ![c].answer = a]
      PROVE  ServedInv'
  <2>1. a \in Answers /\ a \notin {"building", "started"} /\ SameIndexes
    BY <1>1, <1>4, Kept DEF Answers, Refused
  <2>2. QED BY <1>1, <1>4, <2>1, CallEnds
<1>5. ASSUME call[c].action \in Starts => ~SecondCrawl(c),
             call' = [call EXCEPT ![c] = new], file' = [file EXCEPT ![p].there = TRUE]
      PROVE  ServedInv'
  <2>1. /\ new \in Calls /\ new.pc = "acting" /\ new.action = call[c].action
        /\ new.lib = call[c].lib /\ new.path = call[c].path /\ new.named = call[c].named
    BY <1>1 DEF Calls, Pcs
  <2>2. SameIndexes
    <3>1. file \in [Paths -> File] /\ job \in [Paths -> Job \cup {None}]
      BY DEF ServedInv, CommandTypes
    <3>2. file' \in [Paths -> File]
      <4>1. file[p] \in File
        BY <1>2, <3>1
      <4>2. [file[p] EXCEPT !.there = TRUE] \in File
        BY <4>1 DEF File
      <4>3. QED BY <1>2, <1>5, <3>1, <4>2
    <3>3. \A q \in Paths : SameFile(q)
      BY <1>2, <1>5, <3>1 DEF SameFile, File
    <3>4. \A q \in Paths : SameJob(q)
      BY <1>1 DEF SameJob
    <3>5. QED BY <1>1, <3>1, <3>2, <3>3, <3>4 DEF SameIndexes
  <2>3. \A l \in Libs : new.pc = "acting" /\ new.action \in Starts /\ ~new.named /\ new.path = l => Apart(l)
    BY <1>1, <1>5, <2>1, UnaskedApart
  <2> HIDE DEF new
  <2>4. QED BY <1>1, <1>5, <2>1, <2>2, <2>3, CallGoesOn
<1>6. QED BY <1>3, <1>4, <1>5

\* requestStop changes nothing else of a job.
LEMMA CancelledSame ==
  ASSUME ServedInv, NEW p \in Paths, Cancelled(p), UNCHANGED file
  PROVE  /\ SameIndexes
         /\ job'[p] # None => job'[p].cancelled
<1> USE CommandFacts
<1>1. file \in [Paths -> File] /\ job \in [Paths -> Job \cup {None}]
  BY DEF ServedInv, CommandTypes
<1>2. job' = [job EXCEPT ![p] = IF job[p] = None THEN None ELSE [job[p] EXCEPT !.cancelled = TRUE]]
  BY DEF Cancelled
<1>3. job[p] # None => /\ [job[p] EXCEPT !.cancelled = TRUE] \in Job
                       /\ [job[p] EXCEPT !.cancelled = TRUE].cancelled
                       /\ [job[p] EXCEPT !.cancelled = TRUE].lib = job[p].lib
                       /\ [job[p] EXCEPT !.cancelled = TRUE].delta = job[p].delta
                       /\ [job[p] EXCEPT !.cancelled = TRUE].before = job[p].before
  BY <1>1 DEF Job
<1>4. \A q \in Paths : SameFile(q)
  BY DEF SameFile
<1>5. \A q \in Paths : SameJob(q)
  BY <1>1, <1>2, <1>3 DEF SameJob
<1>6. job' \in [Paths -> Job \cup {None}]
  BY <1>1, <1>2, <1>3
<1>7. job'[p] # None => job'[p].cancelled
  BY <1>1, <1>2, <1>3
<1>8. QED BY <1>1, <1>4, <1>5, <1>6, <1>7 DEF SameIndexes

LEMMA StopServed == ASSUME ServedInv, NEW c \in Callers, Stop(c) PROVE ServedInv'
<1>1. /\ call[c].pc = "acting" /\ Underway(c) /\ Cancelled(call[c].path) /\ UNCHANGED file
      /\ call' = [call EXCEPT ![c].pc = "over", ![c].answer = "stopping"]
      /\ UNCHANGED <<server, held, moving, state, ghosts>> /\ Same
  BY Kept DEF Stop, Acts, Up, Answer, Underway
<1>2. call[c].path \in Paths
  BY <1>1, PathFacts DEF ServedInv, CallsOK, CommandTypes
<1>3. SameIndexes /\ "stopping" \in Answers
  BY <1>1, <1>2, CancelledSame DEF Answers
<1>4. QED BY <1>1, <1>3, CallEnds

\* No call moves.
LEMMA NoCallMoves ==
  ASSUME ServedInv, SameIndexes, Same, UNCHANGED <<held, moving, state, call, ghosts>>
  PROVE  ServedInv'
<1> USE CommandFacts
<1>0. UNCHANGED <<named, restored>>
  BY DEF ghosts
<1>1. CommandTypes'
  BY DEF ServedInv, CommandTypes, Same, Servers, SameIndexes
<1>2. CallsOK'
  BY DEF ServedInv, CallsOK, Underway, Runs, PathFor, Same
<1>3. HoldOK'
  BY DEF ServedInv, HoldOK, SameIndexes, SameFile, SameJob
<1>4. FilesOK' /\ JobsOK'
  BY FilesKept DEF ServedInv
<1>5. ChosenOK'
  <2>1. ASSUME NEW l \in Libs, NEW f \in Copies(l)', f.rows # {} PROVE Apart(l)'
    <3>1. \E g \in Copies(l) : g.rows # {}
      BY <2>1, SameCopies
    <3>2. Apart(l)
      BY <3>1 DEF ServedInv, ChosenOK
    <3>3. QED BY <1>0, <3>2, ApartKept
  <2>2. ASSUME NEW l \in Libs, job'[l] # None PROVE Apart(l)'
    <3>1. Apart(l)
      BY <2>2 DEF ServedInv, ChosenOK, SameIndexes, SameJob
    <3>2. QED BY <1>0, <3>1, ApartKept
  <2>3. ASSUME NEW d \in Callers, NEW l \in Libs,
               call'[d].pc = "acting", call'[d].action \in Starts, ~call'[d].named, call'[d].path = l
        PROVE  Apart(l)'
    <3>1. Apart(l)
      BY <2>3 DEF ServedInv, ChosenOK
    <3>2. QED BY <1>0, <3>1, ApartKept
  <2>4. QED BY <2>1, <2>2, <2>3 DEF ChosenOK
<1>6. QED BY <1>1, <1>2, <1>3, <1>4, <1>5 DEF ServedInv

LEMMA InterruptServed == ASSUME ServedInv, Interrupt PROVE ServedInv'
<1> USE CommandFacts
<1>1. /\ job' = [p \in Paths |-> IF job[p] # None /\ asked = 0 THEN [job[p] EXCEPT !.cancelled = TRUE] ELSE job[p]]
      /\ server' = [server EXCEPT !.up = asked = 0]
      /\ UNCHANGED <<file, held, moving, state, call, ghosts>>
  BY DEF Interrupt
<1>2. Same
  BY <1>1 DEF Same, Servers, ServedInv, CommandTypes
<1>3. file \in [Paths -> File] /\ job \in [Paths -> Job \cup {None}]
  BY DEF ServedInv, CommandTypes
<1>4. ASSUME NEW p \in Paths PROVE job'[p] \in Job \cup {None} /\ SameJob(p)
  <2>1. CASE job[p] # None /\ asked = 0
    <3>1. job'[p] = [job[p] EXCEPT !.cancelled = TRUE] /\ job[p] \in Job
      BY <1>1, <1>3, <2>1
    <3>2. /\ job'[p] \in Job /\ job'[p].cancelled
          /\ job'[p].lib = job[p].lib /\ job'[p].delta = job[p].delta /\ job'[p].before = job[p].before
      BY <3>1 DEF Job
    <3>3. QED BY <2>1, <3>2 DEF SameJob
  <2>2. CASE ~(job[p] # None /\ asked = 0)
    BY <1>1, <1>3, <2>2 DEF SameJob
  <2>3. QED BY <2>1, <2>2
<1>5. SameIndexes
  <2>1. job' \in [Paths -> Job \cup {None}]
    BY <1>1, <1>4
  <2>2. QED BY <1>1, <1>3, <1>4, <2>1 DEF SameIndexes, SameFile
<1>6. QED BY <1>1, <1>2, <1>5, NoCallMoves

LEMMA ReachChangesServed == ASSUME ServedInv, ReachChanges PROVE ServedInv'
<1>1. UNCHANGED <<file, server, held, moving, job, state, call, ghosts>>
  BY DEF ReachChanges
<1>2. SameIndexes /\ Same
  BY <1>1, Kept
<1>3. QED BY <1>1, <1>2, NoCallMoves

-----------------------------------------------------------------------------
(* Steps that change one file.                                             *)

LEMMA IndexMoves ==
  ASSUME ServedInv, NEW p \in Paths, Same,
         file' \in [Paths -> File], job' \in [Paths -> Job \cup {None}],
         \A q \in Paths \ {p} : file'[q] = file[q] /\ job'[q] = job[q],
         \A f \in Copies(p)' : CopyOK(p, f) /\ (f.stamp = None => \E g \in Copies(p) : g.stamp = None),
         job'[p] # None =>
           /\ PathFor(job'[p].lib) = p
           /\ ~job'[p].delta => file'[p].stamp = job'[p].lib,
         named \subseteq named', restored' = restored,
         p = Original => file'[p].rows \subseteq file[p].rows \cup {server.primary},
         p \in Libs /\ (job'[p] # None \/ \E f \in Copies(p)' : f.rows # {}) => Apart(p) \/ p \in named'
  PROVE  /\ FilesOK' /\ JobsOK'
         /\ \A l \in Libs : Apart(l) => Apart(l)'
         /\ \A l \in Libs : /\ \A f \in Copies(l)' : f.rows # {} => Apart(l)'
                            /\ job'[l] # None => Apart(l)'
<1> USE CommandFacts
<1>1. \A q \in Paths \ {p} : Copies(q)' = Copies(q)
  BY DEF Copies
<1>2. FilesOK'
  <2>1. ASSUME NEW q \in Paths, NEW f \in Copies(q)' PROVE CopyOK(q, f)
    BY <1>1 DEF ServedInv, FilesOK
  <2>2. QED BY <2>1 DEF FilesOK, CopyOK, Same
<1>3. JobsOK'
  BY DEF ServedInv, JobsOK, PathFor, Same
<1>4. ASSUME NEW l \in Libs, Apart(l) PROVE Apart(l)'
  <2>1. CASE l \in named \cup restored
    BY <2>1 DEF Apart
  <2>2. CASE p # Original
    <3>1. Copies(Original)' = Copies(Original) /\ file'[Original] = file[Original]
      BY <1>1, <2>2
    <3>2. QED BY <1>4, <3>1 DEF Apart
  <2>3. CASE p = Original /\ l \notin named \cup restored
    <3>1. l \notin file[Original].rows /\ \A f \in Copies(Original) : f.stamp \notin {None, l}
      BY <1>4, <2>3 DEF Apart
    <3>2. file[Original].stamp = server.primary /\ server.primary # l
      BY <3>1 DEF ServedInv, FilesOK, CopyOK, Copies
    <3>3. l \notin file'[Original].rows
      BY <2>3, <3>1, <3>2
    <3>4. \A f \in Copies(Original)' : f.stamp \notin {None, l}
      BY <2>3, <3>1, <3>2 DEF CopyOK
    <3>5. QED BY <3>3, <3>4 DEF Apart
  <2>4. QED BY <2>1, <2>2, <2>3
<1>5. ASSUME NEW l \in Libs, job'[l] # None \/ \E f \in Copies(l)' : f.rows # {} PROVE Apart(l)'
  <2>1. CASE l = p
    <3>1. Apart(l) \/ l \in named'
      BY <1>5, <2>1
    <3>2. QED BY <1>4, <3>1 DEF Apart
  <2>2. CASE l # p
    <3>1. Copies(l)' = Copies(l) /\ job'[l] = job[l]
      BY <1>1, <2>2
    <3>2. Apart(l)
      BY <1>5, <3>1 DEF ServedInv, ChosenOK
    <3>3. QED BY <1>4, <3>2
  <2>3. QED BY <2>1, <2>2
<1>6. QED BY <1>2, <1>3, <1>4, <1>5

\* No call comes to act where it was not asked to.
LEMMA ChosenKept ==
  ASSUME ServedInv, NEW c \in Callers, \A d \in Callers \ {c} : call'[d] = call[d],
         call'[c].pc = "acting" => call'[c] = call[c],
         \A l \in Libs : Apart(l) => Apart(l)',
         \A l \in Libs : /\ \A f \in Copies(l)' : f.rows # {} => Apart(l)'
                         /\ job'[l] # None => Apart(l)'
  PROVE  ChosenOK'
<1>1. ASSUME NEW d \in Callers, NEW l \in Libs,
             call'[d].pc = "acting", call'[d].action \in Starts, ~call'[d].named, call'[d].path = l
      PROVE  Apart(l)'
  <2>1. call'[d] = call[d]
    BY <1>1
  <2>2. QED BY <1>1, <2>1 DEF ServedInv, ChosenOK
<1>2. QED BY <1>1 DEF ChosenOK

LEMMA JobPageServed == ASSUME ServedInv, NEW p \in Paths, JobPage(p) PROVE ServedInv'
<1> DEFINE new == [file[p] EXCEPT !.rows = @ \cup {job[p].lib}, !.checkpoint = TRUE]
           next == [job[p] EXCEPT !.before = new]
<1> USE CommandFacts
<1>1. file \in [Paths -> File] /\ job \in [Paths -> Job \cup {None}]
  BY DEF ServedInv, CommandTypes
<1>2. /\ job[p] # None /\ ~job[p].delta
      /\ file' = [file EXCEPT ![p] = new]
      /\ job' = [job EXCEPT ![p].before = file'[p]]
      /\ UNCHANGED <<server, held, moving, state, call, ghosts>>
  BY <1>1 DEF JobPage
<1>3. job[p] \in Job /\ file[p] \in File /\ job[p].lib \in Libs
  BY <1>1, <1>2 DEF Job
<1>4. /\ new \in File /\ new.rows = file[p].rows \cup {job[p].lib}
      /\ new.old = file[p].old /\ new.stamp = file[p].stamp /\ new.paused = file[p].paused
  BY <1>3 DEF File
<1> HIDE DEF new
<1>5. /\ next \in Job /\ next.before = new /\ next.lib = job[p].lib /\ next.delta = job[p].delta
      /\ next.cancelled = job[p].cancelled
  BY <1>3, <1>4 DEF Job
<1>6. /\ file' \in [Paths -> File] /\ file'[p] = new
      /\ job' = [job EXCEPT ![p] = next] /\ job' \in [Paths -> Job \cup {None}] /\ job'[p] = next
      /\ \A q \in Paths \ {p} : file'[q] = file[q] /\ job'[q] = job[q]
  BY <1>1, <1>2, <1>4, <1>5
<1> HIDE DEF next
<1>7. Same /\ named' = named /\ restored' = restored
  BY <1>2, Kept DEF ghosts
<1>8. PathFor(job[p].lib) = p /\ file[p].stamp = job[p].lib
  BY <1>2 DEF ServedInv, JobsOK
<1>9. /\ p = Original => job[p].lib = server.primary
      /\ p \in Libs => job[p].lib = p
  BY <1>3, <1>8 DEF PathFor
<1>10. Copies(p)' = {new}
  BY <1>5, <1>6 DEF Copies
<1>11. CopyOK(p, new)
  <2>1. CopyOK(p, file[p])
    BY DEF ServedInv, FilesOK, Copies
  <2>2. QED BY <1>4, <1>8, <1>9, <2>1 DEF CopyOK
<1>12. p \in Libs => Apart(p)
  BY <1>2 DEF ServedInv, ChosenOK
<1>13. /\ FilesOK' /\ JobsOK'
       /\ \A l \in Libs : Apart(l) => Apart(l)'
       /\ \A l \in Libs : /\ \A f \in Copies(l)' : f.rows # {} => Apart(l)'
                          /\ job'[l] # None => Apart(l)'
  <2>1. \A f \in Copies(p)' : CopyOK(p, f) /\ (f.stamp = None => \E g \in Copies(p) : g.stamp = None)
    BY <1>4, <1>10, <1>11 DEF Copies
  <2>2. PathFor(job'[p].lib) = p /\ (~job'[p].delta => file'[p].stamp = job'[p].lib)
    BY <1>4, <1>5, <1>6, <1>8
  <2>3. p = Original => file'[p].rows \subseteq file[p].rows \cup {server.primary}
    BY <1>4, <1>6, <1>9
  <2>4. named \subseteq named' /\ restored' = restored
    BY <1>7
  <2>5. QED BY <1>6, <1>7, <1>12, <2>1, <2>2, <2>3, <2>4, IndexMoves
<1>14. ChosenOK'
  BY <1>2, <1>13 DEF ServedInv, ChosenOK
<1>15. CommandTypes'
  BY <1>2, <1>6 DEF ServedInv, CommandTypes
<1>16. CallsOK'
  BY <1>2 DEF ServedInv, CallsOK, Underway, Runs, PathFor
<1>17. HoldOK'
  BY <1>2, <1>4, <1>5, <1>6 DEF ServedInv, HoldOK
<1>18. QED BY <1>13, <1>14, <1>15, <1>16, <1>17 DEF ServedInv

LEMMA JobEndsServed ==
  ASSUME ServedInv, NEW p \in Paths, NEW how \in {"done", "error"}, JobEnds(p, how)
  PROVE  ServedInv'
<1> DEFINE delta == [file[p] EXCEPT !.rows = {job[p].lib}, !.stamp = job[p].lib]
           build == [file[p] EXCEPT !.version = TRUE, !.checkpoint = FALSE]
           new == IF how = "error" \/ job[p].cancelled THEN file[p] ELSE IF job[p].delta THEN delta ELSE build
<1> USE CommandFacts
<1>1. file \in [Paths -> File] /\ job \in [Paths -> Job \cup {None}]
  BY DEF ServedInv, CommandTypes
<1>2. /\ job[p] # None
      /\ file' = [file EXCEPT ![p] = new] /\ job' = [job EXCEPT ![p] = None]
      /\ state' = [state EXCEPT ![p] = how]
      /\ UNCHANGED <<server, held, moving, call, ghosts>>
  BY DEF JobEnds
<1>3. job[p] \in Job /\ file[p] \in File /\ job[p].lib \in Libs
  BY <1>1, <1>2 DEF Job
<1>4. /\ delta \in File /\ delta.rows = {job[p].lib} /\ delta.stamp = job[p].lib /\ delta.paused = file[p].paused
      /\ build \in File /\ build.rows = file[p].rows /\ build.stamp = file[p].stamp
      /\ build.old = file[p].old /\ build.paused = file[p].paused
  BY <1>3 DEF File
<1> HIDE DEF delta, build
<1>5. /\ new \in File /\ new.paused = file[p].paused
      /\ \/ new.rows = {job[p].lib} /\ new.stamp = job[p].lib
         \/ new.rows = file[p].rows /\ new.stamp = file[p].stamp /\ new.old = file[p].old
  BY <1>3, <1>4
<1> HIDE DEF new
<1>6. /\ file' \in [Paths -> File] /\ file'[p] = new
      /\ job' \in [Paths -> Job \cup {None}] /\ job'[p] = None
      /\ \A q \in Paths \ {p} : file'[q] = file[q] /\ job'[q] = job[q]
  BY <1>1, <1>2, <1>5
<1>7. Same /\ named' = named /\ restored' = restored
  BY <1>2, Kept DEF ghosts
<1>8. PathFor(job[p].lib) = p
  BY <1>2 DEF ServedInv, JobsOK
<1>9. /\ p = Original => job[p].lib = server.primary
      /\ p \in Libs => job[p].lib = p
  BY <1>3, <1>8 DEF PathFor
<1>10. Copies(p)' = {new}
  BY <1>6 DEF Copies
<1>11. CopyOK(p, new)
  <2>1. CopyOK(p, file[p])
    BY DEF ServedInv, FilesOK, Copies
  <2>2. QED BY <1>5, <1>9, <2>1 DEF CopyOK
<1>12. p \in Libs => Apart(p)
  BY <1>2 DEF ServedInv, ChosenOK
<1>13. /\ FilesOK' /\ JobsOK'
       /\ \A l \in Libs : Apart(l) => Apart(l)'
       /\ \A l \in Libs : /\ \A f \in Copies(l)' : f.rows # {} => Apart(l)'
                          /\ job'[l] # None => Apart(l)'
  <2>1. \A f \in Copies(p)' : CopyOK(p, f) /\ (f.stamp = None => \E g \in Copies(p) : g.stamp = None)
    BY <1>3, <1>5, <1>10, <1>11 DEF Copies
  <2>2. p = Original => file'[p].rows \subseteq file[p].rows \cup {server.primary}
    BY <1>5, <1>6, <1>9
  <2>3. named \subseteq named' /\ restored' = restored
    BY <1>7
  <2>4. QED BY <1>6, <1>7, <1>12, <2>1, <2>2, <2>3, IndexMoves
<1>14. ChosenOK'
  BY <1>2, <1>13 DEF ServedInv, ChosenOK
<1>15. CommandTypes'
  BY <1>2, <1>6 DEF ServedInv, CommandTypes
<1>16. CallsOK'
  BY <1>2 DEF ServedInv, CallsOK, Underway, Runs, PathFor
<1>17. HoldOK'
  BY <1>2, <1>5, <1>6 DEF ServedInv, HoldOK
<1>18. QED BY <1>13, <1>14, <1>15, <1>16, <1>17 DEF ServedInv

\* A call that moves on within its library, or is over, and keeps to the path it has.
LEMMA CallsKept ==
  ASSUME ServedInv, NEW c \in Callers, NEW new \in Calls, call' = [call EXCEPT ![c] = new],
         Underway(c), UNCHANGED server,
         new.lib = call[c].lib, new.path = call[c].path, new.named = call[c].named
  PROVE  CallsOK' /\ call' \in [Callers -> Calls]
<1>1. call \in [Callers -> Calls]
  BY DEF ServedInv, CommandTypes
<1>2. call'[c] = new /\ \A d \in Callers \ {c} : call'[d] = call[d]
  BY <1>1
<1>3. QED BY <1>1, <1>2 DEF ServedInv, CallsOK, Underway, Runs, PathFor

LEMMA PersistServed ==
  ASSUME ServedInv, NEW c \in Callers, NEW works \in BOOLEAN, Persist(c, works)
  PROVE  ServedInv'
<1> USE CommandFacts
<1>1. /\ file \in [Paths -> File] /\ job \in [Paths -> Job \cup {None}]
      /\ held \in [Paths -> BOOLEAN] /\ moving \in [Paths -> Callers \cup {None}]
      /\ call \in [Callers -> Calls] /\ call[c] \in Calls
  BY DEF ServedInv, CommandTypes
<1>2. call[c].pc = "persisting" /\ Underway(c)
  BY DEF Persist, Up, Underway
<1>3. PICK p \in Paths : p = call[c].path
  BY <1>2, PathFacts DEF ServedInv, CallsOK, CommandTypes
<1> DEFINE paused == call[c].action = "pause"
           new == [call[c] EXCEPT !.pc = "over", !.answer = IF works THEN "ok" ELSE "failed"]
           onDisk == [file[p] EXCEPT !.paused = IF works THEN paused ELSE file[p].paused]
           early == CommittedEarly(p, paused)
           next == IF works /\ job[p] # None THEN [job[p] EXCEPT !.before = early] ELSE job[p]
<1>4. moving[p] = c /\ moving[p] # None
  BY <1>2, <1>3 DEF ServedInv, HoldOK
<1>5. /\ held[p] /\ call[c].action \in {"pause", "resume"}
      /\ file[p].paused = (call[c].action = "resume")
      /\ job[p] # None => job[p].cancelled
  BY <1>3, <1>4 DEF ServedInv, HoldOK
<1>6. /\ moving' = [moving EXCEPT ![p] = None]
      /\ held' = [held EXCEPT ![p] = IF works THEN paused ELSE ~paused]
      /\ file' = [file EXCEPT ![p] = onDisk]
      /\ call' = [call EXCEPT ![c] = new]
      /\ UNCHANGED <<server, state, ghosts>>
  BY <1>3 DEF Persist, Answer
<1>7. job' = [job EXCEPT ![p] = next]
  <2>1. job = [job EXCEPT ![p] = job[p]]
    BY <1>1, <1>3
  <2>2. QED BY <1>3, <2>1 DEF Persist
<1>8. file[p] \in File /\ (job[p] # None => job[p] \in Job /\ job[p].before \in File)
  BY <1>1, <1>3 DEF Job
<1>9. paused \in BOOLEAN /\ (works => held'[p] = paused) /\ (~works => held'[p] = ~paused)
  BY <1>1, <1>3, <1>6
<1> HIDE DEF paused
<1>10. /\ onDisk \in File /\ onDisk.rows = file[p].rows /\ onDisk.old = file[p].old
       /\ onDisk.stamp = file[p].stamp
       /\ onDisk.paused = (IF works THEN paused ELSE file[p].paused)
  BY <1>8, <1>9 DEF File
<1>11. job[p] # None =>
         /\ early \in File /\ early.rows = file[p].rows /\ early.stamp = job[p].before.stamp
         /\ early.old = IF job[p].before.stamp = None THEN file[p].rows ELSE file[p].old
  BY <1>8, <1>9 DEF File, CommittedEarly
<1> HIDE DEF onDisk, early
<1>12. /\ next = None <=> job[p] = None
       /\ job[p] # None =>
            /\ next \in Job /\ next.lib = job[p].lib /\ next.delta = job[p].delta
            /\ next.cancelled = job[p].cancelled
            /\ next.before \in {early, job[p].before}
  BY <1>8, <1>11 DEF Job
<1> HIDE DEF next
<1>13. /\ file' \in [Paths -> File] /\ file'[p] = onDisk
       /\ job' \in [Paths -> Job \cup {None}] /\ job'[p] = next
       /\ \A q \in Paths \ {p} : file'[q] = file[q] /\ job'[q] = job[q]
  BY <1>1, <1>3, <1>6, <1>7, <1>10, <1>12
<1>14. Same /\ named' = named /\ restored' = restored
  BY <1>6, Kept DEF ghosts
<1>15. /\ new \in Calls /\ new.pc = "over"
       /\ new.lib = call[c].lib /\ new.path = call[c].path /\ new.named = call[c].named
  BY <1>1 DEF Calls, Pcs, Answers, Refused
<1> HIDE DEF new
<1>16. job[p] # None => PathFor(job[p].lib) = p /\ (~job[p].delta => file[p].stamp = job[p].lib)
  BY <1>3 DEF ServedInv, JobsOK
<1>17. CopyOK(p, file[p]) /\ (job[p] # None => CopyOK(p, job[p].before))
  BY <1>3 DEF ServedInv, FilesOK, Copies
<1>18. job[p] # None => CopyOK(p, early)
  <2> SUFFICES ASSUME job[p] # None PROVE CopyOK(p, early)
    OBVIOUS
  <2>1. early.rows \subseteq early.old \cup {early.stamp}
    <3>1. CASE job[p].before.stamp = None
      BY <1>11, <3>1
    <3>2. CASE job[p].before.stamp # None /\ file[p].stamp = None
      <4>1. file[p].rows \subseteq file[p].old
        BY <1>8, <1>17, <3>2 DEF CopyOK, File
      <4>2. QED BY <1>11, <3>2, <4>1
    <3>3. CASE job[p].before.stamp # None /\ file[p].stamp # None
      <4>1. job[p].before.stamp = file[p].stamp
        BY <1>3, <1>17, <3>3 DEF CopyOK
      <4>2. QED BY <1>11, <1>17, <3>3, <4>1 DEF CopyOK
    <3>4. QED BY <3>1, <3>2, <3>3
  <2>2. QED BY <1>11, <1>17, <2>1 DEF CopyOK
<1>19. \A f \in Copies(p)' : f \in {onDisk, early, job[p].before} /\ (job[p] = None => f = onDisk)
  BY <1>12, <1>13 DEF Copies
<1>20. /\ FilesOK' /\ JobsOK'
       /\ \A l \in Libs : Apart(l) => Apart(l)'
       /\ \A l \in Libs : /\ \A f \in Copies(l)' : f.rows # {} => Apart(l)'
                          /\ job'[l] # None => Apart(l)'
  <2>1. CopyOK(p, onDisk)
    BY <1>10, <1>17 DEF CopyOK
  <2>2. ASSUME NEW f \in Copies(p)'
        PROVE  CopyOK(p, f) /\ (f.stamp = None => \E g \in Copies(p) : g.stamp = None)
                            /\ (f.rows # {} => \E g \in Copies(p) : g.rows # {})
    <3>1. CASE f = onDisk
      BY <1>10, <2>1, <3>1 DEF Copies
    <3>2. CASE job[p] # None /\ f = early
      BY <1>11, <1>18, <3>2 DEF Copies
    <3>3. CASE job[p] # None /\ f = job[p].before
      BY <1>17, <3>3 DEF Copies
    <3>4. QED BY <1>19, <3>1, <3>2, <3>3
  <2>3. job'[p] # None => PathFor(job'[p].lib) = p /\ (~job'[p].delta => file'[p].stamp = job'[p].lib)
    BY <1>10, <1>12, <1>13, <1>16
  <2>4. p = Original => file'[p].rows \subseteq file[p].rows \cup {server.primary}
    BY <1>10, <1>13
  <2>5. p \in Libs /\ (job'[p] # None \/ \E f \in Copies(p)' : f.rows # {}) => Apart(p)
    BY <1>12, <1>13, <2>2 DEF ServedInv, ChosenOK
  <2>6. named \subseteq named' /\ restored' = restored
    BY <1>14
  <2>7. QED BY <1>13, <1>14, <2>2, <2>3, <2>4, <2>5, <2>6, IndexMoves
<1>21. ChosenOK'
  <2>1. call'[c] = new /\ \A d \in Callers \ {c} : call'[d] = call[d]
    BY <1>1, <1>6
  <2>2. call'[c].pc # "acting"
    BY <1>15, <2>1
  <2>3. QED BY <1>20, <2>1, <2>2, ChosenKept
<1>22. CallsOK' /\ call' \in [Callers -> Calls]
  BY <1>2, <1>6, <1>15, CallsKept
<1>23. CommandTypes'
  <2>1. held' \in [Paths -> BOOLEAN] /\ moving' \in [Paths -> Callers \cup {None}]
    BY <1>1, <1>6, <1>9
  <2>2. QED BY <1>6, <1>13, <1>22, <2>1 DEF ServedInv, CommandTypes
<1>24. HoldOK'
  <2>1. call'[c] = new /\ \A d \in Callers \ {c} : call'[d] = call[d]
    BY <1>1, <1>6
  <2>2. ASSUME NEW q \in Paths PROVE
          /\ moving'[q] = None => held'[q] = file'[q].paused
          /\ moving'[q] # None =>
               /\ held'[q]
               /\ call'[moving'[q]].pc = "persisting" /\ call'[moving'[q]].path = q
               /\ call'[moving'[q]].action \in {"pause", "resume"}
               /\ file'[q].paused = (call'[moving'[q]].action = "resume")
          /\ held'[q] /\ job'[q] # None => job'[q].cancelled
    <3>1. CASE q = p
      <4>1. moving'[p] = None
        BY <1>1, <1>3, <1>6
      <4>2. held'[p] = file'[p].paused
        BY <1>5, <1>9, <1>10, <1>13 DEF paused
      <4>3. job'[p] # None => job'[p].cancelled
        BY <1>5, <1>12, <1>13
      <4>4. QED BY <3>1, <4>1, <4>2, <4>3
    <3>2. CASE q # p
      <4>1. held'[q] = held[q] /\ moving'[q] = moving[q] /\ file'[q] = file[q] /\ job'[q] = job[q]
        BY <1>1, <1>3, <1>6, <1>13, <3>2
      <4>2. moving[q] # None => moving[q] \in Callers /\ moving[q] # c
        BY <1>1, <1>3, <3>2 DEF ServedInv, HoldOK
      <4>3. QED BY <2>1, <4>1, <4>2 DEF ServedInv, HoldOK
    <3>3. QED BY <3>1, <3>2
  <2>3. ASSUME NEW d \in Callers, call'[d].pc = "persisting" PROVE moving'[call'[d].path] = d
    <3>1. d # c /\ call'[d] = call[d]
      BY <1>15, <2>1, <2>3
    <3>2. moving[call[d].path] = d
      BY <2>3, <3>1 DEF ServedInv, HoldOK
    <3>3. call[d].path # p
      BY <1>4, <3>1, <3>2
    <3>4. QED BY <1>1, <1>6, <3>1, <3>2, <3>3
  <2>4. QED BY <2>2, <2>3 DEF HoldOK
<1>25. QED BY <1>20, <1>21, <1>22, <1>23, <1>24 DEF ServedInv

LEMMA SetPausedServed ==
  ASSUME ServedInv, NEW c \in Callers, NEW paused \in BOOLEAN, SetPaused(c, paused)
  PROVE  ServedInv'
<1> USE CommandFacts
<1>1. /\ file \in [Paths -> File] /\ job \in [Paths -> Job \cup {None}]
      /\ held \in [Paths -> BOOLEAN] /\ moving \in [Paths -> Callers \cup {None}]
      /\ call \in [Callers -> Calls] /\ call[c] \in Calls
  BY DEF ServedInv, CommandTypes
<1>2. /\ call[c].pc = "acting" /\ Underway(c) /\ call[c].action = IF paused THEN "pause" ELSE "resume"
      /\ UNCHANGED <<file, server, state, ghosts>> /\ Same
  BY Kept DEF SetPaused, Acts, Up, Underway
<1>3. PICK p \in Paths : p = call[c].path
  BY <1>2, PathFacts DEF ServedInv, CallsOK, CommandTypes
<1>4. SameIndexes /\ (paused /\ job'[p] # None => job'[p].cancelled)
  <2>1. CASE paused
    <3>1. Cancelled(p)
      BY <1>3, <2>1 DEF SetPaused, PauseStops
    <3>2. QED BY <1>2, <3>1, CancelledSame
  <2>2. CASE ~paused
    BY <1>2, <2>2, Kept DEF SetPaused
  <2>3. QED BY <2>1, <2>2
<1>5. ASSUME NEW a \in {"failed", "ok"}, Answer(c, a), UNCHANGED <<held, moving>> PROVE ServedInv'
  <2>1. a \in Answers /\ a \notin {"building", "started"}
    BY DEF Answers, Refused
  <2>2. QED BY <1>2, <1>4, <1>5, <2>1, CallEnds DEF Answer
<1>6. ASSUME moving[p] = None, held[p] # paused,
             held' = [held EXCEPT ![p] = HoldMeanwhile(paused, held[p])],
             moving' = [moving EXCEPT ![p] = c], To(c, "persisting")
      PROVE  ServedInv'
  <2> DEFINE new == [call[c] EXCEPT !.pc = "persisting"]
  <2>1. call' = [call EXCEPT ![c] = new]
    BY <1>6 DEF To
  <2>2. /\ new \in Calls /\ new.pc = "persisting" /\ new.action = call[c].action
        /\ new.lib = call[c].lib /\ new.path = p /\ new.named = call[c].named
    BY <1>1, <1>3 DEF Calls, Pcs
  <2> HIDE DEF new
  <2>3. call'[c] = new /\ \A d \in Callers \ {c} : call'[d] = call[d]
    BY <1>1, <2>1
  <2>4. held'[p] = TRUE /\ \A q \in Paths \ {p} : held'[q] = held[q] /\ moving'[q] = moving[q]
    BY <1>1, <1>6 DEF HoldMeanwhile
  <2>5. moving'[p] = c
    BY <1>1, <1>6
  <2>6. new.lib \in Libs /\ new.path = PathFor(new.lib) /\ (~new.named => new.lib = server.default)
    BY <1>2, <1>3, <2>2 DEF ServedInv, CallsOK
  <2>7. held' \in [Paths -> BOOLEAN] /\ moving' \in [Paths -> Callers \cup {None}]
    BY <1>1, <1>6 DEF HoldMeanwhile
  <2>8. CommandTypes' /\ CallsOK' /\ FilesOK' /\ JobsOK' /\ ChosenOK'
    <3>1. new.pc # "acting"
      BY <2>2
    <3>2. QED BY <1>2, <1>4, <2>1, <2>2, <2>6, <2>7, <3>1, CallMoves
  <2>9. ASSUME NEW q \in Paths PROVE
          /\ moving'[q] = None => held'[q] = file'[q].paused
          /\ moving'[q] # None =>
               /\ held'[q]
               /\ call'[moving'[q]].pc = "persisting" /\ call'[moving'[q]].path = q
               /\ call'[moving'[q]].action \in {"pause", "resume"}
               /\ file'[q].paused = (call'[moving'[q]].action = "resume")
          /\ held'[q] /\ job'[q] # None => job'[q].cancelled
    <3>1. CASE q = p
      <4>1. held[p] = file[p].paused /\ (held[p] /\ job[p] # None => job[p].cancelled)
        BY <1>6 DEF ServedInv, HoldOK
      <4>2. file'[p].paused = (new.action = "resume")
        BY <1>1, <1>2, <1>6, <2>2, <4>1
      <4>3. job'[p] # None => job'[p].cancelled
        BY <1>1, <1>4, <1>6, <4>1 DEF SameIndexes, SameJob
      <4>4. new.action \in {"pause", "resume"}
        BY <1>2, <2>2
      <4>5. QED BY <2>2, <2>3, <2>4, <2>5, <3>1, <4>2, <4>3, <4>4
    <3>2. CASE q # p
      <4>1. held'[q] = held[q] /\ moving'[q] = moving[q]
        BY <2>4, <3>2
      <4>2. moving[q] # None => moving[q] \in Callers /\ moving[q] # c
        BY <1>1, <1>2 DEF ServedInv, HoldOK
      <4>3. file'[q].paused = file[q].paused /\ (job'[q] # None => job[q] # None /\ (job[q].cancelled => job'[q].cancelled))
        BY <1>4 DEF SameIndexes, SameFile, SameJob
      <4>4. moving[q] # None => call'[moving'[q]] = call[moving[q]]
        BY <2>3, <4>1, <4>2
      <4>5. QED BY <4>1, <4>3, <4>4 DEF ServedInv, HoldOK
    <3>3. QED BY <3>1, <3>2
  <2>10. ASSUME NEW d \in Callers, call'[d].pc = "persisting" PROVE moving'[call'[d].path] = d
    <3>1. CASE d = c
      BY <2>2, <2>3, <2>5, <3>1
    <3>2. CASE d # c
      <4>1. call[d].pc = "persisting" /\ call'[d].path = call[d].path /\ moving[call[d].path] = d
        BY <2>3, <2>10, <3>2 DEF ServedInv, HoldOK
      <4>2. call[d].path \in Paths
        BY <4>1, PathFacts DEF ServedInv, CallsOK, CommandTypes, Underway
      <4>3. call[d].path # p
        BY <1>6, <4>1
      <4>4. QED BY <2>4, <4>1, <4>2, <4>3
    <3>3. QED BY <3>1, <3>2
  <2>11. HoldOK'
    BY <2>9, <2>10 DEF HoldOK
  <2>12. QED BY <2>8, <2>11 DEF ServedInv
<1>7. QED
  <2>1. CASE moving[p] # None
    BY <1>3, <1>5, <2>1 DEF SetPaused
  <2>2. CASE moving[p] = None /\ held[p] = paused
    BY <1>3, <1>5, <2>2 DEF SetPaused
  <2>3. CASE moving[p] = None /\ held[p] # paused
    BY <1>3, <1>6, <2>3 DEF SetPaused
  <2>4. QED BY <2>1, <2>2, <2>3

LEMMA StartServed == ASSUME ServedInv, NEW c \in Callers, Start(c) PROVE ServedInv'
<1> USE CommandFacts
<1>1. /\ file \in [Paths -> File] /\ job \in [Paths -> Job \cup {None}]
      /\ call \in [Callers -> Calls] /\ call[c] \in Calls
  BY DEF ServedInv, CommandTypes
<1>2. /\ call[c].pc = "acting" /\ call[c].action \in Starts /\ Underway(c)
      /\ UNCHANGED <<server, held, moving, state, restored>> /\ Same
  BY Kept DEF Start, Acts, Up, Underway
<1>3. PICK p \in Paths, l \in Libs : p = call[c].path /\ l = call[c].lib /\ PathFor(l) = p
  BY <1>2, PathFacts DEF ServedInv, CallsOK, CommandTypes
<1> DEFINE delta == call[c].action = "update" /\ ~UpdateBlocked(p)
           resumes == Resumes(p, call[c].action)
           next == [lib |-> l, delta |-> delta, cancelled |-> FALSE, before |-> file[p]]
           onDisk == IF delta THEN file[p]
                     ELSE IF resumes THEN [file[p] EXCEPT !.stamp = l]
                     ELSE [Empty EXCEPT !.stamp = l, !.paused = file[p].paused]
<1>4. \/ \E a \in {"held", "building", "another library"} : Answer(c, a) /\ UNCHANGED <<file, job, named>>
      \/ /\ ~held[p] /\ job[p] = None /\ ~ErasesAnother(p, l)
         /\ job' = [job EXCEPT ![p] = next] /\ file' = [file EXCEPT ![p] = onDisk]
         /\ named' = IF call[c].named THEN named \cup {l} ELSE named
         /\ Answer(c, "started")
  <2>1. file = [file EXCEPT ![p] = file[p]]
    BY <1>1
  <2>2. QED BY <1>3, <2>1 DEF Start
<1>5. ASSUME NEW a \in {"held", "building", "another library"}, Answer(c, a), UNCHANGED <<file, job, named>>
      PROVE  ServedInv'
  <2>1. a \in Answers /\ SameIndexes /\ UNCHANGED ghosts
    BY <1>2, <1>5, Kept DEF Answers, Refused, ghosts
  <2>2. QED BY <1>2, <1>5, <2>1, CallEnds DEF Answer
<1>6. ASSUME ~held[p], job[p] = None, ~ErasesAnother(p, l),
             job' = [job EXCEPT ![p] = next], file' = [file EXCEPT ![p] = onDisk],
             named' = IF call[c].named THEN named \cup {l} ELSE named, Answer(c, "started")
      PROVE  ServedInv'
  <2> DEFINE new == [call[c] EXCEPT !.pc = "over", !.answer = "started"]
  <2>1. /\ file[p] \in File /\ CopyOK(p, file[p])
    BY <1>1 DEF ServedInv, FilesOK, Copies
  <2>2. delta \in BOOLEAN /\ (delta \/ resumes => file[p].rows # {})
    BY DEF UpdateBlocked, Resumes
  <2>3. ~delta /\ resumes => file[p].stamp \in {None, l}
    BY <1>6, <2>2 DEF ErasesAnother
  <2> HIDE DEF delta, resumes
  <2>4. /\ onDisk \in File /\ onDisk.paused = file[p].paused
        /\ delta => onDisk = file[p]
        /\ ~delta /\ resumes => onDisk.rows = file[p].rows /\ onDisk.old = file[p].old
        /\ ~delta /\ ~resumes => onDisk.rows = {}
        /\ ~delta => onDisk.stamp = l
    <3>1. /\ [file[p] EXCEPT !.stamp = l] \in File /\ [file[p] EXCEPT !.stamp = l].paused = file[p].paused
          /\ [file[p] EXCEPT !.stamp = l].rows = file[p].rows /\ [file[p] EXCEPT !.stamp = l].old = file[p].old
          /\ [file[p] EXCEPT !.stamp = l].stamp = l
      BY <2>1 DEF File
    <3>2. /\ [Empty EXCEPT !.stamp = l, !.paused = file[p].paused] \in File
          /\ [Empty EXCEPT !.stamp = l, !.paused = file[p].paused].paused = file[p].paused
          /\ [Empty EXCEPT !.stamp = l, !.paused = file[p].paused].rows = {}
          /\ [Empty EXCEPT !.stamp = l, !.paused = file[p].paused].stamp = l
      BY <2>1 DEF File, Empty, NoFile
    <3>3. QED BY <2>1, <3>1, <3>2
  <2>5. /\ next \in Job /\ next.lib = l /\ next.delta = delta /\ next.before = file[p]
    BY <2>1, <2>2 DEF Job
  <2> HIDE DEF onDisk, next
  <2>6. next # None
    BY <2>5
  <2>7. /\ file' \in [Paths -> File] /\ file'[p] = onDisk
        /\ job' \in [Paths -> Job \cup {None}] /\ job'[p] = next
        /\ \A q \in Paths \ {p} : file'[q] = file[q] /\ job'[q] = job[q]
    BY <1>1, <1>6, <2>4, <2>5
  <2>8. /\ p = Original => l = server.primary
        /\ p \in Libs => l = p
    BY <1>3 DEF PathFor
  <2>9. CopyOK(p, onDisk)
    <3>1. CASE delta
      BY <2>1, <2>4, <3>1
    <3>2. CASE ~delta /\ resumes
      <4>1. file[p].rows \subseteq file[p].old \cup {l}
        BY <2>1, <2>3, <3>2 DEF CopyOK, File
      <4>2. QED BY <2>1, <2>4, <2>8, <3>2, <4>1 DEF CopyOK
    <3>3. CASE ~delta /\ ~resumes
      BY <2>4, <2>8, <3>3 DEF CopyOK
    <3>4. QED BY <3>1, <3>2, <3>3
  <2>10. Copies(p)' = {onDisk, file[p]}
    BY <2>5, <2>6, <2>7 DEF Copies
  <2>11. /\ FilesOK' /\ JobsOK'
         /\ \A k \in Libs : Apart(k) => Apart(k)'
         /\ \A k \in Libs : /\ \A f \in Copies(k)' : f.rows # {} => Apart(k)'
                            /\ job'[k] # None => Apart(k)'
    <3>1. \A f \in Copies(p)' : CopyOK(p, f) /\ (f.stamp = None => \E g \in Copies(p) : g.stamp = None)
      BY <2>1, <2>4, <2>9, <2>10 DEF Copies
    <3>2. PathFor(job'[p].lib) = p /\ (~job'[p].delta => file'[p].stamp = job'[p].lib)
      BY <1>3, <2>4, <2>5, <2>7
    <3>3. p = Original => file'[p].rows \subseteq file[p].rows \cup {server.primary}
      BY <2>4, <2>7
    <3>4. named \subseteq named' /\ restored' = restored
      BY <1>2, <1>6
    <3>5. p \in Libs => Apart(p) \/ p \in named'
      <4>1. CASE call[c].named
        BY <1>6, <2>8, <4>1
      <4>2. CASE ~call[c].named
        BY <1>2, <1>3, <4>2 DEF ServedInv, ChosenOK
      <4>3. QED BY <4>1, <4>2
    <3>6. QED BY <1>2, <2>7, <3>1, <3>2, <3>3, <3>4, <3>5, IndexMoves
  <2>12. /\ new \in Calls /\ new.pc = "over"
         /\ new.lib = call[c].lib /\ new.path = call[c].path /\ new.named = call[c].named
    BY <1>1 DEF Calls, Pcs, Answers
  <2>13. call' = [call EXCEPT ![c] = new]
    BY <1>6 DEF Answer
  <2> HIDE DEF new
  <2>14. call'[c] = new /\ \A d \in Callers \ {c} : call'[d] = call[d]
    BY <1>1, <2>13
  <2>15. ChosenOK'
    <3>1. call'[c].pc # "acting"
      BY <2>12, <2>14
    <3>2. QED BY <2>11, <2>14, <3>1, ChosenKept
  <2>16. CallsOK' /\ call' \in [Callers -> Calls]
    BY <1>2, <2>12, <2>13, CallsKept
  <2>17. CommandTypes'
    BY <1>2, <2>7, <2>16 DEF ServedInv, CommandTypes
  <2>18. HoldOK'
    <3>1. moving[p] = None /\ held[p] = file[p].paused
      BY <1>6 DEF ServedInv, HoldOK
    <3>2. \A q \in Paths : moving[q] # None => moving[q] \in Callers /\ moving[q] # c
      BY <1>2 DEF ServedInv, CommandTypes, HoldOK
    <3>3. ASSUME NEW q \in Paths PROVE
            /\ moving'[q] = None => held'[q] = file'[q].paused
            /\ moving'[q] # None =>
                 /\ held'[q]
                 /\ call'[moving'[q]].pc = "persisting" /\ call'[moving'[q]].path = q
                 /\ call'[moving'[q]].action \in {"pause", "resume"}
                 /\ file'[q].paused = (call'[moving'[q]].action = "resume")
            /\ held'[q] /\ job'[q] # None => job'[q].cancelled
      <4>1. CASE q = p
        BY <1>2, <1>6, <2>4, <2>7, <3>1, <4>1
      <4>2. CASE q # p
        BY <1>2, <2>7, <2>14, <3>2, <4>2 DEF ServedInv, HoldOK
      <4>3. QED BY <4>1, <4>2
    <3>4. ASSUME NEW d \in Callers, call'[d].pc = "persisting" PROVE moving'[call'[d].path] = d
      BY <1>2, <2>12, <2>14, <3>4 DEF ServedInv, HoldOK
    <3>5. QED BY <3>3, <3>4 DEF HoldOK
  <2>19. QED BY <2>11, <2>15, <2>16, <2>17, <2>18 DEF ServedInv
<1>7. QED BY <1>4, <1>5, <1>6

LEMMA RestartServed == ASSUME ServedInv, Restart PROVE ServedInv'
<1> USE CommandFacts
<1>1. /\ file \in [Paths -> File] /\ job \in [Paths -> Job \cup {None}]
  BY DEF ServedInv, CommandTypes
<1>2. PICK d \in Libs : Started(Committed, d)
  BY DEF Restart
<1>3. /\ file' = [Committed EXCEPT ![Original].there = TRUE]
      /\ server' = [up |-> TRUE, command |-> FALSE, default |-> d, primary |-> Primary(Committed[Original], d)]
      /\ held' = [p \in Paths |-> Committed[p].paused]
  BY <1>2 DEF Started
<1>4. /\ moving' = [p \in Paths |-> None] /\ job' = [p \in Paths |-> None] /\ state' = [p \in Paths |-> "idle"]
      /\ call' = [c \in Callers |-> NoCall]
      /\ restored' = restored \cup (file'[Original].rows \ file[Original].rows)
      /\ named' = named
  BY DEF Restart
<1>5. ASSUME NEW p \in Paths
      PROVE  /\ Committed[p] \in File
             /\ \E g \in Copies(p) :
                  Committed[p].rows = g.rows /\ Committed[p].old = g.old /\ Committed[p].stamp = g.stamp
  <2>1. CASE job[p] = None
    <3>1. Committed[p] = file[p]
      BY <2>1 DEF Committed
    <3>2. QED BY <1>1, <3>1 DEF Copies
  <2>2. CASE job[p] # None
    <3>1. Committed[p] = [job[p].before EXCEPT !.paused = file[p].paused] /\ job[p].before \in File /\ file[p] \in File
      BY <1>1, <2>2 DEF Committed, Job
    <3>2. /\ Committed[p] \in File
          /\ Committed[p].rows = job[p].before.rows /\ Committed[p].old = job[p].before.old
          /\ Committed[p].stamp = job[p].before.stamp
      BY <3>1 DEF File
    <3>3. QED BY <2>2, <3>2 DEF Copies
  <2>3. QED BY <2>1, <2>2
<1>6. Committed \in [Paths -> File]
  BY <1>5 DEF Committed
<1>7. ASSUME NEW p \in Paths
      PROVE  /\ file'[p] \in File /\ file'[p].paused = Committed[p].paused
             /\ \E g \in Copies(p) : file'[p].rows = g.rows /\ file'[p].old = g.old /\ file'[p].stamp = g.stamp
             /\ file'[p].stamp = Committed[p].stamp
  <2>1. [Committed[p] EXCEPT !.there = TRUE] \in File
    BY <1>5 DEF File
  <2>2. file'[p] = IF p = Original THEN [Committed[p] EXCEPT !.there = TRUE] ELSE Committed[p]
    BY <1>3, <1>6
  <2>3. /\ file'[p].rows = Committed[p].rows /\ file'[p].old = Committed[p].old
        /\ file'[p].stamp = Committed[p].stamp /\ file'[p].paused = Committed[p].paused
    BY <1>5, <2>2 DEF File
  <2>4. QED BY <1>5, <2>1, <2>2, <2>3
<1> HIDE DEF Committed
<1>8. file' \in [Paths -> File]
  BY <1>3, <1>6, <1>7
<1>9. \A p \in Paths : Copies(p)' = {file'[p]}
  BY <1>4 DEF Copies
<1>10. /\ server'.default = d /\ server'.primary = Primary(Committed[Original], d)
       /\ Committed[Original].stamp \in Libs \cup {None} /\ server'.primary \in Libs
  BY <1>3, <1>5 DEF File, Primary
<1>11. CommandTypes'
  <2>1. held' \in [Paths -> BOOLEAN]
    BY <1>3, <1>5 DEF File
  <2>2. call' \in [Callers -> Calls]
    BY <1>4, NoCallType
  <2>3. server' \in [up : BOOLEAN, command : BOOLEAN, default : Libs, primary : Libs]
    BY <1>3, <1>10
  <2>4. QED BY <1>4, <1>8, <2>1, <2>2, <2>3 DEF CommandTypes
<1>12. \A c \in Callers : call'[c].pc = "idle" /\ call'[c].answer = "none"
  BY <1>4 DEF NoCall
<1>13. CallsOK'
  BY <1>12 DEF CallsOK, Underway, Runs
<1>14. HoldOK'
  BY <1>3, <1>4, <1>7, <1>12 DEF HoldOK
<1>15. FilesOK'
  <2>1. ASSUME NEW p \in Paths, NEW f \in Copies(p)' PROVE CopyOK(p, f)'
    <3>0. f = file'[p]
      BY <1>9
    <3>1. PICK g \in Copies(p) : f.rows = g.rows /\ f.old = g.old /\ f.stamp = g.stamp
      BY <1>7, <3>0
    <3>2. CopyOK(p, g)
      BY DEF ServedInv, FilesOK
    <3>3. p = Original => /\ f.stamp \in {None, server'.primary}
                          /\ server'.primary # server'.default => f.stamp = server'.primary
      BY <1>7, <1>10, <3>0 DEF Primary
    <3>4. QED BY <3>1, <3>2, <3>3 DEF CopyOK
  <2>2. QED BY <2>1 DEF FilesOK
<1>16. JobsOK'
  BY <1>4 DEF JobsOK
<1>17. ChosenOK'
  <2>1. ASSUME NEW l \in Libs, Apart(l) PROVE Apart(l)'
    <3>1. CASE l \in named \cup restored
      BY <1>4, <3>1 DEF Apart
    <3>2. CASE l \notin named \cup restored
      <4>1. PICK g \in Copies(Original) : file'[Original].rows = g.rows /\ file'[Original].stamp = g.stamp
        BY <1>7
      <4>2. l \notin file[Original].rows /\ g.stamp \notin {None, l}
        BY <2>1, <3>2, <4>1 DEF Apart
      <4>3. CASE l \in file'[Original].rows
        BY <1>4, <4>2, <4>3 DEF Apart
      <4>4. CASE l \notin file'[Original].rows
        BY <1>9, <4>1, <4>2, <4>4 DEF Apart
      <4>5. QED BY <4>3, <4>4
    <3>3. QED BY <3>1, <3>2
  <2>2. ASSUME NEW l \in Libs, NEW f \in Copies(l)', f.rows # {} PROVE Apart(l)'
    <3>1. f = file'[l]
      BY <1>9
    <3>2. \E g \in Copies(l) : g.rows # {}
      BY <1>7, <2>2, <3>1
    <3>3. QED BY <2>1, <3>2 DEF ServedInv, ChosenOK
  <2>3. QED BY <1>4, <1>12, <2>2 DEF ChosenOK
<1>18. QED BY <1>11, <1>13, <1>14, <1>15, <1>16, <1>17 DEF ServedInv

LEMMA ServedStep == ASSUME ServedInv, [CommandNext]_commandVars PROVE ServedInv'
<1>1. ASSUME NEW c \in Callers, NEW a \in Actions, NEW l \in Libs \cup {None}, Ask(c, a, l) PROVE ServedInv'
  BY <1>1, AskServed
<1>2. ASSUME NEW c \in Callers, CallSteps(c) PROVE ServedInv'
  BY <1>2, FindServed, DecideServed, UnreadableServed, StatusServed, StopServed, SetPausedServed,
     PersistServed, StartServed, ChooseServed, OverServed, PollServed, ExitServed DEF CallSteps
<1>3. ASSUME NEW p \in Paths, JobPage(p) \/ \E how \in {"done", "error"} : JobEnds(p, how) PROVE ServedInv'
  BY <1>3, JobPageServed, JobEndsServed
<1>4. CASE Interrupt \/ ReachChanges \/ Restart
  BY <1>4, InterruptServed, ReachChangesServed, RestartServed
<1>5. CASE UNCHANGED commandVars
  <2>1. UNCHANGED <<file, server, held, moving, job, state, call, ghosts>>
    BY <1>5 DEF commandVars
  <2>2. SameIndexes /\ Same
    BY <2>1, Kept
  <2>3. QED BY <2>1, <2>2, NoCallMoves
<1>6. CommandActions \subseteq Actions
  BY DEF CommandActions, Actions, ReadOnly, Starts
<1>7. QED BY <1>1, <1>2, <1>3, <1>4, <1>5, <1>6 DEF CommandNext

-----------------------------------------------------------------------------
(* What the exit of a command tells.                                       *)

Watched(p) == job[p] # None \/ state[p] # "idle"

\* While a command runs, nothing is under way or has ended but what its call watches.
LEMMA OneCall ==
  ASSUME ExitOK, server.command, NEW c \in Callers, call[c].pc # "idle"
  PROVE  /\ calls = 1 /\ \A d \in Callers \ {c} : call[d].pc = "idle"
         /\ \A p \in Paths : Watched(p) => Watches(c, p)
BY DEF ExitOK, Watched

\* A step of a call, the command's or another.
LEMMA CallStepExit ==
  ASSUME ServedInv, ExitOK, server.up, NEW c \in Callers, call[c].pc # "idle",
         NEW new \in Calls, call' = [call EXCEPT ![c] = new],
         server'.command = server.command,
         new.pc = "exited" => server.command /\ ~server'.up,
         \A p \in Paths : file[p].there => file'[p].there,
         new.pc = "acting" => file'[new.path].there,
         server.command =>
           /\ new.pc # "idle" /\ UNCHANGED <<calls, reach>>
           /\ new.pc \notin {"idle", "over", "exited"} \/ new.answer \in {"building", "started"} => new.lib \in reach
           /\ \A p \in Paths : Watched(p)' => Watches(c, p)'
  PROVE  ExitOK'
<1> USE CommandFacts
<1>1. call \in [Callers -> Calls]
  BY DEF ServedInv, CommandTypes
<1>2. call'[c] = new /\ \A d \in Callers \ {c} : call'[d] = call[d]
  BY <1>1
<1>3. \A d \in Callers : call[d].pc = "acting" => call[d].path \in Paths
  BY PathFacts DEF ServedInv, CallsOK, CommandTypes, Underway
<1>4. \A d \in Callers : /\ call'[d].pc = "exited" => server'.command /\ ~server'.up
                         /\ call'[d].pc = "acting" => file'[call'[d].path].there
  BY <1>2, <1>3 DEF ExitOK
<1>5. ASSUME server.command PROVE ExitOK'
  <2>1. calls' = 1 /\ \A d \in Callers \ {c} : call'[d].pc = "idle"
    BY <1>2, <1>5, OneCall
  <2>2. \A d \in Callers : /\ call'[d].pc # "idle" => calls' = 1 /\ \A e \in Callers \ {d} : call'[e].pc = "idle"
                           /\ Underway(d)' \/ Runs(d)' => call'[d].lib \in reach'
    <3>1. \A d \in Callers \ {c} : Underway(d)' \/ Runs(d)' => call[d].lib \in reach
      BY <1>2, <1>5 DEF ExitOK, Underway, Runs
    <3>2. Underway(c)' \/ Runs(c)' => new.lib \in reach
      BY <1>2, <1>5 DEF Underway, Runs
    <3>3. QED BY <1>2, <1>5, <2>1, <3>1, <3>2
  <2>3. \A p \in Paths : Watched(p)' => \E d \in Callers : call'[d].pc # "idle" /\ Watches(d, p)'
    BY <1>2, <1>5
  <2>4. QED BY <1>4, <2>1, <2>2, <2>3 DEF ExitOK, Watched
<1>6. CASE ~server.command
  BY <1>4, <1>6 DEF ExitOK
<1>7. QED BY <1>5, <1>6

\* A step of a job or an interrupt.
LEMMA JobStepExit ==
  ASSUME ServedInv, ExitOK, server.command, server'.command, UNCHANGED <<call, calls, reach>>,
         server.up,
         \A p \in Paths : file[p].there => file'[p].there,
         \A p \in Paths : Watched(p)' => Watched(p),
         \A p \in Paths, c \in Callers : Watched(p)' /\ call[c].pc # "idle" /\ Watches(c, p) => Watches(c, p)'
  PROVE  ExitOK'
<1> USE CommandFacts
<1>1. \A c \in Callers : call[c].pc # "exited"
  BY DEF ExitOK
<1>2. \A c \in Callers : call[c].pc = "acting" => file'[call[c].path].there
  <2>1. \A c \in Callers : call[c].pc = "acting" => call[c].path \in Paths
    BY PathFacts DEF ServedInv, CallsOK, CommandTypes, Underway
  <2>2. QED BY <2>1 DEF ExitOK
<1>3. \A d \in Callers : /\ call'[d].pc # "idle" => calls' = 1 /\ \A e \in Callers \ {d} : call'[e].pc = "idle"
                         /\ Underway(d)' \/ Runs(d)' => call'[d].lib \in reach'
  BY DEF ExitOK, Underway, Runs
<1>4. \A p \in Paths : Watched(p)' => \E d \in Callers : call'[d].pc # "idle" /\ Watches(d, p)'
  <2> SUFFICES ASSUME NEW p \in Paths, Watched(p)' PROVE \E d \in Callers : call'[d].pc # "idle" /\ Watches(d, p)'
    OBVIOUS
  <2>0. Watched(p)
    OBVIOUS
  <2>1. PICK d \in Callers : call[d].pc # "idle" /\ Watches(d, p)
    BY <2>0 DEF ExitOK, Watched
  <2>2. QED BY <2>1
<1>5. calls' \in {0, 1}
  BY DEF ExitOK
<1>6. QED BY <1>1, <1>2, <1>3, <1>4, <1>5 DEF ExitOK, Watched

\* A call watches on while the index it watches stays what it was and nothing starts on it.
LEMMA WatchesOn ==
  ASSUME NEW p \in Paths, NEW c \in Callers, Watches(c, p),
         UNCHANGED <<call, reach>>, server'.primary = server.primary,
         file'[p].there = file[p].there, file'[p].stamp = file[p].stamp,
         (call[c].pc = "over" /\ ~Runs(c)) \/ call[c].pc = "exited" =>
           (job[p] = None => job'[p] = None) /\ state'[p] = state[p]
  PROVE  Watches(c, p)'
BY DEF Watches, Underway, Runs, Reachable, PathFor

LEMMA JobPageExit == ASSUME ServedInv, ExitOK, server.command, NEW p \in Paths, JobPage(p) PROVE ExitOK'
<1> USE CommandFacts
<1>1. /\ file \in [Paths -> File] /\ job \in [Paths -> Job \cup {None}]
  BY DEF ServedInv, CommandTypes
<1>2. /\ server.up /\ job[p] # None /\ UNCHANGED <<server, state, call, calls, reach>>
      /\ file' = [file EXCEPT ![p].rows = @ \cup {job[p].lib}, ![p].checkpoint = TRUE]
      /\ job' = [job EXCEPT ![p].before = file'[p]]
  BY DEF JobPage
<1>3. /\ \A q \in Paths : file'[q].there = file[q].there /\ file'[q].stamp = file[q].stamp
      /\ \A q \in Paths \ {p} : job'[q] = job[q]
  BY <1>1, <1>2 DEF File
<1>0. \A q \in Paths : Watched(q)' => Watched(q)
  BY <1>2, <1>3 DEF Watched
<1>4. ASSUME NEW q \in Paths, NEW c \in Callers, Watched(q)', Watches(c, q) PROVE Watches(c, q)'
  <2>1. UNCHANGED <<call, reach>> /\ server'.primary = server.primary /\ state'[q] = state[q]
    BY <1>2
  <2>2. file'[q].there = file[q].there /\ file'[q].stamp = file[q].stamp
    BY <1>3
  <2>3. CASE q = p
    <3>1. ~(call[c].pc = "over" /\ ~Runs(c)) /\ call[c].pc # "exited"
      BY <1>2, <1>4, <2>3 DEF Watches
    <3>2. QED BY <1>4, <2>1, <2>2, <3>1, WatchesOn
  <2>4. CASE q # p
    <3>1. job'[q] = job[q]
      BY <1>3, <2>4
    <3>2. QED BY <1>4, <2>1, <2>2, <3>1, WatchesOn
  <2>5. QED BY <2>3, <2>4
<1>5. QED BY <1>0, <1>2, <1>3, <1>4, JobStepExit

LEMMA JobEndsExit ==
  ASSUME ServedInv, ExitOK, server.command, NEW p \in Paths, NEW how \in {"done", "error"}, JobEnds(p, how)
  PROVE  ExitOK'
<1> USE CommandFacts
<1>1. /\ file \in [Paths -> File] /\ job \in [Paths -> Job \cup {None}] /\ state \in [Paths -> {"idle", "done", "error"}]
  BY DEF ServedInv, CommandTypes
<1>2. /\ server.up /\ job[p] # None /\ UNCHANGED <<server, call, calls, reach>>
      /\ job' = [job EXCEPT ![p] = None]
      /\ state' = [state EXCEPT ![p] = how]
      /\ file' = [file EXCEPT ![p] =
           IF how = "error" \/ job[p].cancelled THEN file[p]
           ELSE IF job[p].delta THEN [file[p] EXCEPT !.rows = {job[p].lib}, !.stamp = job[p].lib]
           ELSE [file[p] EXCEPT !.version = TRUE, !.checkpoint = FALSE]]
  BY DEF JobEnds
<1>3. /\ file'[p].there = file[p].there /\ file'[p].stamp \in {file[p].stamp, job[p].lib}
      /\ \A q \in Paths \ {p} : file'[q] = file[q] /\ job'[q] = job[q] /\ state'[q] = state[q]
  BY <1>1, <1>2 DEF File
<1>4. job[p].lib \in Libs /\ PathFor(job[p].lib) = p
  BY <1>1, <1>2 DEF ServedInv, JobsOK, Job
<1>0. \A q \in Paths : Watched(q)' => Watched(q)
  BY <1>2, <1>3 DEF Watched
<1>5. ASSUME NEW q \in Paths, NEW c \in Callers, Watched(q)', Watches(c, q) PROVE Watches(c, q)'
  <2>1. CASE q = p
    <3>1. ~(call[c].pc = "over" /\ ~Runs(c)) /\ call[c].pc # "exited"
      BY <1>2, <1>5, <2>1 DEF Watches
    <3>2. job[p].lib = call[c].lib /\ job[p].lib \in reach
      <4>1. server.primary \in Libs
        BY DEF ServedInv, CommandTypes
      <4>2. QED BY <1>4, <1>5, <2>1, <4>1, PathFacts DEF Watches
    <3>3. Reachable(file[p].stamp) => Reachable(file'[p].stamp)
      BY <1>3, <3>2 DEF Reachable
    <3>4. QED BY <1>2, <1>3, <1>5, <2>1, <3>1, <3>3 DEF Watches, Underway, Runs, Reachable, PathFor
  <2>2. CASE q # p
    BY <1>2, <1>3, <1>5, <2>2 DEF Watches, Underway, Runs, Reachable, PathFor
  <2>3. QED BY <2>1, <2>2
<1>6. QED BY <1>0, <1>2, <1>3, <1>5, JobStepExit

LEMMA InterruptExit == ASSUME ServedInv, ExitOK, Interrupt PROVE ExitOK'
<1> USE CommandFacts
<1>1. /\ file \in [Paths -> File] /\ job \in [Paths -> Job \cup {None}]
      /\ server \in [up : BOOLEAN, command : BOOLEAN, default : Libs, primary : Libs]
  BY DEF ServedInv, CommandTypes
<1>2. /\ server.up /\ server.command /\ UNCHANGED <<file, state, call, calls, reach>>
      /\ job' = [p \in Paths |-> IF job[p] # None /\ asked = 0 THEN [job[p] EXCEPT !.cancelled = TRUE] ELSE job[p]]
      /\ server' = [server EXCEPT !.up = asked = 0]
  BY DEF Interrupt
<1>3. server'.command /\ server'.primary = server.primary
  BY <1>1, <1>2
<1>4. ASSUME NEW q \in Paths PROVE job'[q] # None => job[q] # None
  BY <1>2
<1>0. \A q \in Paths : Watched(q)' => Watched(q)
  BY <1>2, <1>4 DEF Watched
<1>5. ASSUME NEW q \in Paths, NEW c \in Callers, Watched(q)', Watches(c, q) PROVE Watches(c, q)'
  <2>1. job[q] = None => job'[q] = None
    BY <1>2
  <2>2. QED BY <1>2, <1>3, <1>5, <2>1 DEF Watches, Underway, Runs, Reachable, PathFor
<1>6. QED BY <1>0, <1>2, <1>3, <1>5, JobStepExit

\* A step of no call of a server.
LEMMA ServerStepExit ==
  ASSUME ServedInv, ExitOK, ~server.command, ~server'.command, UNCHANGED call,
         \A p \in Paths : file[p].there => file'[p].there
  PROVE  ExitOK'
<1>1. \A d \in Callers : call[d].pc = "acting" => call[d].path \in Paths
  BY PathFacts DEF ServedInv, CallsOK, CommandTypes, Underway
<1>2. QED BY <1>1 DEF ExitOK

\* What a command's call that is under way, but not to ask for the status, tells: nothing runs
\* and nothing has run.
LEMMA NothingWatched ==
  ASSUME ExitOK, server.command, NEW c \in Callers,
         Underway(c),
         call[c].action # "status" \/ call[c].pc \notin {"finding", "deciding", "acting"}
  PROVE  \A p \in Paths : job[p] = None /\ state[p] = "idle"
<1>1. call[c].pc # "idle"
  BY DEF Underway
<1>2. \A p \in Paths : ~Watches(c, p)
  BY DEF Watches
<1>3. QED BY <1>1, <1>2, OneCall DEF Watched

LEMMA AskExit ==
  ASSUME ServedInv, ExitOK, NEW c \in Callers, NEW a \in Actions, NEW l \in Libs \cup {None},
         server.command => a \in CommandActions, Ask(c, a, l)
  PROVE  ExitOK'
<1> USE CommandFacts
<1> DEFINE lib == IF l = None THEN server.default ELSE l
           reached == lib \in reach \/ (a = "search" /\ l = None)
           new == IF reached
                  THEN [NoCall EXCEPT !.pc = "finding", !.action = a, !.named = l # None,
                                      !.lib = lib, !.path = PathFor(lib)]
                  ELSE [NoCall EXCEPT !.pc = "over", !.action = a, !.answer = "unreachable"]
<1>1. /\ call \in [Callers -> Calls] /\ call[c].pc = "idle"
      /\ call' = [call EXCEPT ![c] = new]
      /\ calls < (IF server.command THEN 1 ELSE MaxCalls) /\ calls' = calls + 1
      /\ UNCHANGED <<file, server, job, state, reach>>
  BY DEF ServedInv, CommandTypes, Ask, Up
<1>2. /\ new.pc \in {"finding", "over"} /\ new.answer \in {"none", "unreachable"}
      /\ new.pc = "finding" => reached /\ new.lib = lib
  BY DEF NoCall
<1>3. server.command /\ reached => lib \in reach
  BY DEF CommandActions
<1> HIDE DEF new, reached
<1>4. call'[c] = new /\ \A d \in Callers \ {c} : call'[d] = call[d]
  BY <1>1
<1>5. CASE server.command
  <2>1. calls = 0 /\ \A d \in Callers : call[d].pc = "idle"
    BY <1>1, <1>5 DEF ExitOK
  <2>2. \A p \in Paths : ~Watched(p)
    BY <1>5, <2>1 DEF ExitOK, Watched
  <2>3. \A d \in Callers : call'[d].pc # "acting" /\ call'[d].pc # "exited"
    BY <1>2, <1>4, <2>1
  <2>4. \A d \in Callers : /\ call'[d].pc # "idle" => calls' = 1 /\ \A e \in Callers \ {d} : call'[e].pc = "idle"
                           /\ Underway(d)' \/ Runs(d)' => call'[d].lib \in reach'
    <3>1. Underway(c)' \/ Runs(c)' => call'[c].lib \in reach'
      BY <1>1, <1>2, <1>3, <1>4, <1>5 DEF Underway, Runs
    <3>2. \A d \in Callers \ {c} : Underway(d)' \/ Runs(d)' => call'[d].lib \in reach'
      BY <1>1, <1>4, <1>5 DEF ExitOK, Underway, Runs
    <3>3. QED BY <1>1, <1>4, <2>1, <3>1, <3>2
  <2>5. calls' = 1
    BY <1>1, <2>1
  <2>6. \A p \in Paths : ~Watched(p)'
    BY <1>1, <2>2 DEF Watched
  <2>7. QED BY <2>3, <2>4, <2>5, <2>6 DEF ExitOK, Watched
<1>6. CASE ~server.command
  <2>1. \A d \in Callers : call[d].pc = "acting" => call[d].path \in Paths
    BY PathFacts DEF ServedInv, CallsOK, CommandTypes, Underway
  <2>2. QED BY <1>1, <1>2, <1>4, <1>6, <2>1 DEF ExitOK
<1>7. QED BY <1>5, <1>6

LEMMA FindExit == ASSUME ServedInv, ExitOK, NEW c \in Callers, Find(c) PROVE ExitOK'
<1> DEFINE next == IF call[c].action = "search" THEN "choosing" ELSE "deciding"
           there == file[call[c].path].there
           new == [call[c] EXCEPT !.pc = next, !.found = there]
<1>1. /\ call \in [Callers -> Calls] /\ file \in [Paths -> File] /\ call[c] \in Calls
      /\ call[c].pc = "finding" /\ server.up /\ Underway(c)
      /\ UNCHANGED <<file, server, job, state, reach, calls>>
  BY DEF ServedInv, CommandTypes, Find, Up, Underway
<1>2. call[c].path \in Paths
  BY <1>1, PathFacts DEF ServedInv, CallsOK, CommandTypes
<1>3. there \in BOOLEAN
  BY <1>1, <1>2 DEF File
<1>4. call' = [call EXCEPT ![c] = new]
  BY <1>1 DEF Find
<1>5. /\ new \in Calls /\ new.pc = next /\ new.found = there /\ new.action = call[c].action
      /\ new.lib = call[c].lib /\ new.path = call[c].path /\ new.answer = call[c].answer
  BY <1>1, <1>3 DEF Calls, Pcs
<1> HIDE DEF new
<1>6. call'[c] = new
  BY <1>1, <1>4
<1>7. ASSUME server.command, NEW p \in Paths, Watched(p)' PROVE Watches(c, p)'
  <2>1. Watches(c, p)
    BY <1>1, <1>7, OneCall DEF Watched, Underway
  <2>2. QED BY <1>1, <1>5, <1>6, <2>1 DEF Watches, Underway, Reachable, PathFor
<1>8. server.command => call[c].lib \in reach
  BY <1>1 DEF ExitOK
<1>9. QED BY <1>1, <1>4, <1>5, <1>7, <1>8, CallStepExit

\* A call that is over, which nothing is left to be asked about.
LEMMA AnswerExit ==
  ASSUME ServedInv, ExitOK, NEW c \in Callers, call[c].pc # "idle", server.up,
         NEW a \in Answers, Answer(c, a), UNCHANGED <<server, reach, calls>>,
         \A p \in Paths : file[p].there => file'[p].there,
         server.command =>
           /\ a \in {"building", "started"} => call[c].lib \in reach
           /\ \A p \in Paths : Watched(p)' =>
                /\ call[c].path = p /\ call[c].lib \in Libs \cap reach /\ PathFor(call[c].lib) = p
                /\ file'[p].there /\ Reachable(file'[p].stamp)
                /\ a \notin Refused
                /\ a \in {"building", "started"} \/ (job'[p] = None /\ a = state'[p])
  PROVE  ExitOK'
<1> DEFINE new == [call[c] EXCEPT !.pc = "over", !.answer = a]
<1>1. call \in [Callers -> Calls] /\ call[c] \in Calls
  BY DEF ServedInv, CommandTypes
<1>2. call' = [call EXCEPT ![c] = new]
  BY <1>1 DEF Answer
<1>3. /\ new \in Calls /\ new.pc = "over" /\ new.answer = a
      /\ new.lib = call[c].lib /\ new.path = call[c].path
  BY <1>1 DEF Calls, Pcs
<1> HIDE DEF new
<1>4. call'[c] = new
  BY <1>1, <1>2
<1>5. ASSUME server.command, NEW p \in Paths, Watched(p)' PROVE Watches(c, p)'
  BY <1>3, <1>4, <1>5 DEF Watches, Underway, Runs, Reachable, PathFor
<1>6. QED BY <1>2, <1>3, <1>5, CallStepExit

LEMMA DecideExit == ASSUME ServedInv, ExitOK, NEW c \in Callers, Decide(c) PROVE ExitOK'
<1> USE CommandFacts
<1>1. /\ call \in [Callers -> Calls] /\ file \in [Paths -> File] /\ call[c] \in Calls
      /\ call[c].pc = "deciding" /\ server.up /\ Underway(c)
      /\ UNCHANGED <<server, job, state, reach, calls>>
  BY DEF ServedInv, CommandTypes, Decide, Up, Underway
<1>2. call[c].path \in Paths
  BY <1>1, PathFacts DEF ServedInv, CallsOK, CommandTypes
<1>3. ASSUME server.command, NEW p \in Paths, Watched(p) PROVE Watches(c, p) /\ call[c].action = "status" /\ call[c].found
  BY <1>1, <1>3, OneCall DEF Underway, Watches
<1>4. \/ \E a \in {"second crawl", "no index"} : Answer(c, a) /\ UNCHANGED file /\ ~(call[c].action = "status" /\ call[c].found)
      \/ To(c, "acting") /\ file' = [file EXCEPT ![call[c].path].there = TRUE]
  BY DEF Decide, Starts
<1>5. ASSUME NEW a \in {"second crawl", "no index"}, Answer(c, a), UNCHANGED file,
             ~(call[c].action = "status" /\ call[c].found)
      PROVE  ExitOK'
  <2>1. server.command => \A p \in Paths : ~Watched(p)'
    BY <1>1, <1>3, <1>5 DEF Watched
  <2>2. a \in Answers /\ a \notin {"building", "started"}
    BY <1>5 DEF Answers, Refused
  <2>3. QED BY <1>1, <1>5, <2>1, <2>2, AnswerExit
<1>6. ASSUME To(c, "acting"), file' = [file EXCEPT ![call[c].path].there = TRUE] PROVE ExitOK'
  <2> DEFINE new == [call[c] EXCEPT !.pc = "acting"]
  <2>1. call' = [call EXCEPT ![c] = new]
    BY <1>1, <1>6 DEF To
  <2>2. /\ new \in Calls /\ new.pc = "acting" /\ new.action = call[c].action
        /\ new.lib = call[c].lib /\ new.path = call[c].path /\ new.answer = call[c].answer
    BY <1>1 DEF Calls, Pcs
  <2> HIDE DEF new
  <2>3. call'[c] = new
    BY <1>1, <2>1
  <2>4. /\ \A p \in Paths : (file[p].there => file'[p].there) /\ file'[p].stamp = file[p].stamp
        /\ file'[call[c].path].there
    BY <1>1, <1>2, <1>6 DEF File
  <2>5. ASSUME server.command, NEW p \in Paths, Watched(p)' PROVE Watches(c, p)'
    <3>1. Watched(p)
      BY <1>1, <2>5 DEF Watched
    <3>2. Watches(c, p) /\ call[c].action = "status"
      BY <1>3, <2>5, <3>1
    <3>3. QED BY <1>1, <2>2, <2>3, <2>4, <3>2 DEF Watches, Underway, Reachable, PathFor
  <2>6. server.command => call[c].lib \in reach
    BY <1>1 DEF ExitOK
  <2>7. QED BY <1>1, <2>1, <2>2, <2>4, <2>5, <2>6, CallStepExit
<1>7. QED BY <1>4, <1>5, <1>6

LEMMA UnreadableExit == ASSUME ServedInv, ExitOK, NEW c \in Callers, Unreadable(c) PROVE ExitOK'
<1>1. /\ call[c].pc = "acting" /\ server.up /\ ~Reachable(file[call[c].path].stamp)
      /\ Answer(c, "unreachable") /\ "unreachable" \in Answers
      /\ UNCHANGED <<file, server, job, state, reach, calls>>
  BY DEF Unreadable, Up, Answers, Refused
<1>2. ASSUME server.command, NEW p \in Paths, Watched(p)' PROVE FALSE
  <2>1. Watches(c, p)
    BY <1>1, <1>2, OneCall DEF Watched
  <2>2. QED BY <1>1, <2>1 DEF Watches
<1>3. QED BY <1>1, <1>2, AnswerExit

LEMMA StatusExit == ASSUME ServedInv, ExitOK, NEW c \in Callers, Status(c) PROVE ExitOK'
<1> DEFINE answer == IF job[call[c].path] # None THEN "building" ELSE state[call[c].path]
<1>1. /\ call[c].pc = "acting" /\ server.up /\ Answer(c, answer) /\ Underway(c)
      /\ UNCHANGED <<file, server, job, state, reach, calls>>
  BY DEF Status, Acts, Up, Underway
<1>2. call[c].path \in Paths /\ state \in [Paths -> {"idle", "done", "error"}]
  BY <1>1, PathFacts DEF ServedInv, CallsOK, CommandTypes
<1>3. answer \in {"building", "idle", "done", "error"}
  BY <1>2
<1>4. answer \in Answers /\ answer \notin Refused
  BY <1>3 DEF Answers, Refused
<1>5. ASSUME server.command, NEW p \in Paths, Watched(p)' PROVE Watches(c, p)
  BY <1>1, <1>5, OneCall DEF Watched
<1>6. server.command => call[c].lib \in reach
  BY <1>1 DEF ExitOK
<1>7. ASSUME server.command, NEW p \in Paths, Watched(p)'
      PROVE  answer \in {"building", "started"} \/ (job'[p] = None /\ answer = state'[p])
  BY <1>1, <1>5, <1>7 DEF Watches
<1> HIDE DEF answer
<1>8. ASSUME server.command, NEW p \in Paths, Watched(p)'
      PROVE  /\ call[c].path = p /\ call[c].lib \in Libs \cap reach /\ PathFor(call[c].lib) = p
             /\ file'[p].there /\ Reachable(file'[p].stamp)
  BY <1>1, <1>5, <1>8 DEF Watches
<1>9. QED BY <1>1, <1>4, <1>6, <1>7, <1>8, AnswerExit

LEMMA StopExit == ASSUME ServedInv, ExitOK, NEW c \in Callers, Stop(c) PROVE ExitOK'
<1>1. /\ call[c].pc = "acting" /\ call[c].action = "stop" /\ server.up /\ Underway(c)
      /\ Cancelled(call[c].path) /\ Answer(c, "stopping") /\ "stopping" \in Answers
      /\ UNCHANGED <<file, server, state, reach, calls>>
  BY DEF Stop, Acts, Up, Underway, Answers
<1>2. \A p \in Paths : Watched(p)' => Watched(p)
  BY <1>1 DEF ServedInv, CommandTypes, Cancelled, Watched
<1>3. server.command => \A p \in Paths : ~Watched(p)'
  BY <1>1, <1>2, NothingWatched DEF Watched
<1>4. QED BY <1>1, <1>3, AnswerExit

LEMMA SetPausedExit ==
  ASSUME ServedInv, ExitOK, NEW c \in Callers, NEW paused \in BOOLEAN, SetPaused(c, paused) PROVE ExitOK'
<1> DEFINE p == call[c].path
<1>1. /\ call[c].pc = "acting" /\ call[c].action \in {"pause", "resume"} /\ server.up /\ Underway(c)
      /\ Cancelled(p) \/ UNCHANGED job
      /\ (\E a \in {"failed", "ok"} : Answer(c, a)) \/ To(c, "persisting")
      /\ UNCHANGED <<file, server, state, reach, calls>>
  BY DEF SetPaused, Acts, Up, Underway, PauseStops
<1>2. \A q \in Paths : Watched(q)' => Watched(q)
  BY <1>1 DEF ServedInv, CommandTypes, Cancelled, Watched
<1>3. server.command => \A q \in Paths : ~Watched(q)'
  BY <1>1, <1>2, NothingWatched DEF Watched
<1>4. ASSUME NEW a \in {"failed", "ok"}, Answer(c, a) PROVE ExitOK'
  <2>1. a \in Answers /\ a \notin {"building", "started"}
    BY DEF Answers, Refused
  <2>2. QED BY <1>1, <1>3, <1>4, <2>1, AnswerExit
<1>5. ASSUME To(c, "persisting") PROVE ExitOK'
  <2> DEFINE new == [call[c] EXCEPT !.pc = "persisting"]
  <2>1. call \in [Callers -> Calls] /\ call[c] \in Calls
    BY DEF ServedInv, CommandTypes
  <2>2. call' = [call EXCEPT ![c] = new]
    BY <1>5, <2>1 DEF To
  <2>3. new \in Calls /\ new.pc = "persisting" /\ new.lib = call[c].lib
    BY <2>1 DEF Calls, Pcs
  <2>4. server.command => call[c].lib \in reach
    BY <1>1 DEF ExitOK
  <2> HIDE DEF new
  <2>5. QED BY <1>1, <1>3, <2>2, <2>3, <2>4, CallStepExit
<1>6. QED BY <1>1, <1>4, <1>5

LEMMA PersistExit ==
  ASSUME ServedInv, ExitOK, NEW c \in Callers, NEW works \in BOOLEAN, Persist(c, works) PROVE ExitOK'
<1> DEFINE p == call[c].path
           answer == IF works THEN "ok" ELSE "failed"
<1>1. /\ call[c].pc = "persisting" /\ server.up /\ Underway(c) /\ Answer(c, answer)
      /\ file' = [file EXCEPT ![p].paused = IF works THEN call[c].action = "pause" ELSE @]
      /\ UNCHANGED job \/ (job[p] # None /\ \E f : job' = [job EXCEPT ![p].before = f])
      /\ UNCHANGED <<server, state, reach, calls>>
  BY DEF Persist, Up, Underway
<1>2. /\ file \in [Paths -> File] /\ job \in [Paths -> Job \cup {None}]
  BY DEF ServedInv, CommandTypes
<1>3. \A q \in Paths : (file[q].there => file'[q].there) /\ (job'[q] # None => job[q] # None)
  BY <1>1, <1>2 DEF File
<1>4. server.command => \A q \in Paths : ~Watched(q)'
  BY <1>1, <1>3, NothingWatched DEF Watched
<1>5. answer \in Answers /\ answer \notin {"building", "started"}
  BY DEF Answers, Refused
<1> HIDE DEF answer
<1>6. QED BY <1>1, <1>3, <1>4, <1>5, AnswerExit

LEMMA StartExit == ASSUME ServedInv, ExitOK, NEW c \in Callers, Start(c) PROVE ExitOK'
<1> USE CommandFacts
<1>1. /\ file \in [Paths -> File] /\ job \in [Paths -> Job \cup {None}]
      /\ call \in [Callers -> Calls] /\ call[c] \in Calls
  BY DEF ServedInv, CommandTypes
<1>2. /\ call[c].pc = "acting" /\ call[c].action \in Starts /\ Underway(c) /\ server.up
      /\ Reachable(file[call[c].path].stamp)
      /\ UNCHANGED <<server, state, reach, calls>>
  BY DEF Start, Acts, Up, Underway
<1>3. PICK p \in Paths, l \in Libs : p = call[c].path /\ l = call[c].lib /\ PathFor(l) = p
  BY <1>1, <1>2, PathFacts DEF ServedInv, CallsOK, CommandTypes
<1>4. file[p].there /\ (server.command => l \in reach)
  BY <1>2, <1>3 DEF ExitOK
<1>5. server.command => \A q \in Paths : job[q] = None /\ state[q] = "idle"
  BY <1>2, NothingWatched DEF Starts
<1>6. \/ \E a \in {"held", "building", "another library"} : Answer(c, a) /\ UNCHANGED <<file, job>>
      \/ /\ Answer(c, "started")
         /\ \E next : job' = [job EXCEPT ![p] = next]
         /\ \E f : /\ file' = [file EXCEPT ![p] = f]
                   /\ f.there /\ f.stamp \in {file[p].stamp, l}
  <2> DEFINE delta == call[c].action = "update" /\ ~UpdateBlocked(p)
             onDisk == IF delta THEN file[p]
                       ELSE IF Resumes(p, call[c].action) THEN [file[p] EXCEPT !.stamp = l]
                       ELSE [Empty EXCEPT !.stamp = l, !.paused = file[p].paused]
  <2>1. onDisk.there /\ onDisk.stamp \in {file[p].stamp, l}
    BY <1>1, <1>4 DEF File, Empty, NoFile
  <2>2. \/ \E a \in {"held", "building", "another library"} : Answer(c, a) /\ UNCHANGED <<file, job>>
        \/ /\ Answer(c, "started")
           /\ job' = [job EXCEPT ![p] = [lib |-> l, delta |-> delta, cancelled |-> FALSE, before |-> file[p]]]
           /\ file' = [file EXCEPT ![p] = onDisk]
    BY <1>1, <1>3 DEF Start
  <2> HIDE DEF onDisk, delta
  <2>3. QED BY <2>1, <2>2
<1>7. ASSUME NEW a \in {"held", "building", "another library"}, Answer(c, a), UNCHANGED <<file, job>>
      PROVE  ExitOK'
  <2>1. a \in Answers
    BY DEF Answers, Refused
  <2>2. server.command => \A q \in Paths : ~Watched(q)'
    BY <1>2, <1>5, <1>7 DEF Watched
  <2>3. QED BY <1>2, <1>3, <1>4, <1>7, <2>1, <2>2, AnswerExit
<1>8. ASSUME Answer(c, "started"), NEW next, job' = [job EXCEPT ![p] = next],
             NEW f, file' = [file EXCEPT ![p] = f], f.there, f.stamp \in {file[p].stamp, l}
      PROVE  ExitOK'
  <2>1. /\ \A q \in Paths \ {p} : job'[q] = job[q] /\ file'[q] = file[q]
        /\ file'[p] = f
    BY <1>1, <1>8
  <2>2. \A q \in Paths : file[q].there => file'[q].there
    BY <1>8, <2>1
  <2>3. ASSUME server.command, NEW q \in Paths, Watched(q)'
        PROVE  /\ call[c].path = q /\ call[c].lib \in Libs \cap reach /\ PathFor(call[c].lib) = q
               /\ file'[q].there /\ Reachable(file'[q].stamp)
    <3>1. q = p
      BY <1>2, <1>5, <2>1, <2>3 DEF Watched
    <3>2. QED BY <1>2, <1>3, <1>4, <1>8, <2>1, <2>3, <3>1 DEF Reachable
  <2>4. "started" \in Answers /\ "started" \notin Refused
    BY DEF Answers, Refused
  <2>5. QED BY <1>2, <1>3, <1>4, <1>8, <2>2, <2>3, <2>4, AnswerExit
<1>9. QED BY <1>6, <1>7, <1>8

LEMMA ChooseExit == ASSUME ServedInv, ExitOK, NEW c \in Callers, Choose(c) PROVE ExitOK'
<1> USE CommandFacts
<1> DEFINE p == IF OwnSearched(c) THEN call[c].path ELSE Original
           answer == IF ~Reachable(file[p].stamp) THEN "unreachable"
                     ELSE IF file[p].rows = {} THEN "empty"
                     ELSE IF WrongLibrary(c, p) THEN "another library"
                     ELSE "hits"
           new == [call[c] EXCEPT !.pc = "over", !.path = p, !.answer = answer]
<1>1. /\ call \in [Callers -> Calls] /\ call[c] \in Calls
      /\ call[c].pc = "choosing" /\ server.up /\ Underway(c)
      /\ UNCHANGED <<file, server, job, state, reach, calls>>
  BY DEF ServedInv, CommandTypes, Choose, Up, Underway
<1>2. p \in Paths
  BY <1>1, PathFacts DEF ServedInv, CallsOK, CommandTypes
<1>3. answer \in Answers /\ answer \notin {"building", "started"}
  BY DEF Answers, Refused
<1>4. call' = [call EXCEPT ![c] = new]
  BY <1>1 DEF Choose
<1> HIDE DEF p, answer
<1>5. new \in Calls /\ new.pc = "over" /\ new.answer = answer
  BY <1>1, <1>2, <1>3 DEF Calls, Pcs
<1> HIDE DEF new
<1>6. server.command => \A q \in Paths : ~Watched(q)'
  BY <1>1, NothingWatched DEF Watched
<1>7. QED BY <1>1, <1>3, <1>4, <1>5, <1>6, CallStepExit

LEMMA OverExit == ASSUME ServedInv, ExitOK, NEW c \in Callers, Over(c) PROVE ExitOK'
<1>1. /\ call[c].pc = "over" /\ server.up /\ ~server.command
      /\ call' = [call EXCEPT ![c] = NoCall]
      /\ UNCHANGED <<file, server>>
  BY DEF Over, Up
<1>2. NoCall \in Calls /\ NoCall.pc = "idle"
  BY NoCallType DEF NoCall
<1>3. QED BY <1>1, <1>2, CallStepExit

LEMMA PollExit == ASSUME ServedInv, ExitOK, NEW c \in Callers, Poll(c) PROVE ExitOK'
<1> DEFINE new == [call[c] EXCEPT !.pc = "finding", !.action = "status", !.answer = "none"]
<1>1. /\ call \in [Callers -> Calls] /\ call[c] \in Calls
      /\ call[c].pc = "over" /\ server.up /\ Runs(c)
      /\ call' = [call EXCEPT ![c] = new]
      /\ UNCHANGED <<file, server, job, state, reach, calls>>
  BY DEF ServedInv, CommandTypes, Poll, Polled, Up
<1>2. /\ new \in Calls /\ new.pc = "finding" /\ new.action = "status" /\ new.answer = "none"
      /\ new.lib = call[c].lib /\ new.path = call[c].path
  BY <1>1 DEF Calls, Pcs, CallActions, Actions, ReadOnly, Answers
<1> HIDE DEF new
<1>3. call'[c] = new
  BY <1>1
<1>4. ASSUME server.command, NEW p \in Paths, Watched(p)' PROVE Watches(c, p)'
  <2>1. Watches(c, p)
    BY <1>1, <1>4, OneCall DEF Watched
  <2>2. QED BY <1>1, <1>2, <1>3, <2>1 DEF Watches, Underway, Reachable, PathFor
<1>5. server.command => call[c].lib \in reach
  BY <1>1 DEF ExitOK
<1>6. QED BY <1>1, <1>2, <1>4, <1>5, CallStepExit

LEMMA ExitExit == ASSUME ServedInv, ExitOK, NEW c \in Callers, Exit(c) PROVE ExitOK'
<1> DEFINE answer == IF call[c].answer \in Refused \cup {"error"} THEN "failure" ELSE "success"
           new == [call[c] EXCEPT !.pc = "exited", !.answer = answer]
<1>1. /\ call \in [Callers -> Calls] /\ call[c] \in Calls
      /\ server \in [up : BOOLEAN, command : BOOLEAN, default : Libs, primary : Libs]
      /\ call[c].pc = "over" /\ server.up /\ server.command /\ (call[c].answer \in Refused \/ ~Runs(c))
      /\ UNCHANGED <<file, job, state, reach, calls>>
      /\ server' = [server EXCEPT !.up = FALSE]
  BY DEF ServedInv, CommandTypes, Exit, Up
<1>2. call' = [call EXCEPT ![c] = new]
  BY <1>1 DEF Exit
<1>3. answer \in {"failure", "success"}
  OBVIOUS
<1>4. /\ new \in Calls /\ new.pc = "exited" /\ new.answer = answer
      /\ new.lib = call[c].lib /\ new.path = call[c].path
  BY <1>1 DEF Calls, Pcs, Answers
<1> HIDE DEF new
<1>5. call'[c] = new
  BY <1>1, <1>2
<1>6. server'.command /\ ~server'.up /\ server'.primary = server.primary
  BY <1>1
<1>7. ASSUME server.command, NEW p \in Paths, Watched(p)' PROVE Watches(c, p)'
  <2>1. Watches(c, p)
    BY <1>1, <1>7, OneCall DEF Watched
  <2>2. job[p] = None /\ call[c].answer = state[p]
    BY <1>1, <2>1 DEF Watches
  <2>3. answer = "success" => state[p] # "error"
    BY <2>2
  <2>4. QED BY <1>1, <1>4, <1>5, <1>6, <2>1, <2>2, <2>3 DEF Watches, Underway, Reachable, PathFor
<1>8. QED BY <1>1, <1>2, <1>3, <1>4, <1>6, <1>7, CallStepExit

LEMMA ReachChangesExit == ASSUME ServedInv, ExitOK, ReachChanges PROVE ExitOK'
BY ServerStepExit DEF ReachChanges

LEMMA RestartExit == ASSUME ServedInv, ExitOK, Restart PROVE ExitOK'
<1>1. ~server'.command /\ \A c \in Callers : call'[c].pc = "idle"
  BY DEF Restart, Started, NoCall
<1>2. QED BY <1>1 DEF ExitOK

LEMMA ExitStep == ASSUME ServedInv, ExitOK, [CommandNext]_commandVars PROVE ExitOK'
<1>1. ASSUME NEW c \in Callers, NEW a \in IF server.command THEN CommandActions ELSE Actions,
             NEW l \in Libs \cup {None}, Ask(c, a, l)
      PROVE  ExitOK'
  <2>1. a \in Actions /\ (server.command => a \in CommandActions)
    BY DEF CommandActions, Actions, ReadOnly, Starts
  <2>2. QED BY <1>1, <2>1, AskExit
<1>2. ASSUME NEW c \in Callers, CallSteps(c) PROVE ExitOK'
  BY <1>2, FindExit, DecideExit, UnreadableExit, StatusExit, StopExit, SetPausedExit,
     PersistExit, StartExit, ChooseExit, OverExit, PollExit, ExitExit DEF CallSteps
<1>3. ASSUME NEW p \in Paths, JobPage(p) \/ \E how \in {"done", "error"} : JobEnds(p, how) PROVE ExitOK'
  <2>1. CASE server.command
    BY <1>3, <2>1, JobPageExit, JobEndsExit
  <2>2. CASE ~server.command
    <3>1. \A q \in Paths : file[q].there => file'[q].there
      <4>1. file \in [Paths -> File]
        BY DEF ServedInv, CommandTypes
      <4>2. CASE JobPage(p)
        BY <4>1, <4>2 DEF JobPage, File
      <4>3. ASSUME NEW how \in {"done", "error"}, JobEnds(p, how) PROVE \A q \in Paths : file[q].there => file'[q].there
        <5>1. \E f \in {file[p], [file[p] EXCEPT !.rows = {job[p].lib}, !.stamp = job[p].lib],
                        [file[p] EXCEPT !.version = TRUE, !.checkpoint = FALSE]} :
                file' = [file EXCEPT ![p] = f]
          BY <4>3 DEF JobEnds
        <5>2. \A f \in {file[p], [file[p] EXCEPT !.rows = {job[p].lib}, !.stamp = job[p].lib],
                        [file[p] EXCEPT !.version = TRUE, !.checkpoint = FALSE]} : f.there = file[p].there
          BY <4>1 DEF File
        <5>3. QED BY <4>1, <5>1, <5>2
      <4>4. QED BY <1>3, <4>2, <4>3
    <3>2. UNCHANGED <<call, server>>
      BY <1>3 DEF JobPage, JobEnds
    <3>3. QED BY <2>2, <3>1, <3>2, ServerStepExit
  <2>3. QED BY <2>1, <2>2
<1>4. CASE Interrupt \/ ReachChanges \/ Restart
  BY <1>4, InterruptExit, ReachChangesExit, RestartExit
<1>5. CASE UNCHANGED commandVars
  BY <1>5 DEF commandVars, ExitOK, Watches, Underway, Runs, Reachable, PathFor
<1>6. QED BY <1>1, <1>2, <1>3, <1>4, <1>5 DEF CommandNext

-----------------------------------------------------------------------------
(* The theorems.                                                           *)

\* Everything above holds of every state that is reached, whatever the libraries, the callers
\* and the bounds.
THEOREM CommandInvAlways == CommandSpec => []CommandInv
<1>1. CommandInit => CommandInv
  BY CommandInvInit
<1>2. CommandInv /\ [CommandNext]_commandVars => CommandInv'
  BY ServedStep, ExitStep DEF CommandInv, ServedInv
<1>3. QED BY <1>1, <1>2, PTL DEF CommandSpec

\* What runs on an index whose hold is on disk has been asked to stop, through failed writes,
\* resumptions and restarts (setPaused, persistPaused, index-manager.ts).
THEOREM HoldsStand == CommandSpec => []HoldStands
<1>1. CommandInv => HoldStands
  <2> SUFFICES ASSUME CommandInv, NEW p \in Paths, file[p].paused, job[p] # None PROVE job[p].cancelled
    BY DEF HoldStands
  <2>1. held[p]
    <3>1. CASE moving[p] = None
      BY <3>1 DEF CommandInv, HoldOK
    <3>2. CASE moving[p] # None
      BY <3>2 DEF CommandInv, HoldOK
    <3>3. QED BY <3>1, <3>2
  <2>2. QED BY <2>1 DEF CommandInv, HoldOK
<1>2. QED BY <1>1, CommandInvAlways, PTL

\* A library is crawled into a second file only once somebody has asked for it by name, or the
\* end of the program has brought its rows back (secondCrawlRefusal, index-tool.ts).
THEOREM SecondCrawlsChosen == CommandSpec => []SecondCrawlChosen
<1> USE CommandFacts
<1>1. CommandInv => SecondCrawlChosen
  <2> SUFFICES ASSUME CommandInv, NEW p \in Paths, job[p] # None, NEW q \in Paths \ {p},
                      job[p].lib \in file[q].rows, job[p].lib \notin named \cup restored
               PROVE  FALSE
    BY DEF SecondCrawlChosen
  <2> DEFINE l == job[p].lib
  <2>1. l \in Libs /\ PathFor(l) = p /\ file[q] \in Copies(q) /\ (p \in Libs => Apart(p))
    BY DEF CommandInv, CommandTypes, Job, JobsOK, Copies, ChosenOK
  <2>2. CASE q \in Libs
    <3>1. l = q /\ Apart(q)
      BY <2>1, <2>2 DEF CommandInv, FilesOK, CopyOK, ChosenOK
    <3>2. p = Original
      BY <2>1, <3>1 DEF PathFor
    <3>3. PathFor(l) = Original /\ l = server.primary
      BY <2>1, <3>1, <3>2 DEF PathFor
    <3>4. ~(l \in named \cup restored) /\ l \notin file[Original].rows
      BY <3>1 DEF Apart
    <3>5. ASSUME NEW f \in Copies(Original) PROVE f.stamp \notin {None, l}
      BY <3>1, <3>5 DEF Apart
    <3>6. file[Original] \in Copies(Original) /\ file[Original].stamp \in {None, server.primary}
      BY DEF Copies, CommandInv, FilesOK, CopyOK
    <3>7. QED BY <3>3, <3>5, <3>6
  <2>3. CASE q = Original
    <3>1. p \in Libs /\ l = p
      BY <2>1, <2>3 DEF PathFor
    <3>2. QED BY <2>1, <2>3, <3>1 DEF Apart
  <2>4. QED BY <2>2, <2>3
<1>2. QED BY <1>1, CommandInvAlways, PTL

\* The command ends by itself only when nothing runs, and tells of success only of a job that
\* did not fail (indexCommand, cli/index-command.ts).
THEOREM ExitsTold == CommandSpec => []ExitTold
<1>1. CommandInv => ExitTold
  <2> SUFFICES ASSUME CommandInv, NEW c \in Callers, call[c].pc = "exited", NEW p \in Paths
               PROVE  job[p] = None /\ (call[c].answer = "success" => state[p] # "error")
    BY DEF ExitTold
  <2>1. ExitOK /\ server.command
    BY DEF CommandInv, ExitOK
  <2>2. CASE Watched(p)
    <3>1. Watches(c, p)
      BY <2>1, <2>2, OneCall
    <3>2. QED BY <3>1 DEF Watches
  <2>3. CASE ~Watched(p)
    BY <2>3 DEF Watched
  <2>4. QED BY <2>2, <2>3
<1>2. QED BY <1>1, CommandInvAlways, PTL

\* In every reachable state no work goes on under a hold, nobody's plain call has started a
\* second crawl, and no command has reported success of a job that failed (index-manager.ts,
\* index-tool.ts, index-command.ts).
THEOREM CommandsAreHonest == CommandSpec => []CommandsHonest
<1> QED BY HoldsStand, SecondCrawlsChosen, ExitsTold, PTL DEF CommandsHonest

\* A search that names a library is answered from its rows, one that names none finds those of
\* the default library's own index or of the original (semantic-search.ts).
THEOREM SearchesTheirOwn == CommandSpec => SearchesItsOwn
<1> USE CommandFacts
<1> DEFINE Own(c) ==
      LET own == file[call[c].path]
          searched == file[call'[c].path]
          answer == call'[c].answer IN
      IF call[c].named THEN answer = "hits" => searched.rows \subseteq searched.old \cup {call[c].lib}
      ELSE /\ call[c].found /\ own.rows # {} => call'[c].path = call[c].path
           /\ answer = "empty" => file[Original].rows = {} \/ job[call[c].path] # None
<1>1. ASSUME CommandInv, NEW c \in Callers, Choose(c) PROVE Own(c)
  <2> DEFINE p == IF OwnSearched(c) THEN call[c].path ELSE Original
             answer == IF ~Reachable(file[p].stamp) THEN "unreachable"
                       ELSE IF file[p].rows = {} THEN "empty"
                       ELSE IF WrongLibrary(c, p) THEN "another library"
                       ELSE "hits"
  <2>1. /\ call \in [Callers -> Calls] /\ call[c].pc = "choosing" /\ Underway(c)
        /\ file \in [Paths -> File]
        /\ call' = [call EXCEPT ![c].pc = "over", ![c].path = p, ![c].answer = answer]
    BY <1>1 DEF Choose, Up, CommandInv, CommandTypes, Underway
  <2>2. call'[c].path = p /\ call'[c].answer = answer
    BY <2>1 DEF Calls
  <2>3. /\ call[c].lib \in Libs /\ call[c].path = PathFor(call[c].lib) /\ call[c].path \in Paths
        /\ ~call[c].named => call[c].lib = server.default
    <3>1. CallsOK /\ server.primary \in Libs
      BY <1>1 DEF CommandInv, CommandTypes
    <3>2. /\ call[c].lib \in Libs /\ call[c].path = PathFor(call[c].lib)
          /\ ~call[c].named => call[c].lib = server.default
      BY <2>1, <3>1 DEF CallsOK
    <3>3. QED BY <3>1, <3>2, PathFacts
  <2>4. p \in Paths
    BY <2>3
  <2>5. ASSUME call[c].named, answer = "hits" PROVE file[p].rows \subseteq file[p].old \cup {call[c].lib}
    <3>1. ~WrongLibrary(c, p)
      BY <2>5
    <3>2. file[p].stamp \in {None, call[c].lib}
      BY <2>5, <3>1 DEF WrongLibrary
    <3>3. CopyOK(p, file[p]) /\ file[p] \in File
      BY <1>1, <2>1, <2>4 DEF CommandInv, FilesOK, Copies
    <3>4. file[p].rows \subseteq file[p].old \cup {file[p].stamp} /\ file[p].rows \subseteq Libs
      BY <3>3 DEF CopyOK, File
    <3>5. QED BY <3>2, <3>4
  <2>6. ASSUME ~call[c].named, call[c].found, file[call[c].path].rows # {} PROVE p = call[c].path
    BY <2>6 DEF OwnSearched
  <2>7. ASSUME ~call[c].named, answer = "empty" PROVE file[Original].rows = {} \/ job[call[c].path] # None
    <3>1. file[p].rows = {}
      BY <2>7
    <3>2. CASE OwnSearched(c)
      BY <2>3, <2>7, <3>1, <3>2 DEF OwnSearched, Split, PathFor
    <3>3. CASE ~OwnSearched(c)
      BY <3>1, <3>3
    <3>4. QED BY <3>2, <3>3
  <2> HIDE DEF p, answer
  <2>8. QED BY <2>2, <2>5, <2>6, <2>7
<1>2. CommandInv /\ [CommandNext]_commandVars => [\A c \in Callers : Choose(c) => Own(c)]_commandVars
  BY <1>1
<1>3. QED BY <1>2, CommandInvAlways, PTL DEF CommandSpec, SearchesItsOwn
=============================================================================
