---------------------------- MODULE IndexCommands ----------------------------
(***************************************************************************)
(* Which index a call is about, and what it may do to it: zotero_index     *)
(* (tools/index-tool.ts), the plain search's choice of an index            *)
(* (tools/semantic-search.ts), the starters of jobs                        *)
(* (features/search/build.ts), the durable hold, and the command           *)
(* `zoteus index` (cli/index-command.ts).                                  *)
(*                                                                         *)
(* One file holds one library's rows: the data directory's original file   *)
(* that of its stamp, and every other library has a file beside it.  What  *)
(* a job does to its rows is IndexJob's, several processes on one file are *)
(* SharedStore's, handles and repairs IndexRegistry's subject.             *)
(***************************************************************************)
EXTENDS Naturals

CONSTANTS
  Libs,       \* canonical library tokens
  Default,    \* the default library of the first start
  Callers,
  MaxCalls,   \* bound: calls, and changes of what the key can read
  MaxStarts,  \* bound: times the program is started again
  None

Original == "original"
Paths == Libs \cup {Original}

VARIABLES
  file,    \* of each path: what is on disk
  server,  \* the program: up?  `zoteus index`?  its default library, the registry's primary one
  held,    \* its hold on work, in memory
  moving,  \* the call whose pause or resume is being persisted, or None
  job,     \* the job running on each path, or None
  state,   \* "idle", "done" or "error": how the last one ended
  reach,   \* the libraries the key can read
  call,    \* the calls under way
  calls, starts,
  asked,   \* interrupts of the command
  named,   \* ghost: libraries a caller has asked by name to index
  restored \* ghost: those whose rows came back into the original file with a start

ghosts == <<named, restored>>
commandVars == <<file, server, held, moving, job, state, reach, call, calls, starts, asked, ghosts>>

\* A file: whose rows it holds, those among them that came without a stamp, its stamp,
\* whether it has a version and a checkpoint, the hold.
NoFile == [there |-> FALSE, rows |-> {}, old |-> {}, stamp |-> None,
           version |-> FALSE, checkpoint |-> FALSE, paused |-> FALSE]
Empty == [NoFile EXCEPT !.there = TRUE]

File == [there : BOOLEAN, rows : SUBSET Libs, old : SUBSET Libs, stamp : Libs \cup {None},
         version : BOOLEAN, checkpoint : BOOLEAN, paused : BOOLEAN]

\* A job, and the file as it was last committed before or by it.
Job == [lib : Libs, delta : BOOLEAN, cancelled : BOOLEAN, before : File]

ASSUME CommandAssumption ==
  Default \in Libs /\ Original \notin Libs /\ None \notin Libs \cup Callers \cup Job

NoCall == [pc |-> "idle", action |-> "none", named |-> FALSE, lib |-> None,
           path |-> None, found |-> FALSE, answer |-> "none"]

\* The original file of an install: none, one from before stamps, one whose rows were
\* stamped with another library, or one as it should be, held or not.
Originals ==
  {NoFile, [Empty EXCEPT !.rows = {Default}, !.stamp = Default, !.paused = TRUE]}
    \cup UNION {{[Empty EXCEPT !.rows = {l}, !.old = {l}, !.stamp = s, !.version = TRUE] :
                   s \in Libs \cup {None}} : l \in Libs}

\* The registry's primaryLibrary: the original file's stamp, else the default.
Primary(original, default) == IF original.stamp = None THEN default ELSE original.stamp

\* The program starts: its own file is opened, which creates it.
Started(f, default) ==
  /\ file' = [f EXCEPT ![Original].there = TRUE]
  /\ server' = [up |-> TRUE, command |-> FALSE, default |-> default, primary |-> Primary(f[Original], default)]
  /\ held' = [p \in Paths |-> f[p].paused]

CommandInit ==
  /\ \E o \in Originals : file = [p \in Paths |-> IF p = Original THEN [o EXCEPT !.there = TRUE] ELSE NoFile]
  /\ \E b \in BOOLEAN :
       server = [up |-> TRUE, command |-> b, default |-> Default, primary |-> Primary(file[Original], Default)]
  /\ held = [p \in Paths |-> file[p].paused]
  /\ moving = [p \in Paths |-> None]
  /\ job = [p \in Paths |-> None]
  /\ state = [p \in Paths |-> "idle"]
  /\ reach \in IF server.command THEN {Libs, {Default}} ELSE {Libs}
  /\ call = [c \in Callers |-> NoCall]
  /\ calls = 0 /\ starts = 0 /\ asked = 0 /\ named = {} /\ restored = {}

------------------------------------------------------------------------------
(* Addressing.                                                             *)

PathFor(l) == IF l = server.primary THEN Original ELSE l

\* Seeded fault: the original is taken for another library's unless it has this one's stamp.
Split_Stamped(l) == server.primary # l /\ l = server.default /\ file[Original].stamp = l

\* stampSplitNotice, defaultLibrarySplit: the default library is addressed through a file
\* of its own, while the original holds rows under another stamp.
Split(l) == server.primary # l /\ l = server.default /\ file[Original].rows # {}

ReadOnly == {"status", "stop", "pause", "resume"}
Starts == {"build", "refresh", "update"}

\* secondCrawlRefusal: a crawl of a library that may be in the original file already, which
\* nobody chose.
SecondCrawl(c) ==
  /\ ~call[c].named /\ Split(call[c].lib)
  /\ ~call[c].found \/ file[call[c].path].rows = {}

Reachable(l) == l = None \/ l \in reach

Up(c, pc) == server.up /\ call[c].pc = pc
To(c, pc) == call' = [call EXCEPT ![c].pc = pc]
Answer(c, a) == call' = [call EXCEPT ![c].pc = "over", ![c].answer = a]

\* Callers are interchangeable.
Free == CHOOSE c \in Callers : call[c].pc = "idle"

\* targetIndex, a search's opening: the library of the call, or the default one, must be
\* readable; then its file is looked for.
Ask(c, action, l) ==
  LET lib == IF l = None THEN server.default ELSE l IN
  /\ Up(c, "idle") /\ c = Free /\ calls < (IF server.command THEN 1 ELSE MaxCalls) /\ calls' = calls + 1
  /\ call' = [call EXCEPT ![c] =
       IF lib \in reach \/ (action = "search" /\ l = None)
       THEN [NoCall EXCEPT !.pc = "finding", !.action = action, !.named = l # None,
                           !.lib = lib, !.path = PathFor(lib)]
       ELSE [NoCall EXCEPT !.pc = "over", !.action = action, !.answer = "unreachable"]]
  /\ UNCHANGED <<file, server, held, moving, job, state, reach, starts, asked, ghosts>>

\* openIfExists.
Find(c) ==
  /\ Up(c, "finding")
  /\ call' = [call EXCEPT ![c].pc = IF call[c].action = "search" THEN "choosing" ELSE "deciding",
                          ![c].found = file[call[c].path].there]
  /\ UNCHANGED <<file, server, held, moving, job, state, reach, calls, starts, asked, ghosts>>

\* Whether to go on, on which index; opened, if it is to be created.
Decide(c) ==
  /\ Up(c, "deciding")
  /\ IF call[c].action \in Starts /\ SecondCrawl(c)
     THEN Answer(c, "second crawl") /\ UNCHANGED file
     ELSE IF call[c].found \/ call[c].action \in Starts
     THEN To(c, "acting") /\ file' = [file EXCEPT ![call[c].path].there = TRUE]
     ELSE Answer(c, "no index") /\ UNCHANGED file
  /\ UNCHANGED <<server, held, moving, job, state, reach, calls, starts, asked, ghosts>>

------------------------------------------------------------------------------
(* What the action does to it.                                             *)

Acts(c, action) ==
  Up(c, "acting") /\ call[c].action = action /\ Reachable(file[call[c].path].stamp)

Unreadable(c) ==
  /\ Up(c, "acting") /\ ~Reachable(file[call[c].path].stamp)
  /\ Answer(c, "unreachable")
  /\ UNCHANGED <<file, server, held, moving, job, state, reach, calls, starts, asked, ghosts>>

Status(c) ==
  /\ Acts(c, "status")
  /\ Answer(c, IF job[call[c].path] # None THEN "building" ELSE state[call[c].path])
  /\ UNCHANGED <<file, server, held, moving, job, state, reach, calls, starts, asked, ghosts>>

\* requestStop.
Cancelled(p) == job' = [job EXCEPT ![p] = IF @ = None THEN None ELSE [@ EXCEPT !.cancelled = TRUE]]

Stop(c) ==
  /\ Acts(c, "stop")
  /\ Cancelled(call[c].path)
  /\ Answer(c, "stopping")
  /\ UNCHANGED <<file, server, held, moving, state, reach, calls, starts, asked, ghosts>>

\* Seeded fault: a resume lifts the hold before it is persisted.
HoldMeanwhile_AsAsked(paused, was) == paused

\* setPaused: a hold takes effect before it is written, a resume after.
HoldMeanwhile(paused, was) == paused \/ was

\* Seeded fault: a pause does not stop the job that runs.
PauseStops_Not(p) == UNCHANGED job

PauseStops(p) == Cancelled(p)

SetPaused(c, paused) ==
  LET p == call[c].path IN
  /\ Acts(c, IF paused THEN "pause" ELSE "resume")
  /\ IF paused THEN PauseStops(p) ELSE UNCHANGED job
  /\ IF moving[p] # None THEN Answer(c, "failed") /\ UNCHANGED <<held, moving>>
     ELSE IF held[p] = paused THEN Answer(c, "ok") /\ UNCHANGED <<held, moving>>
     ELSE /\ held' = [held EXCEPT ![p] = HoldMeanwhile(paused, @)]
          /\ moving' = [moving EXCEPT ![p] = c]
          /\ To(c, "persisting")
  /\ UNCHANGED <<file, server, state, reach, calls, starts, asked, ghosts>>

\* The rows a job has written so far, under the meta row of its last commit.
CommittedEarly(p, paused) ==
  LET before == job[p].before IN
  [file[p] EXCEPT !.stamp = before.stamp, !.version = before.version, !.checkpoint = before.checkpoint,
                  !.paused = paused, !.old = IF before.stamp = None THEN file[p].rows ELSE @]

\* persistPaused, which may fail and then leaves the hold as it was.  It ends the open
\* transaction, and of the meta row it writes the hold alone.
Persist(c, works) ==
  LET p == call[c].path
      paused == call[c].action = "pause" IN
  /\ Up(c, "persisting")
  /\ moving' = [moving EXCEPT ![p] = None]
  /\ held' = [held EXCEPT ![p] = IF works THEN paused ELSE ~paused]
  /\ file' = [file EXCEPT ![p].paused = IF works THEN paused ELSE @]
  /\ job' = IF works /\ job[p] # None THEN [job EXCEPT ![p].before = CommittedEarly(p, paused)] ELSE job
  /\ Answer(c, IF works THEN "ok" ELSE "failed")
  /\ UNCHANGED <<server, state, reach, calls, starts, asked, ghosts>>

\* assertLibrary.
ErasesAnother(p, l) == file[p].stamp \notin {None, l} /\ file[p].rows # {}

Resumes(p, action) == action # "refresh" /\ file[p].checkpoint /\ file[p].rows # {}
UpdateBlocked(p) == file[p].rows = {} \/ ~file[p].version

\* startIndexBuild, startIndexUpdate with its fallback: held, erasing or busy, it is
\* refused; a build that resumes nothing begins with an empty store, stamped.
Start(c) ==
  LET p == call[c].path
      l == call[c].lib
      delta == call[c].action = "update" /\ ~UpdateBlocked(p) IN
  /\ \E a \in Starts : Acts(c, a)
  /\ IF held[p] THEN Answer(c, "held") /\ UNCHANGED <<file, job, named>>
     ELSE IF job[p] # None THEN Answer(c, "building") /\ UNCHANGED <<file, job, named>>
     ELSE IF ErasesAnother(p, l) THEN Answer(c, "another library") /\ UNCHANGED <<file, job, named>>
     ELSE /\ job' = [job EXCEPT ![p] = [lib |-> l, delta |-> delta, cancelled |-> FALSE, before |-> file[p]]]
          /\ file' = [file EXCEPT ![p] =
               IF delta THEN @
               ELSE IF Resumes(p, call[c].action) THEN [@ EXCEPT !.stamp = l]
               ELSE [Empty EXCEPT !.stamp = l, !.paused = file[p].paused]]
          /\ named' = IF call[c].named THEN named \cup {l} ELSE named
          /\ Answer(c, "started")
  /\ UNCHANGED <<server, held, moving, state, reach, calls, starts, asked, restored>>

------------------------------------------------------------------------------
(* Jobs.                                                                   *)

\* A page, and its commit.
JobPage(p) ==
  /\ server.up /\ job[p] # None /\ ~job[p].delta /\ ~job[p].cancelled
  /\ job[p].before # file[p] \/ job[p].lib \notin file[p].rows
  /\ file' = [file EXCEPT ![p].rows = @ \cup {job[p].lib}, ![p].checkpoint = TRUE]
  /\ job' = [job EXCEPT ![p].before = file'[p]]
  /\ UNCHANGED <<server, held, moving, state, reach, call, calls, starts, asked, ghosts>>

\* A delta that is done has removed what the library does not hold and stamped the rest.
JobEnds(p, how) ==
  /\ server.up /\ job[p] # None
  /\ how = "done" => job[p].cancelled \/ job[p].delta \/ job[p].lib \in file[p].rows
  /\ job' = [job EXCEPT ![p] = None]
  /\ state' = [state EXCEPT ![p] = how]
  /\ file' = [file EXCEPT ![p] =
       IF how = "error" \/ job[p].cancelled THEN @
       ELSE IF job[p].delta THEN [@ EXCEPT !.rows = {job[p].lib}, !.stamp = job[p].lib]
       ELSE [@ EXCEPT !.version = TRUE, !.checkpoint = FALSE]]
  /\ UNCHANGED <<server, held, moving, reach, call, calls, starts, asked, ghosts>>

------------------------------------------------------------------------------
(* A search without a list of libraries.                                   *)

\* Seeded fault: a sibling that is there is searched, empty or not.
OwnSearched_There(c) == call[c].found

\* An empty sibling nobody chose is not searched.
OwnSearched(c) ==
  /\ call[c].found
  /\ IF call[c].named THEN call[c].path # Original
     ELSE ~(file[call[c].path].rows = {} /\ job[call[c].path] = None /\ Split(call[c].lib))

\* Seeded fault: a search that names a library takes the index that is here.
WrongLibrary_Never(c, p) == FALSE

WrongLibrary(c, p) == call[c].named /\ file[p].stamp \notin {None, call[c].lib}

Choose(c) ==
  LET p == IF OwnSearched(c) THEN call[c].path ELSE Original IN
  /\ Up(c, "choosing")
  /\ call' = [call EXCEPT ![c].pc = "over", ![c].path = p,
       ![c].answer = IF ~Reachable(file[p].stamp) THEN "unreachable"
                     ELSE IF file[p].rows = {} THEN "empty"
                     ELSE IF WrongLibrary(c, p) THEN "another library"
                     ELSE "hits"]
  /\ UNCHANGED <<file, server, held, moving, job, state, reach, calls, starts, asked, ghosts>>

------------------------------------------------------------------------------
(* The program around them.                                                *)

\* The answer is given.  The command asks for the status until no job runs, and then once
\* more (indexCommand).
Runs(c) == call[c].answer = "building" \/ call[c].answer = "started"

\* Seeded fault: the command asks for the status of the default library.
Polled_Default(c) == [call[c] EXCEPT !.pc = "finding", !.action = "status", !.answer = "none",
                                     !.lib = server.default, !.path = PathFor(server.default)]

\* Seeded fault: it asks again for the job itself.
Polled_Again(c) == [call[c] EXCEPT !.pc = "finding", !.answer = "none"]

Polled(c) == [call[c] EXCEPT !.pc = "finding", !.action = "status", !.answer = "none"]

Refused == {"unreachable", "second crawl", "no index", "held", "another library", "failed"}

\* A call is over.
Over(c) ==
  /\ Up(c, "over") /\ ~server.command
  /\ call' = [call EXCEPT ![c] = NoCall]
  /\ UNCHANGED <<file, server, held, moving, job, state, reach, calls, starts, asked, ghosts>>

Poll(c) ==
  /\ server.command /\ Up(c, "over") /\ call[c].answer \notin Refused
  /\ Runs(c)
  /\ call' = [call EXCEPT ![c] = Polled(c)]
  /\ UNCHANGED <<file, server, held, moving, job, state, reach, calls, starts, asked, ghosts>>

\* The first interrupt asks every job to stop, the second quits.
Interrupt ==
  /\ server.command /\ server.up /\ asked < 2 /\ \E c \in Callers : call[c].pc # "idle"
  /\ asked' = asked + 1
  /\ job' = [p \in Paths |-> IF job[p] # None /\ asked = 0 THEN [job[p] EXCEPT !.cancelled = TRUE] ELSE job[p]]
  /\ server' = [server EXCEPT !.up = asked = 0]
  /\ UNCHANGED <<file, held, moving, state, reach, call, calls, starts, ghosts>>

\* The command ends: its exit code, after the flush, which stops what still runs.
Exit(c) ==
  /\ server.command /\ Up(c, "over") /\ (call[c].answer \in Refused \/ ~Runs(c))
  /\ call' = [call EXCEPT ![c].pc = "exited",
                          ![c].answer = IF @ \in Refused \cup {"error"} THEN "failure" ELSE "success"]
  /\ server' = [server EXCEPT !.up = FALSE]
  /\ UNCHANGED <<file, held, moving, job, state, reach, calls, starts, asked, ghosts>>

\* The key's rights, or what the desktop app serves, change.
ReachChanges ==
  /\ server.up /\ ~server.command
  /\ calls < MaxCalls /\ calls' = calls + 1
  /\ \E r \in SUBSET Libs \ {{}} : r # reach /\ reach' = r
  /\ UNCHANGED <<file, server, held, moving, job, state, call, starts, asked, ghosts>>

\* The program ends, and is started again, perhaps for another default library.
\* What was not committed is gone.
Committed == [p \in Paths |-> IF job[p] = None THEN file[p] ELSE [job[p].before EXCEPT !.paused = file[p].paused]]

Restart ==
  /\ ~server.command /\ starts < MaxStarts /\ starts' = starts + 1
  /\ \E d \in Libs : Started(Committed, d)
  /\ moving' = [p \in Paths |-> None]
  /\ job' = [p \in Paths |-> None]
  /\ state' = [p \in Paths |-> "idle"]
  /\ call' = [c \in Callers |-> NoCall]
  /\ restored' = restored \cup (file'[Original].rows \ file[Original].rows)
  /\ UNCHANGED <<reach, calls, asked, named>>

Actions == ReadOnly \cup Starts \cup {"search"}
CommandActions == {"build", "update", "refresh", "status"}

CallSteps(c) ==
  \/ Find(c) \/ Decide(c) \/ Unreadable(c) \/ Status(c) \/ Stop(c)
  \/ \E b \in BOOLEAN : SetPaused(c, b) \/ Persist(c, b)
  \/ Start(c) \/ Choose(c) \/ Over(c) \/ Poll(c) \/ Exit(c)

CommandNext ==
  \/ \E c \in Callers, a \in IF server.command THEN CommandActions ELSE Actions, l \in Libs \cup {None} : Ask(c, a, l)
  \/ \E c \in Callers : CallSteps(c)
  \/ \E p \in Paths : JobPage(p) \/ \E how \in {"done", "error"} : JobEnds(p, how)
  \/ Interrupt \/ ReachChanges \/ Restart

\* The event loop of a command runs what is ready; a job comes to an end.
Calling == server.command /\ \E c \in Callers : CallSteps(c)
Working == server.command /\ \E p \in Paths : JobPage(p) \/ JobEnds(p, "done")

CommandFairness == WF_commandVars(Calling) /\ WF_commandVars(Working)

CommandSpec == CommandInit /\ [][CommandNext]_commandVars /\ CommandFairness

------------------------------------------------------------------------------
(* Properties.                                                             *)

\* While the hold is on disk, what runs on the index has been asked to stop, through
\* failed writes, resumptions and restarts (index-manager.ts:910).
HoldStands ==
  \A p \in Paths : file[p].paused /\ job[p] # None => job[p].cancelled

\* No library is crawled into a second file unless somebody once asked for it by name,
\* whatever stamp its rows got and whatever the default library was, or its rows came back
\* when the program ended before a job had committed that they were gone (index-tool.ts:150).
SecondCrawlChosen ==
  \A p \in Paths : job[p] # None =>
    job[p].lib \in named \cup restored \/ \A q \in Paths \ {p} : job[p].lib \notin file[q].rows

\* The command ends by itself only when nothing runs, and reports success only of a job
\* that did not fail (cli/index-command.ts:383).
ExitTold ==
  \A c \in Callers : call[c].pc = "exited" =>
    /\ \A p \in Paths : job[p] = None
    /\ call[c].answer = "success" => \A p \in Paths : state[p] # "error"

\* What a command reports and leaves behind is what was asked for: no work under a hold, no
\* second crawl that nobody chose, no success of a job that failed (index-manager.ts:910,
\* index-tool.ts:150, cli/index-command.ts:383).
CommandsHonest == HoldStands /\ SecondCrawlChosen /\ ExitTold

\* A search that names a library is not answered from the rows of another, and one that
\* names none finds what the default library's own index or the original one holds
\* (semantic-search.ts:566).
SearchesItsOwn ==
  [][\A c \in Callers : Choose(c) =>
       LET own == file[call[c].path]
           searched == file[call'[c].path]
           answer == call'[c].answer IN
       IF call[c].named THEN answer = "hits" => searched.rows \subseteq searched.old \cup {call[c].lib}
       ELSE /\ call[c].found /\ own.rows # {} => call'[c].path = call[c].path
            /\ answer = "empty" => file[Original].rows = {} \/ job[call[c].path] # None]_commandVars

\* A command that was started ends, unless it is interrupted twice
\* (cli/index-command.ts:353).
CommandEnds ==
  server.command /\ (\E c \in Callers : call[c].pc = "finding") ~>
    ~server.up \/ \E c \in Callers : call[c].pc = "exited"
=============================================================================
