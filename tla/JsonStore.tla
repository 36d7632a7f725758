----------------------------- MODULE JsonStore -----------------------------
(***************************************************************************)
(* The JSON index (MemorySearchIndex in index-manager.ts, persistence.ts): *)
(* each process holds the whole index in memory and replaces the file as a *)
(* whole.  A process queues its writes behind one another, with what they  *)
(* write taken when they were asked for; a hold is written ahead of taking *)
(* effect or being lifted; and a process that indexed nothing of its own   *)
(* leaves a file alone that another one has replaced.                      *)
(***************************************************************************)
EXTENDS Naturals, Sequences

CONSTANTS
  Writers,     \* the processes' handles on the file
  MaxContent,  \* bound: states the indexes go through
  MaxQueue,    \* bound: writes queued in a process
  MaxFiles,    \* bound: times the file is replaced
  MaxFailures  \* bound: writes that fail

VARIABLES
  jsonFile,  \* what search-index.json holds, and which replacement of it this is
  handle,
  contents,  \* states of the indexes so far
  failures

jsonVars == <<jsonFile, handle, contents, failures>>

\* What a write puts in the file, and stateSignature(), which stands for it.
Empty == [content |-> 0, paused |-> FALSE]

\* A handle: what it holds; artifactState and artifactStamp; its writes;
\* pauseTransition; saves that wait for it, and what the last one asked for.
Closed == [at |-> "closed", state |-> Empty, artifact |-> Empty, stamp |-> 0, queue |-> <<>>,
           renamed |-> FALSE, transition |-> "none", waiting |-> FALSE, faulted |-> FALSE,
           asked |-> Empty]

JsonInit ==
  /\ \E readable \in BOOLEAN :
       jsonFile = [id |-> 1, by |-> "none", state |-> Empty, readable |-> readable]
  /\ handle = [h \in Writers |-> Closed]
  /\ contents = 0
  /\ failures = 0

JsonOpen(h) == handle[h].at = "open"
Put(h, me) == handle' = [handle EXCEPT ![h] = me]

\* loadIndex(), loadFromJSON(): what cannot be read is a fault of the index.
Load(h) ==
  /\ handle[h].at = "closed"
  /\ Put(h, [Closed EXCEPT !.at = "loading",
                           !.state = IF jsonFile.readable THEN jsonFile.state ELSE Empty,
                           !.faulted = ~jsonFile.readable])
  /\ UNCHANGED <<jsonFile, contents, failures>>

\* stampOfArtifact() at the end of the load: the file may be another by now.
JsonLoaded(h) ==
  /\ handle[h].at = "loading"
  /\ Put(h, [handle[h] EXCEPT !.at = "open", !.artifact = handle[h].state, !.asked = handle[h].state,
                              !.stamp = jsonFile.id])
  /\ UNCHANGED <<jsonFile, contents, failures>>

\* A job indexes something.
Index(h) ==
  /\ JsonOpen(h) /\ ~handle[h].faulted
  /\ contents < MaxContent
  /\ contents' = contents + 1
  /\ Put(h, [handle[h] EXCEPT !.state.content = contents'])
  /\ UNCHANGED <<jsonFile, failures>>

\* Nothing of the handle's own to write, and the file is no longer the one it
\* read.
Skips(me) == me.state = me.artifact /\ jsonFile.id # me.stamp

\* save(), once no transition is pending: the snapshot is taken now.
Enqueued(me) ==
  IF Skips(me) THEN [me EXCEPT !.waiting = FALSE]
  ELSE [me EXCEPT !.queue = Append(@, me.state), !.asked = me.state, !.waiting = FALSE]

\* Seeded fault: a save does not wait for a hold that is being written.
Settled_AtOnce(me) == TRUE

Settled(me) == me.transition = "none"

Save(h) ==
  /\ JsonOpen(h) /\ ~handle[h].faulted
  /\ Len(handle[h].queue) < MaxQueue
  /\ IF Settled(handle[h]) THEN Put(h, Enqueued(handle[h]))
                           ELSE Put(h, [handle[h] EXCEPT !.waiting = TRUE])
  /\ UNCHANGED <<jsonFile, contents, failures>>

SaveGoesOn(h) ==
  /\ handle[h].waiting /\ Settled(handle[h])
  /\ Put(h, Enqueued(handle[h]))
  /\ UNCHANGED <<jsonFile, contents, failures>>

\* setPaused(), persistPaused(): a hold takes effect before it is written, and
\* is lifted after.
SetJsonPaused(h, hold) ==
  /\ JsonOpen(h) /\ ~handle[h].faulted
  /\ handle[h].transition = "none"
  /\ handle[h].state.paused # hold
  /\ Len(handle[h].queue) < MaxQueue
  /\ LET written == [handle[h].state EXCEPT !.paused = hold] IN
     Put(h, [handle[h] EXCEPT !.transition = IF hold THEN "hold" ELSE "clear",
                              !.state.paused = TRUE,
                              !.queue = Append(@, written), !.asked = written])
  /\ UNCHANGED <<jsonFile, contents, failures>>

\* saveIndex(): the rename.
Write(h) ==
  /\ handle[h].queue # <<>> /\ ~handle[h].renamed
  /\ jsonFile.id < MaxFiles
  /\ jsonFile' = [id |-> jsonFile.id + 1, by |-> h, state |-> Head(handle[h].queue),
                  readable |-> TRUE]
  /\ Put(h, [handle[h] EXCEPT !.renamed = TRUE])
  /\ UNCHANGED <<contents, failures>>

\* The transition whose write this is ends with it: it is the last of the queue
\* that was there when it began.
Ends(me) == me.transition # "none" /\ Len(me.queue) = 1

\* After the rename: artifactState, artifactStamp, and a transition's end.
Written(h) ==
  /\ handle[h].renamed
  /\ LET me == handle[h] IN
     Put(h, [me EXCEPT !.queue = Tail(@), !.renamed = FALSE, !.artifact = Head(me.queue),
                       !.stamp = jsonFile.id,
                       !.transition = IF Ends(me) THEN "none" ELSE @,
                       !.state.paused = IF Ends(me) THEN Head(me.queue).paused ELSE @])
  /\ UNCHANGED <<jsonFile, contents, failures>>

\* A write fails: its caller hears of it, the queue goes on, a transition is
\* taken back.
WriteFails(h) ==
  /\ handle[h].queue # <<>> /\ ~handle[h].renamed
  /\ failures < MaxFailures /\ failures' = failures + 1
  /\ LET me == handle[h] IN
     Put(h, [me EXCEPT !.queue = Tail(@), !.transition = IF Ends(me) THEN "none" ELSE @,
                       !.state.paused = IF Ends(me) THEN me.transition = "clear" ELSE @,
                       !.asked = IF Len(me.queue) = 1 THEN me.artifact ELSE @])
  /\ UNCHANGED <<jsonFile, contents>>

\* close(): it waits for the writes.
CloseJson(h) ==
  /\ JsonOpen(h)
  /\ handle[h].transition = "none" /\ ~handle[h].waiting /\ handle[h].queue = <<>>
  /\ Put(h, Closed)
  /\ UNCHANGED <<jsonFile, contents, failures>>

\* The process dies; a file is complete whenever that happens.
CrashJson(h) ==
  /\ handle[h].at # "closed"
  /\ failures < MaxFailures /\ failures' = failures + 1
  /\ Put(h, Closed)
  /\ UNCHANGED <<jsonFile, contents>>

JsonNext ==
  \E h \in Writers :
    \/ Load(h) \/ JsonLoaded(h) \/ Index(h)
    \/ Save(h) \/ SaveGoesOn(h)
    \/ \E hold \in BOOLEAN : SetJsonPaused(h, hold)
    \/ Write(h) \/ Written(h) \/ WriteFails(h)
    \/ CloseJson(h) \/ CrashJson(h)

JsonSpec == JsonInit /\ [][JsonNext]_jsonVars

-----------------------------------------------------------------------------

\* A handle whose writes are done finds in its own file the last state it was
\* asked to write, and the hold it is under: no snapshot taken earlier comes
\* after one taken later (index-manager.ts:3537).
LastAskedIsWritten ==
  \A h \in Writers :
    LET me == handle[h] IN
    JsonOpen(h) /\ me.queue = <<>> /\ me.transition = "none" /\ jsonFile.by = h =>
      /\ jsonFile.state = me.asked
      /\ jsonFile.state.paused = me.state.paused
============================================================================
