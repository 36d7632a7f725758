------------------------------ MODULE BodyText ------------------------------
(***************************************************************************)
(* The attachment body text an index holds: what a build's full-text pass  *)
(* and an update read, off a map of attachments to items that may stop     *)
(* short, and the cursor into Zotero's own sequence of extracted text that *)
(* lets the next update ask only for what is new                           *)
(* (features/search/index-manager.ts, fulltext-source.ts, build.ts).       *)
(*                                                                         *)
(* Zotero numbers extractions on a sequence items do not share: extracting *)
(* a file's text changes no item, so no item delta ever names it.  A step  *)
(* ends where the code awaits Zotero, which goes on extracting, and its    *)
(* users editing, meanwhile.                                               *)
(***************************************************************************)
EXTENDS Integers, FiniteSets, FiniteSetsExt

CONSTANTS
  Items,            \* what the library holds and the index knows
  Atts, Parent,     \* their attachments: Parent \in [Atts -> Items]
  MaxVersion,       \* bound: extractions
  MaxEdits,         \* bound: edits of items
  FULLTEXT_RECOVERY_ATTEMPTS,
  Unread            \* of an attachment: no text

BodyAssumption ==
  /\ Parent \in [Atts -> Items] /\ IsFiniteSet(Atts) /\ IsFiniteSet(Items)
  /\ MaxVersion \in Nat \ {0}
  /\ \A some \in SUBSET Atts : Unread # some

VARIABLES
  extracted,  \* version of each attachment's text, 0 while there is none
  edits,      \* items edited so far
  dirty,      \* items changed since the index's stamp
  settles,    \* those a stamp earned by the job, or by the build to resume, settles
  index,      \* what the store holds, and, as a ghost it is rolled back with, the
              \* attachments whose text an update gave up (forgone)
  vouched,    \* ghost: the cursor was set by a pass that read, whole, all it names
  job

bodyVars == <<extracted, edits, dirty, settles, index, vouched, job>>

AttsOf(i) == {a \in Atts : Parent[a] = i}
ParentsOf(as) == {Parent[a] : a \in as}
Newest(as) == Max({0} \cup {extracted[a] : a \in as})

EmptyIndex == [held |-> [a \in Atts |-> 0], cursor |-> 0, partial |-> FALSE,
               attempts |-> 0, stamped |-> FALSE, checkpoint |-> FALSE,
               forgone |-> {}]

\* The locals of a build or an update, and the source behind it (NoMap until opened).
NoMap == [open |-> FALSE, atts |-> {}, version |-> 0, incomplete |-> FALSE, available |-> FALSE]
NoJob == [op |-> "none", at |-> "none", wants |-> FALSE, resumed |-> FALSE, map |-> NoMap,
          todo |-> {}, size |-> 0, refreshed |-> {}, failed |-> {}, named |-> {},
          probed |-> 0, partialWrite |-> FALSE, full |-> FALSE, gap |-> FALSE,
          heldBack |-> FALSE, saved |-> EmptyIndex]

BodyInit ==
  /\ extracted \in [Atts -> {0, 1}] /\ edits = 0 /\ dirty = Items /\ settles = {}
  /\ index = EmptyIndex /\ vouched = FALSE /\ job = NoJob

HasFulltext(i) == \E a \in AttsOf(i) : index.held[a] > 0
Mapped(i) == AttsOf(i) \cap job.map.atts

\* Extracted now, a file's text is named by the probe to come and not read for it: its
\* item has been refreshed, or the map the job goes by was made before the text was there.
Overlooked(a) ==
  job.at = "delta" /\ job.map.open /\ (Parent[a] \in job.refreshed \/ a \notin job.map.atts)

\* Zotero extracts a file's text, again or for the first time.
Extract(a) ==
  /\ Newest(Atts) < MaxVersion
  /\ extracted' = [extracted EXCEPT ![a] = Newest(Atts) + 1]
  /\ index' = [index EXCEPT !.forgone = IF Overlooked(a) THEN @ \cup {a} ELSE @ \ {a}]
  /\ UNCHANGED <<edits, dirty, settles, vouched, job>>

\* An item is edited: the delta a job took no longer settles it.
Edit(i) ==
  /\ edits < MaxEdits /\ edits' = edits + 1
  /\ dirty' = dirty \cup {i} /\ settles' = settles \ {i}
  /\ UNCHANGED <<extracted, index, vouched, job>>

\* buildIncrementalClaimed(), to the end of its metadata pass: the store is cleared,
\* or the build goes on where one stopped.  Not asked for full text it has no second pass.
StartBuild(fresh, wants) ==
  /\ job.op = "none" /\ UNCHANGED <<extracted, edits, dirty>>
  /\ LET resume == index.checkpoint /\ ~fresh IN
       /\ index' = [IF resume THEN index ELSE EmptyIndex EXCEPT !.checkpoint = TRUE]
       /\ vouched' = FALSE
       /\ job' = [NoJob EXCEPT !.op = "build", !.at = IF wants THEN "source" ELSE "pass",
                              !.wants = wants, !.resumed = resume]
       /\ settles' = IF resume THEN settles ELSE Items

\* updateIncrementalClaimed(), with the first page of its delta; updateBlocker().
StartUpdate(wants) ==
  /\ job.op = "none" /\ index.stamped
  /\ job' = [NoJob EXCEPT !.op = "update", !.at = "delta", !.wants = wants,
               !.todo = dirty, !.saved = index]
  /\ settles' = dirty
  /\ UNCHANGED <<extracted, edits, dirty, index, vouched>>

\* createFulltextSource(): the census of extracted text, and the lookups, some of
\* which may never be answered, that name the items it belongs to.
Sources ==
  LET census == {a \in Atts : extracted[a] > 0}
      source(as) == [open |-> TRUE, atts |-> as, version |-> IF as = {} THEN 0 ELSE Newest(census),
                     incomplete |-> as # census, available |-> as # {}] IN
  {source(as) : as \in SUBSET census} \cup {[NoMap EXCEPT !.open = TRUE, !.incomplete = TRUE]}

\* openSource(): one map for the whole job, opened when it is first asked.
NeedsSource ==
  /\ job.wants /\ ~job.map.open
  /\ \/ job.at = "source"
     \/ job.at = "delta" /\ job.todo # {}
     \/ job.at = "named" /\ job.named # {}

OpenSource ==
  /\ NeedsSource
  /\ \E source \in Sources : job' = [job EXCEPT !.map = source]
  /\ UNCHANGED <<extracted, edits, dirty, settles, index, vouched>>

\* The full-text pass of a build begins: what the map can serve and, resumed, only
\* the items holding nothing.
FulltextPass ==
  /\ job.at = "source" /\ job.map.open
  /\ LET wanted == ParentsOf(job.map.atts)
         todo == IF job.resumed THEN {i \in wanted : ~HasFulltext(i)} ELSE wanted IN
       job' = [job EXCEPT !.at = "pass", !.todo = todo, !.size = Cardinality(todo)]
  /\ UNCHANGED <<extracted, edits, dirty, settles, index, vouched>>

\* Seeded fault: an item a short map does not name has no text.
Refuses_Never(i) == FALSE

\* textFor() cannot tell an item without text from one its map never reached.
Refuses(i) == Mapped(i) = {} /\ job.map.incomplete

\* textFor(), at a Zotero that may fail to serve it: the text of every mapped
\* attachment, {} for none, or Unread.
Texts(i) ==
  IF Refuses(i) THEN {Unread} ELSE {Mapped(i)} \cup IF Mapped(i) = {} THEN {} ELSE {Unread}

\* The item's body replaced by that of these attachments.
WithBody(i, as) == [a \in Atts |-> IF a \notin AttsOf(i) THEN index.held[a]
                                   ELSE IF a \in as THEN extracted[a] ELSE 0]
Reread(i, as) == [index EXCEPT !.held = WithBody(i, as), !.forgone = @ \ as]

\* One item of a build's pass, and of a catch-up: a failed read leaves what is held,
\* and so does there being nothing.
ReadBody(i) ==
  /\ job.at \in {"pass", "catchup"} /\ i \in job.todo
  /\ UNCHANGED <<extracted, edits, dirty, settles, vouched>>
  /\ \E text \in Texts(i) :
       /\ job' = [job EXCEPT !.todo = @ \ {i}, !.failed = IF text = Unread THEN @ \cup {i} ELSE @]
       /\ index' = IF text \in {Unread, {}} THEN index ELSE Reread(i, text)

\* One item of the delta: replaced whole, save that body text which could not be read
\* is put back.  An update not asked for full text reads none, and puts none back.
RefreshItem(i) ==
  /\ job.at = "delta" /\ i \in job.todo /\ ~NeedsSource
  /\ UNCHANGED <<extracted, edits, dirty, settles, vouched>>
  /\ \E text \in IF job.wants THEN Texts(i) ELSE {{}} :
       /\ job' = [job EXCEPT !.todo = @ \ {i}, !.refreshed = @ \cup {i}, !.gap = @ \/ text = Unread,
                    !.partialWrite = @ \/ (text \notin {Unread, {}} /\ job.map.incomplete)]
       /\ index' = IF text = Unread THEN index
                   ELSE IF job.wants THEN Reread(i, text)
                   ELSE [index EXCEPT !.held = WithBody(i, {}), !.forgone = @ \cup AttsOf(i)]

\* While the mark stands the sequence is asked from its start.
From == IF index.partial THEN 0 ELSE index.cursor

\* fulltextCatchUp(): what was extracted since, if Zotero answers.
Probe ==
  /\ job.at = "delta" /\ job.todo = {}
  /\ UNCHANGED <<extracted, edits, dirty, settles, index, vouched>>
  /\ \/ job' = [job EXCEPT !.at = "end", !.probed = index.cursor]
     \/ LET named == {a \in Atts : extracted[a] > From} IN
        /\ job.wants
        /\ job' = [job EXCEPT !.at = "named", !.named = named,
                     !.probed = Max({index.cursor, Newest(named)})]

\* fulltextMapComplete(): opened, and to the end of the library.
MapReachedEnd == job.map.open /\ ~job.map.incomplete /\ job.map.available

\* fulltextCatchUp(), once the map is there: which items are read again, and whether
\* the pass can settle the debt a short map left.
PlanCatchUp ==
  /\ job.at = "named" /\ ~NeedsSource
  /\ UNCHANGED <<extracted, edits, dirty, settles, index, vouched>>
  /\ LET named == ParentsOf(job.named \cap job.map.atts)
         short == job.named # {} /\ (job.map.incomplete \/ (named = {} /\ ~job.map.available))
         full == /\ index.partial /\ index.attempts < FULLTEXT_RECOVERY_ATTEMPTS
                 /\ named # {} /\ ~short /\ MapReachedEnd
         gapOnly == From = 0 /\ ~full
         none == gapOnly /\ \A i \in Items : ~HasFulltext(i)
         plan == [job EXCEPT !.full = full, !.heldBack = index.partial /\ ~full] IN
       job' = IF (short /\ ~index.partial) \/ none
              THEN [plan EXCEPT !.at = "end", !.probed = index.cursor, !.full = FALSE]
              ELSE [plan EXCEPT !.at = "catchup",
                      !.todo = {i \in named \ job.refreshed : ~(gapOnly /\ HasFulltext(i))}]

\* The catch-up is over: the cursor it earned.
EndCatchUp ==
  /\ job.at = "catchup" /\ job.todo = {}
  /\ job' = [job EXCEPT !.at = "end",
               !.probed = IF job.heldBack \/ job.failed # {} THEN index.cursor ELSE @]
  /\ UNCHANGED <<extracted, edits, dirty, settles, index, vouched>>

Settled(stamps) == dirty' = IF stamps THEN dirty \ settles ELSE dirty

\* Seeded fault: a gap in the delta moves the stamp all the same.
UpdateStamps_Gap == TRUE

UpdateStamps == ~job.gap

\* The end of an update that took the census of what lives.  Another gap (own words)
\* may withhold the stamp; the library may have answered with nothing at all.
FinishUpdate(otherGap, reconciled) ==
  /\ job.op = "update" /\ job.at = "end" /\ UNCHANGED <<extracted, edits, settles>>
  /\ Settled(reconciled /\ UpdateStamps /\ ~otherGap)
  /\ LET recovered == job.full /\ job.failed = {}
         paid == job.full /\ job.failed # {}
         moved == job.probed > index.cursor IN
       /\ index' = IF ~reconciled THEN index
                   ELSE [index EXCEPT !.cursor = job.probed,
                           !.partial = (@ /\ ~recovered) \/ job.partialWrite,
                           !.attempts = IF recovered THEN 0 ELSE IF paid THEN @ + 1 ELSE @]
       /\ vouched' = IF ~reconciled THEN vouched
                     ELSE recovered \/ (vouched /\ (From > 0 \/ ~moved))
  /\ job' = NoJob

\* The end of a build: failed reads and a short map withhold the cursor; the map's
\* shortness is recorded; an embedder that died, the stamp.
FinishBuild(embedderDied) ==
  /\ job.op = "build" /\ job.at = "pass" /\ job.todo = {} /\ UNCHANGED <<extracted, edits, settles>>
  /\ LET failures == Cardinality(job.failed)
         passFailed == failures > 0 /\ failures >= job.size
         stamps == ~passFailed /\ ~embedderDied
         earns == job.wants /\ failures = 0 /\ ~job.map.incomplete IN
       /\ Settled(stamps)
       /\ index' = [index EXCEPT !.stamped = stamps, !.checkpoint = embedderDied,
                      !.cursor = IF earns THEN job.map.version ELSE @,
                      !.partial = @ \/ job.map.incomplete]
       /\ vouched' = (earns /\ ~job.resumed)
  /\ job' = NoJob

\* A stop, a failure or a crash.  A build keeps its rows and its checkpoint; an update
\* stopped keeps its rows, and one that failed is rolled back.
Interrupted ==
  /\ job.op # "none" /\ job' = NoJob
  /\ UNCHANGED <<extracted, edits, dirty, settles, vouched>>
  /\ index' \in IF job.op = "build" THEN {index} ELSE {index, job.saved}

BodyNext ==
  \/ \E a \in Atts : Extract(a)
  \/ \E i \in Items : Edit(i) \/ ReadBody(i) \/ RefreshItem(i)
  \/ \E fresh, wants \in BOOLEAN : StartBuild(fresh, wants)
  \/ \E wants \in BOOLEAN : StartUpdate(wants)
  \/ OpenSource \/ FulltextPass \/ Probe \/ PlanCatchUp \/ EndCatchUp
  \/ \E otherGap, reconciled \in BOOLEAN : FinishUpdate(otherGap, reconciled)
  \/ \E died \in BOOLEAN : FinishBuild(died)
  \/ Interrupted

BodySpec == BodyInit /\ [][BodyNext]_bodyVars

\* Text the cursor has passed is in the index, unless the item it belongs to is still
\* ahead of the stamp, the mark says that coverage is partial, or an update gave it up:
\* one not asked for full text that refreshed its item, or one during which it was
\* extracted, before the probe.  Nothing else would ever name it again
\* (index-manager.ts:2379, :1756, :2041, :2569).
CursorHonest ==
  job.op = "none" /\ vouched /\ ~index.partial =>
    \A a \in Atts \ index.forgone :
      extracted[a] \in 1..index.cursor /\ Parent[a] \notin dirty => index.held[a] = extracted[a]

\* Body text an update took out of the index will be read again: the item is still
\* ahead of the stamp, or the mark stands.  One not asked for full text marks nothing,
\* but takes it out of no item the library did not change
\* (index-manager.ts:2093, :2041, fulltext-source.ts:106).
LossMarked ==
  [][job.op = "update" /\ job'.op = "none" =>
       \A a \in Atts : job.saved.held[a] > 0 /\ index'.held[a] = 0 =>
         \/ index'.partial \/ Parent[a] \in dirty'
         \/ ~job.wants /\ Parent[a] \in job.refreshed]_bodyVars
=============================================================================
