------------------------------ MODULE OwnWords ------------------------------
(***************************************************************************)
(* The reader's notes and annotations in an index: read with each item by  *)
(* a build, and caught up by an update, which compares every child's key   *)
(* and version with what the index holds, since writing a note moves the   *)
(* note's version and not its item's                                       *)
(* (features/search/index-manager.ts, own-words-source.ts, build.ts).      *)
(*                                                                         *)
(* A step ends where the code awaits Zotero, whose users go on writing.    *)
(***************************************************************************)
EXTENDS Integers, FiniteSets

CONSTANTS
  Items, Children,
  MaxVersion,   \* bound: changes to the library
  None

WordsAssumption == None \notin Items

VARIABLES
  clock,     \* the library's version
  itemVer,   \* each item's version
  home,      \* the item each child hangs off, None until it is written
  gone,      \* the children in the trash
  childVer,  \* each child's version
  index,     \* what the store holds, and, as a ghost it is rolled back with, the children
             \* it let go with an item they had left for another (lost)
  owed,      \* ghost: the build said its own words are not all there, or a job that earned
             \* a stamp was asked for none
  job

wordsVars == <<clock, itemVer, home, gone, childVer, index, owed, job>>
library == <<clock, itemVer, home, gone, childVer>>

EmptyIndex == [items |-> {}, held |-> {}, stamp |-> 0, checkpoint |-> 0, lost |-> {}]

Live == {c \in Children : home[c] # None} \ gone

\* What a reader finds of a child, and the passages of it there are, by item.
Row(c) == [item |-> home[c], child |-> c, version |-> childVer[c]]
ChildrenOf(rows) == {r.child : r \in rows}
Under(i, rows) == {r \in rows : r.item = i}

\* A census of them all, once taken; degraded when part of it could not be.
NoCensus == [open |-> FALSE, words |-> {}, degraded |-> FALSE]

NoJob == [op |-> "none", at |-> "none", wants |-> FALSE, crawlVersion |-> 0, todo |-> {},
          refreshed |-> {}, targets |-> {}, unheld |-> {}, census |-> NoCensus, gap |-> FALSE,
          saved |-> EmptyIndex]

WordsInit ==
  /\ clock = 1 /\ itemVer = [i \in Items |-> 1] /\ childVer = [c \in Children |-> 1]
  /\ home \in [Children -> Items \cup {None}]
  /\ gone = {} /\ index = EmptyIndex /\ owed = FALSE /\ job = NoJob

\* A child is written, edited or moved, or taken out of the trash.
WriteChild(c, i) ==
  /\ clock < MaxVersion /\ clock' = clock + 1
  /\ home' = [home EXCEPT ![c] = i] /\ gone' = gone \ {c}
  /\ childVer' = [childVer EXCEPT ![c] = clock + 1]
  /\ UNCHANGED <<itemVer, index, owed, job>>

RemoveChild(c) ==
  /\ clock < MaxVersion /\ clock' = clock + 1 /\ c \in Live
  /\ gone' = gone \cup {c} /\ childVer' = [childVer EXCEPT ![c] = clock + 1]
  /\ UNCHANGED <<itemVer, home, index, owed, job>>

EditItem(i) ==
  /\ clock < MaxVersion /\ clock' = clock + 1
  /\ itemVer' = [itemVer EXCEPT ![i] = clock + 1]
  /\ UNCHANGED <<home, gone, childVer, index, owed, job>>

\* A build, with its first page: over an emptied store, or where one stopped.
StartBuild(fresh, wants) ==
  /\ job.op = "none" /\ UNCHANGED <<library>>
  /\ LET resume == index.checkpoint > 0 /\ ~fresh
         from == IF resume THEN index.checkpoint ELSE clock IN
       /\ index' = [IF resume THEN index ELSE EmptyIndex EXCEPT !.checkpoint = from]
       /\ owed' = ((owed /\ resume) \/ ~wants)
       /\ job' = [NoJob EXCEPT !.op = "build", !.at = "items", !.wants = wants, !.crawlVersion = from,
                    !.todo = IF resume THEN Items \ index.items ELSE Items]

\* An update, with the first page of its delta.
StartUpdate(wants) ==
  /\ job.op = "none" /\ index.stamp > 0 /\ UNCHANGED <<library, index, owed>>
  /\ job' = [NoJob EXCEPT !.op = "update", !.at = "items", !.wants = wants, !.crawlVersion = clock,
               !.saved = index, !.todo = {i \in Items : itemVer[i] > index.stamp}]

\* openOwnWords(): one census for the whole job.  It is short when the listing broke
\* off or the attachments under annotations could not be resolved.
NeedsCensus ==
  /\ job.wants /\ ~job.census.open
  /\ \/ job.at = "items" /\ job.todo # {}
     \/ job.at = "attribute" /\ job.unheld # {}
     \/ job.at = "targets" /\ job.targets # {}

TakeCensus ==
  /\ NeedsCensus /\ UNCHANGED <<library, index, owed>>
  /\ \E listed \in SUBSET Live, degraded \in BOOLEAN :
       /\ listed # Live => degraded
       /\ job' = [job EXCEPT !.census = [open |-> TRUE, degraded |-> degraded,
                                         words |-> {Row(c) : c \in listed}]]

InCensus(i) == Under(i, job.census.words)

\* The item's own words replaced by those of the census; a job not asked for own words
\* has none to put in their place.
WithWords(i) ==
  LET held == (index.held \ Under(i, index.held)) \cup InCensus(i)
      left == ChildrenOf(Under(i, index.held)) \cap ChildrenOf(job.census.words)
  IN  [index EXCEPT !.held = held, !.lost = (@ \cup left) \ ChildrenOf(held)]

\* A build indexes an item, with whatever the census holds for it.
IndexItem(i) ==
  /\ job.op = "build" /\ i \in job.todo /\ ~NeedsCensus
  /\ job' = [job EXCEPT !.todo = @ \ {i}]
  /\ index' = [WithWords(i) EXCEPT !.items = @ \cup {i}]
  /\ owed' = (owed \/ job.census.degraded)
  /\ UNCHANGED library

\* Seeded fault: a census that is short is believed.
Trusted_Always == TRUE

\* A short census answers "none" for a note it lost as for one that is gone.
Trusted == ~job.census.degraded

\* An update refreshes a changed item; own words it cannot trust are carried across, and
\* those it was not asked for are not.
RefreshItem(i) ==
  /\ job.op = "update" /\ i \in job.todo /\ ~NeedsCensus
  /\ job' = [job EXCEPT !.todo = @ \ {i}, !.refreshed = @ \cup {i}, !.gap = @ \/ ~Trusted]
  /\ index' = IF Trusted THEN WithWords(i) ELSE index
  /\ UNCHANGED <<library, owed>>

Held == ChildrenOf(index.held)
Newer(c) == childVer[c] > job.saved.stamp

\* An index without own words has considered none of them.
GapFill == Held = {}

\* Nothing is left to compare: what the end of an update still goes by.
AtEnd(gap) == [NoJob EXCEPT !.op = "update", !.at = "end", !.wants = job.wants,
                 !.crawlVersion = job.crawlVersion, !.saved = job.saved, !.gap = gap]
GivenUp == AtEnd(TRUE)

\* ownWordsCatchUp(): every child's key and version, in one request, compared with
\* what the index holds.  An update not asked for own words is at its end.
CompareChildren ==
  /\ job.op = "update" /\ job.at = "items" /\ job.todo = {} /\ UNCHANGED <<library, index, owed>>
  /\ LET stale == {r \in index.held : r.child \notin Live \/ Newer(r.child)} IN
     IF ~job.wants THEN job' = AtEnd(job.gap)
     ELSE \/ job' = GivenUp
          \/ IF (job.census.open /\ ~Trusted) \/ (Live = {} /\ Held # {}) THEN job' = GivenUp
             ELSE job' = [job EXCEPT !.at = "attribute",
                            !.targets = {r.item : r \in stale} \ job.refreshed,
                            !.unheld = {c \in Live \ Held : GapFill \/ Newer(c)}]

\* Children the index does not hold are known by their item only to the census.
AttributeUnheld ==
  /\ job.at = "attribute" /\ ~NeedsCensus /\ UNCHANGED <<library, index, owed>>
  /\ LET items == {r.item : r \in {w \in job.census.words : w.child \in job.unheld}} IN
       job' = IF job.census.open /\ ~Trusted THEN GivenUp
              ELSE [job EXCEPT !.at = "targets", !.targets = @ \cup (items \ job.refreshed),
                                  !.unheld = {}, !.refreshed = {}]

\* One item whose own words changed, replaced whole.
RefreshWords(i) ==
  /\ job.at = "targets" /\ i \in job.targets /\ ~NeedsCensus /\ UNCHANGED <<library, owed>>
  /\ IF Trusted
     THEN job' = [job EXCEPT !.targets = @ \ {i}] /\ index' = WithWords(i)
     ELSE job' = GivenUp /\ UNCHANGED index

\* Seeded fault: children that could not be compared do not hold the stamp back.
Stamps_Gap(reconciled) == reconciled

Stamps(reconciled) == reconciled /\ ~job.gap

FinishUpdate(reconciled) ==
  /\ job.op = "update" /\ UNCHANGED library
  /\ owed' = (owed \/ (Stamps(reconciled) /\ ~job.wants))
  /\ job.at = "end" \/ (job.at = "targets" /\ job.targets = {})
  /\ index' = IF Stamps(reconciled) THEN [index EXCEPT !.stamp = job.crawlVersion] ELSE index
  /\ job' = NoJob

\* A build that got through is stamped, its census whole or not.
FinishBuild ==
  /\ job.op = "build" /\ job.todo = {} /\ job' = NoJob /\ UNCHANGED <<library, owed>>
  /\ index' = [index EXCEPT !.stamp = job.crawlVersion, !.checkpoint = 0]

\* A stop, a failure or a crash: a build goes on from its checkpoint; an update stopped
\* keeps its rows, and one that failed is rolled back.
Interrupted ==
  /\ job.op # "none" /\ job' = NoJob /\ UNCHANGED <<library, owed>>
  /\ index' \in IF job.op = "build" THEN {index} ELSE {index, job.saved}

WordsNext ==
  \/ \E c \in Children : RemoveChild(c) \/ \E i \in Items : WriteChild(c, i)
  \/ \E i \in Items : EditItem(i) \/ IndexItem(i) \/ RefreshItem(i) \/ RefreshWords(i)
  \/ \E fresh, wants \in BOOLEAN : StartBuild(fresh, wants)
  \/ \E wants \in BOOLEAN : StartUpdate(wants)
  \/ TakeCensus \/ CompareChildren \/ AttributeUnheld
  \/ \E reconciled \in BOOLEAN : FinishUpdate(reconciled)
  \/ FinishBuild \/ Interrupted

WordsSpec == WordsInit /\ [][WordsNext]_wordsVars

\* What was written, edited or removed before the stamp is in the index as it is, or
\* its item's own change will bring it: no later update looks behind the stamp
\* (index-manager.ts:2194, :2739).  But a child that left its item for another may go with
\* the words of the one it left.
WordsHonest ==
  job.op = "none" /\ index.stamp > 0 /\ ~owed =>
    \A c \in Children \ index.lost :
      LET rows == {r \in index.held : r.child = c}
          now == IF c \in Live THEN {Row(c)} ELSE {}
      IN  /\ childVer[c] <= index.stamp
          /\ \A r \in rows \cup now : itemVer[r.item] <= index.stamp
          => rows = now

\* No update takes out a note its reader did not, unless it was moved, or written since
\* and the next update will bring it back, or it was asked for no own words and the
\* library changed the item (index-manager.ts:2065, :2041, :2708).
NoteStays ==
  [][job.op = "update" /\ job'.op = "update" =>
       \A r \in index.held : r.child \notin ChildrenOf(index'.held) =>
         \/ r.child \in gone \/ home[r.child] # r.item \/ childVer[r.child] > job.crawlVersion
         \/ ~job.wants /\ r.item \in job'.refreshed]_wordsVars

\* An index holding no own words whatsoever has its gap filled by its first update
\* (index-manager.ts:2750, index-tool.ts:286).
GapFilled ==
  [][job.op = "update" /\ job.wants /\ job.saved.held = {} /\ index'.stamp # index.stamp =>
       \A c \in Live : childVer[c] <= job.crawlVersion => c \in ChildrenOf(index'.held)]_wordsVars
=============================================================================
