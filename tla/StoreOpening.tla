---------------------------- MODULE StoreOpening ----------------------------
(***************************************************************************)
(* Opening the SQLite index of a library (sqlite-index.ts, open), and what *)
(* becomes of a database that cannot be opened: one of an older schema is  *)
(* migrated, one this build does not understand is moved aside and serves  *)
(* the rebuild as a source of vectors, an unreadable one stays where it is *)
(* until a build that is asked for deletes it (repair.ts).  A new database *)
(* takes over the JSON index of an older version.                          *)
(*                                                                         *)
(* A database is a file and its write-ahead log; the other two sidecars    *)
(* share the log's fate.  The process dies between any two steps, the file *)
(* operations fail, files go bad, other versions of Zoteus run in between. *)
(***************************************************************************)
EXTENDS Naturals

CONSTANTS
  Libraries, Embedders,
  Keys,        \* passage ids; the same ones occur in every library
  Texts,       \* what a passage says
  Interrupted, \* whether the build of a JSON index that lies there may not have ended
  MaxDbs,      \* bound: databases ever created
  MaxOpens,    \* bound: openings
  MaxFaults,   \* bound: crashes, failures, damage, other builds, edits
  None

VARIABLES
  db,      \* the databases, by number
  path,    \* which of them the index's path names, and whose log lies beside it
  aside,   \* the databases that were moved aside
  json,    \* search-index.json, or None
  text,    \* what the passages of the libraries say now
  server,  \* the process
  deleted, \* ghost: the databases a repair deleted, and whether each was usable
  opens, faults

vars == <<db, path, aside, json, text, server, deleted, opens, faults>>

\* A vector: whose passage, which text and which model it was computed from.
Row(library, t, embedder) ==
  [library |-> library, text |-> t, vector |-> [library |-> library, text |-> t, embedder |-> embedder]]
Rows ==
  [library : Libraries, text : Texts,
   vector : [library : Libraries, text : Texts, embedder : Embedders] \cup {None}]
NoRows == [k \in Keys |-> None]
Held(rows) == \E k \in Keys : rows[k] # None

\* search-index.json, of the first library and model, readable or not.
Snapshots ==
  LET library == CHOOSE l \in Libraries : TRUE
      embedder == CHOOSE e \in Embedders : TRUE
      t == CHOOSE t \in Texts : TRUE
  IN  [readable : BOOLEAN, embedder : {embedder},
       checkpoint : {IF Interrupted THEN embedder ELSE None},
       rows : {[k \in Keys |-> Row(library, t, embedder)]}]

\* What it says of itself (storedSchemaVersion); "older" has a ladder of migrations.
Schemas == {"current", "older", "newer", "unstamped", "fresh"}

Dbs == 1..MaxDbs
Database ==
  [schema : Schemas, sound : BOOLEAN, library : Libraries \cup {None}, embedder : Embedders \cup {None},
   checkpoint : Embedders \cup {None},  \* of a build that has not ended: its model
   rows : [Keys -> Rows \cup {None}],
   pointer : Dbs \cup {None}, pointerEmbedder : Embedders \cup {None}]

OpeningAssumption ==
  /\ Libraries # {} /\ Embedders # {} /\ Texts # {}
  /\ MaxDbs \in Nat \ {0} /\ Interrupted \in BOOLEAN
  /\ None \notin Embedders \cup Dbs \cup Database

NewDb == [schema |-> "fresh", sound |-> TRUE, library |-> None, embedder |-> None,
          checkpoint |-> None, rows |-> NoRows, pointer |-> None, pointerEmbedder |-> None]

Used == {d \in Dbs : db[d] # None}
Current == db[path.main]

\* A database of an earlier run, whatever wrote it, or none.
Init ==
  /\ text = [l \in Libraries |-> [k \in Keys |-> CHOOSE t \in Texts : TRUE]]
  /\ json \in Snapshots \cup {None}
  /\ \/ db = [d \in Dbs |-> None] /\ path = [main |-> None, log |-> None]
     \/ /\ json = None
        /\ \E s \in Schemas \ {"fresh"}, l \in Libraries, e \in Embedders, log \in {None, 1},
              ended \in BOOLEAN :
             /\ db = [d \in Dbs |-> IF d # 1 THEN None
                        ELSE [NewDb EXCEPT !.schema = s, !.library = l, !.embedder = e,
                                           !.checkpoint = IF ended THEN None ELSE e,
                                           !.rows = [k \in Keys |-> Row(l, text[l][k], e)]]]
             /\ path = [main |-> 1, log |-> log]
  /\ aside = {}
  /\ server = [at |-> "down", embedder |-> None, existed |-> FALSE, faulted |-> FALSE,
               files |-> {}, salvage |-> None, library |-> None]
  /\ deleted = {}
  /\ opens = 0
  /\ faults = 0

Fault == faults < MaxFaults /\ faults' = faults + 1
At(stage) == server.at = stage
Goes(stage) == server' = [server EXCEPT !.at = stage]

\* open() throws: the index refuses, and names what a repair would delete
\* (SearchIndexCorruptError, SearchIndexUnreadableError).
Refuses(files) ==
  server' = [server EXCEPT !.at = "refused", !.faulted = TRUE, !.files = files, !.salvage = None]

\* sidecarsOf()
AllFiles == {"log", "main"}

-----------------------------------------------------------------------------
(* open()                                                                  *)

Open(e) ==
  /\ At("down")
  /\ opens < MaxOpens /\ opens' = opens + 1
  /\ server' = [server EXCEPT !.at = "opening", !.embedder = e, !.faulted = FALSE, !.files = {}]
  /\ UNCHANGED <<db, path, aside, json, text, deleted, faults>>

\* reconcileSchema(), up to its decision.  Damage shows here or later.
Probe ==
  /\ At("opening")
  /\ \/ /\ path.main = None
        /\ server' = [server EXCEPT !.at = "creating", !.existed = FALSE]
     \/ /\ path.main # None
        /\ \/ ~Current.sound /\ Refuses(AllFiles)
           \/ /\ Current.schema \in {"fresh", "current"}
              /\ server' = [server EXCEPT !.at = "creating", !.existed = TRUE]
           \/ /\ Current.schema = "older"
              /\ server' = [server EXCEPT !.at = "migrating", !.existed = TRUE]
           \/ /\ Current.schema \in {"newer", "unstamped"}
              /\ server' = [server EXCEPT !.at = "sidelining", !.existed = TRUE]
  /\ UNCHANGED <<db, path, aside, json, text, deleted, opens, faults>>

\* runMigrations(): every rung and the stamp in one transaction.
Migrate ==
  /\ At("migrating")
  /\ Current.sound
  /\ db' = [db EXCEPT ![path.main].schema = "current"]
  /\ Goes("creating")
  /\ UNCHANGED <<path, aside, json, text, deleted, opens, faults>>

\* Seeded fault: a database that could not be upgraded today names its file.
Untouched_Named == AllFiles

\* What the refusal of a failed migration names: nothing.
Untouched == {}

\* It fails and is rolled back: damage sends the file aside, anything else
\* leaves it where it is.
MigrationFails ==
  /\ At("migrating")
  /\ \/ ~Current.sound /\ Goes("sidelining") /\ UNCHANGED faults
     \/ Fault /\ Refuses(Untouched)
  /\ UNCHANGED <<db, path, aside, json, text, deleted, opens>>

\* Seeded fault: the database goes first.
Order_MainFirst == <<"main", "log">>

\* The order in which the files of a database are moved and deleted.
Order == <<"log", "main">>

\* sideline(): one file is renamed after the other.
MoveFirst ==
  /\ At("sidelining")
  /\ path' = [path EXCEPT ![Order[1]] = None]
  /\ aside' = IF Order[1] = "main" THEN aside \cup {path.main} ELSE aside
  /\ Goes("moving")
  /\ UNCHANGED <<db, json, text, deleted, opens, faults>>

\* priceOf(): the moved database serves as a source if the same model wrote it.
Usable(d) ==
  /\ Held(db[d].rows)
  /\ db[d].sound
  /\ db[d].embedder # None /\ db[d].embedder = server.embedder

MoveSecond ==
  /\ At("moving")
  /\ path' = [path EXCEPT ![Order[2]] = None]
  /\ aside' = IF Order[2] = "main" THEN aside \cup {path.main} ELSE aside
  /\ server' = [server EXCEPT !.at = "creating",
                              !.salvage = IF path.main # None /\ Usable(path.main) THEN path.main ELSE None]
  /\ UNCHANGED <<db, json, text, deleted, opens, faults>>

\* It can neither be written to nor moved.
MoveFails ==
  /\ server.at \in {"sidelining", "moving"}
  /\ Fault
  /\ Refuses(AllFiles)
  /\ UNCHANGED <<db, path, aside, json, text, deleted, opens>>

\* openHandle(): the file exists from here on.
Create ==
  /\ At("creating")
  /\ \/ /\ path.main # None
        /\ UNCHANGED <<db, path>>
     \/ /\ path.main = None
        /\ \E d \in Dbs \ Used :
             /\ \A n \in Dbs \ Used : d <= n
             /\ db' = [db EXCEPT ![d] = NewDb]
             /\ path' = [path EXCEPT !.main = d]
  /\ Goes("created")
  /\ UNCHANGED <<aside, json, text, deleted, opens, faults>>

\* createSchema(), which writes: the log is there.
CreateSchema ==
  /\ At("created")
  /\ Current.sound
  /\ db' = [db EXCEPT ![path.main].schema = "current"]
  /\ path' = [path EXCEPT !.log = IF @ = None THEN path.main ELSE @]
  /\ Goes(IF ~server.existed /\ json # None THEN "importing" ELSE "loading")
  /\ UNCHANGED <<aside, json, text, deleted, opens, faults>>

\* Damage found on the way: the handle is closed and the index refuses.
OpenFails ==
  /\ server.at \in {"created", "importing", "loading"}
  /\ ~Current.sound
  /\ Refuses(AllFiles)
  /\ UNCHANGED <<db, path, aside, json, text, deleted, opens, faults>>

\* importJson(): rows, vectors, the model's name and the checkpoint, in one
\* transaction; the library's stamp is not among them.  A file that is too
\* large or cannot be parsed is left alone.
ImportJson ==
  /\ At("importing")
  /\ \/ /\ json.readable
        /\ db' = [db EXCEPT ![path.main].rows = json.rows, ![path.main].embedder = json.embedder,
                            ![path.main].checkpoint = json.checkpoint]
     \/ ~json.readable /\ UNCHANGED db
  /\ Goes("loading")
  /\ UNCHANGED <<path, aside, json, text, deleted, opens, faults>>

Embedded(rows) == \E k \in Keys : rows[k] # None /\ rows[k].vector # None

\* reconcileVectorProvenance(): another model's vectors are dropped; the checkpoint stays.
Reconciled(d, e) ==
  IF d.embedder \in {None, e} \/ ~Embedded(d.rows) THEN d
  ELSE [d EXCEPT !.embedder = None,
                 !.rows = [k \in Keys |-> IF @[k] = None THEN None ELSE [@[k] EXCEPT !.vector = None]]]

\* Seeded fault: a source is taken up again whichever model is in use.
Rearms_Always(d) == d.pointer # None

\* syncSalvage(): the pointer is followed while its model is in use.
Rearms(d) == d.pointer # None /\ d.pointerEmbedder = server.embedder

\* refusalFor(): two libraries, both known, that differ.
Foreign(d, library) == db[d].library # None /\ library # None /\ db[d].library # library

\* The rest of open(): loadMeta, syncSalvage.
Load ==
  /\ At("loading")
  /\ LET d == Reconciled(Current, server.embedder) IN
     \/ /\ server.salvage # None
        /\ db' = [db EXCEPT ![path.main] = [d EXCEPT !.pointer = server.salvage,
                                                     !.pointerEmbedder = server.embedder]]
        /\ Goes("ready")
     \/ /\ server.salvage = None
        /\ db' = [db EXCEPT ![path.main] = d]
        /\ server' = [server EXCEPT !.at = "ready",
                        !.salvage = IF Rearms(d) /\ ~Foreign(d.pointer, d.library) THEN d.pointer ELSE None]
  /\ UNCHANGED <<path, aside, json, text, deleted, opens, faults>>

-----------------------------------------------------------------------------
(* zotero_index action:"build"                                             *)

\* assertLibrary()
Asserted(library) == Current.library \in {None, library} \/ ~Held(Current.rows)

\* resumeFrom(): not for a build that is to start afresh, nor under another model.
Resumes(fresh) ==
  /\ ~fresh
  /\ Current.checkpoint = server.embedder /\ Held(Current.rows)

StartBuild(library, fresh) ==
  /\ At("ready")
  /\ Asserted(library)
  /\ db' = [db EXCEPT ![path.main] =
              [Current EXCEPT !.library = library, !.embedder = server.embedder,
                              !.checkpoint = server.embedder,
                              !.rows = IF Resumes(fresh) THEN @ ELSE NoRows]]
  /\ server' = [server EXCEPT !.at = "building", !.library = library]
  /\ UNCHANGED <<path, aside, json, text, deleted, opens, faults>>

\* vectorFor(): the same passage with the same text.
Matches(row, t) == row # None /\ row.text = t

\* adoptVector()
Adopts(k, t) ==
  /\ server.salvage # None
  /\ ~Foreign(server.salvage, server.library)
  /\ LET row == db[server.salvage].rows[k] IN Matches(row, t) /\ row.vector # None

\* A passage is stored with an adopted vector or one just computed.
IndexPassage(k) ==
  /\ At("building")
  /\ Current.rows[k] = None
  /\ LET t == text[server.library][k]
         fresh == Row(server.library, t, server.embedder) IN
     db' = [db EXCEPT ![path.main].rows[k] =
              IF Adopts(k, t) THEN [fresh EXCEPT !.vector = db[server.salvage].rows[k].vector] ELSE fresh]
  /\ server' = [server EXCEPT !.salvage = IF @ # None /\ Foreign(@, server.library) THEN None ELSE @]
  /\ UNCHANGED <<path, aside, json, text, deleted, opens, faults>>

\* backfillVectors(): a resumed build embeds what it found without a vector.
Backfill(k) ==
  /\ At("building")
  /\ LET row == Current.rows[k] IN
     /\ row # None /\ row.vector = None
     /\ db' = [db EXCEPT ![path.main].rows[k] = Row(row.library, row.text, server.embedder)]
  /\ UNCHANGED <<path, aside, json, text, server, deleted, opens, faults>>

EndBuild ==
  /\ At("building")
  /\ \A k \in Keys : Current.rows[k] # None /\ Current.rows[k].vector # None
  /\ db' = [db EXCEPT ![path.main].checkpoint = None]
  /\ Goes("ready")
  /\ UNCHANGED <<path, aside, json, text, deleted, opens, faults>>

\* A query meets damage: it is noted, and a running build stops on it.
NoteCorruption ==
  /\ server.at \in {"ready", "building"}
  /\ ~Current.sound
  /\ Refuses(AllFiles)
  /\ UNCHANGED <<db, path, aside, json, text, deleted, opens, faults>>

\* repairSearchIndex(): the files the fault names are deleted one by one.
Repair ==
  /\ At("refused")
  /\ server.files # {}
  /\ Goes("deleting")
  /\ UNCHANGED <<db, path, aside, json, text, deleted, opens, faults>>

Gone(file) ==
  deleted' = IF file = "main" /\ path.main # None
             THEN deleted \cup {[id |-> path.main,
                                 usable |-> Current.sound /\ Current.schema \in {"current", "older"}]}
             ELSE deleted

Delete(stage, n, next) ==
  /\ At(stage)
  /\ path' = [path EXCEPT ![Order[n]] = None]
  /\ Gone(Order[n])
  /\ server' = [server EXCEPT !.at = next]
  /\ UNCHANGED <<db, aside, json, text, opens, faults>>

\* A file that cannot be deleted stops the repair.
DeleteFails ==
  /\ server.at \in {"deleting", "deleted"}
  /\ Fault
  /\ Goes("refused")
  /\ UNCHANGED <<db, path, aside, json, text, deleted, opens>>

-----------------------------------------------------------------------------
(* The surroundings.                                                       *)

\* close(): the last connection takes the log with it.
Close ==
  /\ server.at \in {"ready", "refused"}
  /\ path' = [path EXCEPT !.log = IF At("ready") THEN None ELSE @]
  /\ server' = [server EXCEPT !.at = "down", !.salvage = None, !.library = None]
  /\ UNCHANGED <<db, aside, json, text, deleted, opens, faults>>

Crash ==
  /\ ~At("down")
  /\ Fault
  /\ server' = [server EXCEPT !.at = "down", !.salvage = None, !.library = None]
  /\ UNCHANGED <<db, path, aside, json, text, deleted, opens>>

\* The file goes bad, also under a running server.
Damage ==
  /\ path.main # None /\ Current.sound
  /\ Fault
  /\ db' = [db EXCEPT ![path.main].sound = FALSE]
  /\ UNCHANGED <<path, aside, json, text, server, deleted, opens>>

\* Another version of Zoteus opens the index while this one is down.
OtherBuild(schema) ==
  /\ At("down") /\ path.main # None /\ Current.sound
  /\ Fault
  /\ db' = [db EXCEPT ![path.main].schema = schema]
  /\ UNCHANGED <<path, aside, json, text, server, deleted, opens>>

\* A passage's text changes in Zotero.
Edit(library, k, t) ==
  /\ text[library][k] # t
  /\ Fault
  /\ text' = [text EXCEPT ![library][k] = t]
  /\ UNCHANGED <<db, path, aside, json, server, deleted, opens>>

Next ==
  \/ \E e \in Embedders : Open(e)
  \/ Probe \/ Migrate \/ MigrationFails \/ MoveFirst \/ MoveSecond \/ MoveFails
  \/ Create \/ CreateSchema \/ OpenFails \/ ImportJson \/ Load
  \/ \E l \in Libraries, fresh \in BOOLEAN : StartBuild(l, fresh)
  \/ \E k \in Keys : IndexPassage(k) \/ Backfill(k)
  \/ EndBuild \/ NoteCorruption
  \/ Repair \/ Delete("deleting", 1, "deleted") \/ Delete("deleted", 2, "opening") \/ DeleteFails
  \/ Close \/ Crash \/ Damage
  \/ \E s \in {"older", "newer"} : OtherBuild(s)
  \/ \E l \in Libraries, k \in Keys, t \in Texts : Edit(l, k, t)

Spec == Init /\ [][Next]_vars

-----------------------------------------------------------------------------

\* A database never lies beside the log of another one, which SQLite would
\* replay into it, wherever a move or a repair was cut short
\* (sqlite-index.ts:868, repair.ts:52).
NoForeignLog ==
  path.main # None /\ path.log # None => path.log = path.main

\* A repair never deletes a database that is sound and that this build can use
\* or upgrade: its refusal was about today, not about the file
\* (sqlite-index.ts:745).
UsableKept ==
  \A x \in deleted : ~x.usable

\* Every vector was computed from the text beside it by the model the index
\* says, and no other known library's, through sidelines, restarts under
\* another model and builds of another library (sqlite-index.ts:1022).
VectorsFit ==
  \A d \in Used \ aside : \A k \in Keys :
    LET row == db[d].rows[k] IN
    row # None /\ row.vector # None =>
      /\ row.vector.text = row.text
      /\ row.vector.embedder = db[d].embedder

\* Where the index's path leads, through crashes and repairs.
PathsSafe == NoForeignLog /\ UsableKept /\ VectorsFit

\* One index file holds one library (index-manager.ts:407).
OneLibrary ==
  \A d \in Used : \A k \in Keys :
    db[d].library # None /\ db[d].rows[k] # None => db[d].rows[k].library = db[d].library
=============================================================================
