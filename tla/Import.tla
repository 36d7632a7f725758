------------------------------- MODULE Import -------------------------------
(***************************************************************************)
(* One call of zotero_import that saves what it resolves (tools/import.ts):*)
(* a bibliography file, an identifier (typed, or found in a PDF) or a page *)
(* is read by a translation-server when one answers and, but for a page,   *)
(* by the built-in reader otherwise; the library is searched for what was  *)
(* read, if that was asked for; and the items are saved by the first of    *)
(* three routes that takes them: the desktop app's local API, its          *)
(* connector protocol, the cloud.                                          *)
(*                                                                         *)
(* The local API and the cloud are sent a save in requests of fifty        *)
(* objects at most, one after the other; the connector is sent all of it   *)
(* at once.  What the readers make of the payload and what the services    *)
(* answer is open.                                                         *)
(***************************************************************************)
EXTENDS Naturals, FiniteSets

CONSTANTS
  Entries,     \* what the payload holds, or the identifier or page names
  MaxEntries,  \* importMaxEntries
  Chunk,       \* objects to a request (fifty)
  None

VARIABLES
  asked,  \* the call's arguments, and which routes there are
  saved,  \* how often each entry was written, by whichever route
  broke,  \* ghost: what had been saved when the local API turned out not to take writes
  call

importVars == <<asked, saved, broke, call>>

Readers == {"server", "own"}

ImportAssumption == Chunk \in Nat \ {0}

\* blank: the entries the chosen reader found nothing in; rest: the items that are not
\* sent yet.
Fresh == [at |-> "read", items |-> {}, blank |-> {}, rest |-> {}, told |-> None]

Asked == [action : {"file", "identifier", "url", "pdf"}, confirm : BOOLEAN, check : BOOLEAN,
          attach : BOOLEAN, desktop : {"writes", "reads", "none"}, cloud : BOOLEAN, personal : BOOLEAN]

ImportInit ==
  /\ asked \in Asked
  /\ saved = [e \in Entries |-> 0] /\ broke = {}
  /\ call = Fresh

At(stage) == call.at = stage
Becomes(c) == call' = c /\ UNCHANGED asked
Unwritten == UNCHANGED <<saved, broke>>

\* The answer: "saved", "warned" (saved, but), "failed", or why nothing was tried.
Answers(told) == Becomes([call EXCEPT !.at = "done", !.told = told])

\* A payload as the readers find it: the entries each finds something in, those
\* the schema takes (all, when no schema could be fetched), and whether it is of
\* a format Zoteus reads.
Payloads ==
  UNION {[all : {all}, usable : [Readers -> SUBSET all], valid : SUBSET all, parses : BOOLEAN] : all \in SUBSET Entries}

\* usableEntriesOwnParse(): before anything is mapped or validated.
OwnUsable(p) == IF p.parses THEN Cardinality(p.usable["own"]) ELSE 0

\* The built-in reader recovers more than the translators, which left something.
Prefers(p) == p.usable["server"] # p.all /\ OwnUsable(p) > Cardinality(p.usable["server"])

\* Seeded fault: an entry the reader found nothing in is passed on.
Importable_All(p, r) == p.all

\* What a reader's entries become.  One that was read as empty is skipped, and so
\* is one of the built-in reader's that the schema refuses.
Importable(p, r) == IF r = "own" THEN p.usable[r] \cap p.valid ELSE p.usable[r]

\* overEntryCap() of what the file holds, the bulk confirmation of what is left.
FileReading(p, r) ==
  IF \/ Cardinality(p.all) > MaxEntries
     \/ Importable(p, r) = {}
     \/ Cardinality(Importable(p, r)) > 1 /\ ~asked.confirm
  THEN Answers("failed")
  ELSE Becomes([call EXCEPT !.at = "check", !.items = Importable(p, r), !.blank = p.all \ p.usable[r]])

OwnReading(p) == IF p.parses THEN FileReading(p, "own") ELSE Answers("failed")

\* importFromFile(): the translation-server takes the payload, or it is not
\* there, throws, or has nothing.
ReadFile ==
  /\ At("read") /\ asked.action = "file" /\ Unwritten
  /\ \E p \in Payloads :
       \/ p.all # {} /\ IF Prefers(p) THEN OwnReading(p) ELSE FileReading(p, "server")
       \/ OwnReading(p)

\* Items that are taken as they come.
Takes(es) == Becomes([call EXCEPT !.at = "check", !.items = es])

FromServer == \E es \in SUBSET Entries \ {{}} : Takes(es)

\* resolveBuiltin(): one record, of a DOI or an arXiv identifier that is known.
FromBuiltin ==
  \/ \E e \in Entries : Takes({e})
  \/ Answers("failed")

\* A typed identifier: the translation-server's miss is not the end of it.
ReadIdentifier ==
  /\ At("read") /\ asked.action = "identifier" /\ Unwritten
  /\ FromServer \/ FromBuiltin

\* A page: only the translation-server reads one, and it may offer a choice.
ReadPage ==
  /\ At("read") /\ asked.action = "url" /\ Unwritten
  /\ FromServer \/ \E told \in {"choose", "failed"} : Answers(told)

\* readPdfBytes(): the file named, or the attachment's bytes; there may be none
\* that can be had, or that are small enough.
ReadPdf ==
  /\ At("read") /\ asked.action = "pdf" /\ Unwritten
  /\ Becomes([call EXCEPT !.at = "scan"]) \/ Answers("failed")

\* importFromPdf(): the first identifier on its first pages is resolved as a
\* typed one is; a scan that finds none is an answer, and saves nothing.
ScanPdf ==
  /\ At("scan") /\ Unwritten
  /\ FromServer \/ FromBuiltin \/ Answers("nothing found")

\* duplicatePreflight(): a match stands in the way of the save, and so does a
\* scan that could not be made; one that stopped early does not.
Check ==
  /\ At("check") /\ Unwritten
  /\ \/ Becomes([call EXCEPT !.at = "local", !.rest = call.items])
     \/ asked.check /\ Answers("refused")

Writes(es) == saved' = [e \in Entries |-> IF e \in es THEN saved[e] + 1 ELSE saved[e]]

Written == {e \in call.items : saved[e] > 0}

\* What one request takes of what is not sent yet.
Batches == {b \in SUBSET call.rest : b # {} /\ (Cardinality(b) = Chunk \/ (b = call.rest /\ Cardinality(b) < Chunk))}

\* Seeded fault: one item's refusal sends the whole batch round again.
RejectedEvery_Any(taken) == taken # call.items

\* localApiRejectedEveryItem(): nothing of the batch landed.
RejectedEvery(taken) == taken = {}

\* What a save that landed tells: attaching the file is tried once and a failure
\* of it, or an item left to attach it to missing, is a warning.
Landed(taken) ==
  \/ Answers("saved")
  \/ asked.attach /\ Answers("warned")

\* writeObjects(): the local API is sent the items request by request, and takes those of
\* a request one by one.  A failure, a lost answer among them, is the call's.
SendLocal ==
  /\ At("local") /\ asked.desktop = "writes" /\ UNCHANGED broke
  /\ \E batch \in Batches, taken \in SUBSET call.rest :
       /\ taken \subseteq batch /\ Writes(taken)
       /\ \/ batch # call.rest /\ Becomes([call EXCEPT !.rest = @ \ batch])
          \/ /\ batch = call.rest
             /\ IF RejectedEvery(Written \cup taken)
                THEN Becomes([call EXCEPT !.at = "connector"])
                ELSE Landed(Written \cup taken)
          \/ Answers("failed")

\* LocalWritesUnavailable, before the first request or at a later one: the next route is
\* given all of the items.
LocalUnavailable ==
  /\ At("local")
  /\ Becomes([call EXCEPT !.at = "connector"])
  /\ broke' = Written /\ UNCHANGED saved

Connector == asked.desktop # "none" /\ asked.personal

\* saveItems() takes the whole session or none of it; the app may have quit.
SaveConnector ==
  /\ At("connector")
  /\ \/ /\ Connector
        /\ \/ Writes(call.items) /\ UNCHANGED broke /\ Becomes([call EXCEPT !.at = "place"])
           \/ Writes(call.items) /\ UNCHANGED broke /\ Answers("failed")
           \/ Unwritten /\ Answers("failed")
     \/ Becomes([call EXCEPT !.at = "cloud"]) /\ Unwritten

\* The session is moved to the collection.
Place ==
  /\ At("place") /\ Unwritten
  /\ \/ Becomes([call EXCEPT !.at = "attach"])
     \/ Answers("warned")

\* The file is downloaded and streamed into the session: only the download's
\* failure is a warning.  Then the new keys are polled for.
Attach ==
  /\ At("attach") /\ Unwritten
  /\ \/ Answers("saved")
     \/ asked.attach /\ \E told \in {"warned", "failed"} : Answers(told)

\* The cloud, last, when there is a key for it; a request of its that fails, or is not
\* answered, fails the call whatever the earlier ones wrote.
SaveCloud ==
  /\ At("cloud")
  /\ IF asked.cloud
     THEN \E taken \in SUBSET call.items :
            /\ Writes(taken) /\ UNCHANGED broke
            /\ Landed(taken) \/ Answers("failed")
     ELSE Answers("failed") /\ Unwritten

ImportNext ==
  \/ ReadFile \/ ReadIdentifier \/ ReadPage \/ ReadPdf \/ ScanPdf \/ Check
  \/ SendLocal \/ LocalUnavailable \/ SaveConnector \/ Place \/ Attach \/ SaveCloud

ImportSpec == ImportInit /\ [][ImportNext]_importVars

\* No entry is saved twice, whichever routes refused it on the way (import.ts:829), and
\* none that its reader found nothing in becomes a blank row of the library
\* (import.ts:1347).  Those the local API had taken when a later request found it without
\* writes are sent again (import.ts:725).
SavedOnce ==
  \A e \in Entries :
    saved[e] <= CASE e \in call.blank -> 0 [] e \in broke -> 2 [] OTHER -> 1
=============================================================================
