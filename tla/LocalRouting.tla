---------------------------- MODULE LocalRouting ----------------------------
(***************************************************************************)
(* Which copy of a library answers a read, after a write to the cloud copy *)
(* the Zotero desktop app has not synced yet: LibraryRouter.noteCloudWrite, *)
(* route and desktopHasCaughtUp (router/library-router.ts) over            *)
(* PendingCloudWrites (router/pending-writes.ts).                          *)
(*                                                                         *)
(* One library the desktop holds.  The two copies number their versions   *)
(* independently, so the router keeps one entry per library, its latest    *)
(* cloud write, and asks the desktop for its own version of the object     *)
(* written: once when the write is reported (the baseline), then before    *)
(* each read, until the version has moved.                                 *)
(*                                                                         *)
(* The desktop's sync is external: it brings the whole library over, as of *)
(* the moment it asked, and gives what changed a version of its own.       *)
(***************************************************************************)
EXTENDS Integers, FiniteSets

CONSTANTS
  Keys,             \* the library's objects
  Readers,          \* concurrent reads
  MaxWrites,        \* bound: cloud writes this server makes
  MaxEdits,         \* bound: the desktop's version the user's edits stop at
  EditsUnsynced,    \* may the user edit an object the desktop is behind on?
  SyncOverlaps,     \* may a write land while a sync carries older data over?
  ReportsOverlap,   \* may one write be answered after a later one?
  RemovesUnsynced,  \* may an object be deleted that the desktop never had?
  AppStops,         \* may the desktop app be closed and started again?
  ProbesFail,       \* may a baseline request fail?
  None,             \* no entry, no read, no sync, no answer yet
  Absent,           \* objectVersion's null: the desktop has no such object
  Unknown           \* before: undefined

Version == Nat \cup {Absent}
Write == [id : Nat, key : Keys, removed : BOOLEAN]
Entry == [id : Nat, key : Keys, removed : BOOLEAN, before : Version \cup {Unknown}]
Copy == [write : Nat, there : BOOLEAN]

RoutingAssumption ==
  /\ IsFiniteSet(Keys)
  /\ MaxWrites \in Nat /\ MaxEdits \in Nat
  /\ {EditsUnsynced, SyncOverlaps, ReportsOverlap, RemovesUnsynced, AppStops, ProbesFail}
       \subseteq BOOLEAN
  /\ None \notin Nat /\ Absent \notin Nat /\ Unknown \notin Nat
  /\ Absent # None /\ Absent # Unknown /\ None # Unknown
  /\ None \notin Entry

VARIABLES
  writes,    \* how many cloud writes were accepted; the last one's number
  cloud,     \* per object: its latest write, and whether it is still there
  copy,      \* the same as the desktop holds it, with the desktop's version
  seq,       \* the desktop's own version sequence
  served,    \* is the app up, as the router sees it (useLocal)
  syncing,   \* what a sync has downloaded and not applied
  inFlight,  \* writes the cloud accepted whose response has not arrived
  reported,  \* per object: the latest write the server has answered for
  pending,   \* the router's entry
  probes,    \* baseline requests
  reading    \* each read's catch-up check

copies == <<writes, cloud, copy, seq, served, syncing>>
router == <<inFlight, reported, pending, probes, reading>>
routingVars == <<writes, cloud, copy, seq, served, syncing,
                 inFlight, reported, pending, probes, reading>>

-----------------------------------------------------------------------------
(* The two copies.                                                         *)

\* What the desktop's copy of k lacks.
Behind(k) ==
  IF cloud[k].there THEN copy[k].write # cloud[k].write ELSE copy[k].there

\* GET /api/users/0/items/<key> on the desktop.
ObjectVersion(k) == IF copy[k].there THEN copy[k].version ELSE Absent

\* The cloud accepts a create (an object not there, never deleted), an update
\* or a delete.
CloudWrite(k, removed) ==
  /\ writes < MaxWrites
  /\ SyncOverlaps \/ syncing = None
  /\ ReportsOverlap \/ inFlight = {}
  /\ cloud[k].there \/ (cloud[k].write = 0 /\ ~removed)
  /\ removed => RemovesUnsynced \/ copy[k].there
  /\ writes' = writes + 1
  /\ cloud' = [cloud EXCEPT ![k] = [write |-> writes + 1, there |-> ~removed]]
  /\ inFlight' = inFlight \cup {[id |-> writes + 1, key |-> k, removed |-> removed]}
  /\ UNCHANGED <<copy, seq, served, syncing, reported, pending, probes, reading>>

SyncDownload ==
  /\ syncing = None
  /\ \E k \in Keys : Behind(k)
  /\ syncing' = cloud
  /\ UNCHANGED <<writes, cloud, copy, seq, served, router>>

Arrives(k) == syncing[k].there # copy[k].there \/ syncing[k].write # copy[k].write

SyncApply ==
  /\ syncing # None
  /\ seq' = seq + 1
  /\ copy' = [k \in Keys |->
                IF ~Arrives(k) THEN copy[k]
                ELSE [write |-> syncing[k].write, there |-> syncing[k].there,
                      version |-> seq + 1]]
  /\ syncing' = None
  /\ UNCHANGED <<writes, cloud, served, router>>

\* The user edits the object in the app: a version of its own, no cloud write.
EditOnDesktop(k) ==
  /\ seq < MaxEdits
  /\ EditsUnsynced \/ ~Behind(k)
  /\ copy[k].there
  /\ seq' = seq + 1
  /\ copy' = [copy EXCEPT ![k].version = seq + 1]
  /\ UNCHANGED <<writes, cloud, served, syncing, router>>

\* The app is closed or started, or a probe of it says so (local-status.ts).
AppStopsOrStarts ==
  /\ AppStops
  /\ served' = ~served
  /\ UNCHANGED <<writes, cloud, copy, seq, syncing, router>>

-----------------------------------------------------------------------------
(* The router.                                                             *)

\* noteCloudWrite: the entry replaces any other at once; a baseline is asked
\* for unless the object's absence will be the witness or the app is down.
NoteCloudWrite(w) ==
  /\ w \in inFlight
  /\ inFlight' = inFlight \ {w}
  /\ reported' = [reported EXCEPT ![w.key] = IF w.id > @ THEN w.id ELSE @]
  /\ pending' = [id |-> w.id, key |-> w.key, removed |-> w.removed, before |-> Unknown]
  /\ probes' = IF w.removed \/ ~served THEN probes
               ELSE probes \cup {[id |-> w.id, key |-> w.key, answer |-> None]}
  /\ UNCHANGED <<copies, reading>>

ProbeAnswered(p) ==
  /\ p \in probes /\ p.answer = None
  /\ probes' = (probes \ {p}) \cup {[p EXCEPT !.answer = ObjectVersion(p.key)]}
  /\ UNCHANGED <<copies, inFlight, reported, pending, reading>>

ProbeFails(p) ==
  /\ ProbesFail
  /\ p \in probes /\ p.answer = None
  /\ probes' = probes \ {p}
  /\ UNCHANGED <<copies, inFlight, reported, pending, reading>>

\* Seeded fault: an entry is known by its object's key.
SameWrite_ByKey(e, o) == e.key = o.key

\* Entries are compared by identity.
SameWrite(e, o) == e.id = o.id

\* setBaseline.
BaselineArrives(p) ==
  /\ p \in probes /\ p.answer # None
  /\ probes' = probes \ {p}
  /\ pending' = IF pending # None /\ SameWrite(pending, p) /\ pending.before = Unknown
                THEN [pending EXCEPT !.before = p.answer] ELSE pending
  /\ UNCHANGED <<copies, inFlight, reported, reading>>

\* Is the desktop asked about this entry at all?
WorthAsking(e) == e.removed \/ e.before # Unknown

\* Seeded fault: a baseline measured absent is not told from one unmeasured.
CaughtUp_MeasuredOnly(e, now) ==
  IF e.removed THEN now = Absent
  ELSE now # Absent /\ e.before # Absent /\ now > e.before

\* desktopHasCaughtUp, given what the desktop answered.
CaughtUp(e, now) ==
  IF e.removed THEN now = Absent
  ELSE now # Absent /\ (e.before = Absent \/ now > e.before)

\* route: with the app down or an entry not worth asking about the read is
\* the cloud's, with no entry it is local; either way nothing changes.
RouteAsks(r) ==
  /\ served
  /\ reading[r] = None
  /\ pending # None /\ WorthAsking(pending)
  /\ reading' = [reading EXCEPT ![r] = [entry |-> pending, answer |-> None]]
  /\ UNCHANGED <<copies, inFlight, reported, pending, probes>>

RouteAnswered(r) ==
  /\ reading[r] # None /\ reading[r].answer = None
  /\ reading' = [reading EXCEPT ![r].answer = ObjectVersion(reading[r].entry.key)]
  /\ UNCHANGED <<copies, inFlight, reported, pending, probes>>

\* The check fails: the cloud took the write and can take the read.
RouteFails(r) ==
  /\ reading[r] # None /\ reading[r].answer = None
  /\ reading' = [reading EXCEPT ![r] = None]
  /\ UNCHANGED <<copies, inFlight, reported, pending, probes>>

\* A completed check retires the entry it was about, and only that one.
RouteDecides(r) ==
  LET e == reading[r].entry IN
  /\ reading[r] # None /\ reading[r].answer # None
  /\ pending' = IF CaughtUp(e, reading[r].answer) /\ pending # None /\ SameWrite(pending, e)
                THEN None ELSE pending
  /\ reading' = [reading EXCEPT ![r] = None]
  /\ UNCHANGED <<copies, inFlight, reported, probes>>

-----------------------------------------------------------------------------

RoutingInit ==
  /\ writes = 0
  /\ \E held \in SUBSET Keys :
       /\ cloud = [k \in Keys |-> [write |-> 0, there |-> k \in held]]
       /\ copy = [k \in Keys |-> [write |-> 0, there |-> k \in held, version |-> 0]]
  /\ seq = 0
  /\ served \in BOOLEAN
  /\ syncing = None
  /\ inFlight = {}
  /\ reported = [k \in Keys |-> 0]
  /\ pending = None
  /\ probes = {}
  /\ reading = [r \in Readers |-> None]

Sync == SyncDownload \/ SyncApply

Probing ==
  \E p \in probes : ProbeAnswered(p) \/ BaselineArrives(p)

RoutingNext ==
  \/ \E k \in Keys, removed \in BOOLEAN : CloudWrite(k, removed)
  \/ \E k \in Keys : EditOnDesktop(k)
  \/ AppStopsOrStarts
  \/ Sync
  \/ \E w \in inFlight : NoteCloudWrite(w)
  \/ Probing
  \/ \E p \in probes : ProbeFails(p)
  \/ \E r \in Readers :
       RouteAsks(r) \/ RouteAnswered(r) \/ RouteFails(r) \/ RouteDecides(r)

RoutingSpec == RoutingInit /\ [][RoutingNext]_routingVars

\* The app is up again and again and keeps syncing; a client keeps reading; and
\* of the checks the app is asked about, it goes on answering some.
Fairness ==
  /\ WF_routingVars(Sync)
  /\ WF_routingVars(\E w \in inFlight : NoteCloudWrite(w))
  /\ WF_routingVars(Probing)
  /\ []<>served
  /\ SF_routingVars(\E r \in Readers : RouteAsks(r))
  /\ SF_routingVars(\E r \in Readers : RouteAnswered(r))
  /\ WF_routingVars(\E r \in Readers : RouteDecides(r))

RoutingFairSpec == RoutingSpec /\ Fairness

-----------------------------------------------------------------------------
(* Properties.                                                             *)

\* What the server has said was done can be seen on the desktop.
Shows(k) ==
  copy[k].write >= reported[k] \/ ~(cloud[k].there \/ copy[k].there)

\* Read your writes: while the desktop lacks any write this server has
\* reported, an entry stands and keeps reads (and, through
\* awaitingDesktopSync, the next writes) on the cloud.
ReadYourWrites == pending = None => \A k \in Keys : Shows(k)

\* The entry's baseline was measured before the desktop had the write.
MeasuredInTime ==
  /\ pending # None
  /\ pending.before # Unknown
  /\ copy[pending.key].write < pending.id

\* An override whose baseline was measured in time ends: once the desktop has
\* synced, some read notices and the library goes back to being read locally,
\* unless a later write is waited for by then.
MeasuredOverrideEnds ==
  \A id \in 1..MaxWrites :
    (MeasuredInTime /\ pending.id = id) ~> (pending = None \/ pending.id > id)
=============================================================================
