--------------------------- MODULE IndexRegistry ---------------------------
(***************************************************************************)
(* features/search/index-registry.ts: the search indexes one account holds *)
(* open, one file per library, with the calls that use them and repair.ts, *)
(* which deletes a file that cannot be read and opens another in its place.*)
(*                                                                         *)
(* A handle is an open index.  A call that is given one goes on in the     *)
(* same turn of the event loop, so Give is part of the step that settles   *)
(* the opening.  Saving and closing an index is one await here.            *)
(***************************************************************************)
EXTENDS Integers, Sequences, FiniteSets

CONSTANTS
  Libraries,       \* the libraries calls name
  Primary,         \* primaryLibrary, open from the start
  Callers,         \* the calls in progress at once
  MaxOpen,         \* ZOTEUS_INDEX_MAX_OPEN
  MaxHandles,      \* bound: the handles that are in use at once
  MaxFaults,       \* bound: the times a file is found unreadable
  RepairsOverlap,  \* may two builds be asked of the primary at once?
  None             \* no handle

Handles == 1..MaxHandles

\* linked: its file is still the one in the directory.
Handle == [lib : Libraries, state : {"open", "closing", "closed"},
           building : BOOLEAN, faulted : BOOLEAN, linked : BOOLEAN]

\* An opening: nothing yet, then the new handle and the one being evicted.
Opening == [handle : Handles \cup {None}, victim : Handles \cup {None}]

RegistryAssumption ==
  /\ IsFiniteSet(Libraries) /\ IsFiniteSet(Callers) /\ Primary \in Libraries
  /\ MaxOpen \in Nat \ {0} /\ MaxHandles \in Nat \ {0} /\ MaxFaults \in Nat
  /\ RepairsOverlap \in BOOLEAN
  /\ None \notin Nat \cup Handle \cup Opening

\* A search holds a lease.  "read" and "build" are zotero_index's two kinds
\* of actions, "reopen" the end of a repair.
Kinds == {"search", "read", "build", "reopen"}

Call == [pc : {"idle", "looking", "waiting", "working", "deleting"}, kind : Kinds,
         lib : Libraries, handle : Handles \cup {None}]

Idle == [pc |-> "idle", kind |-> "read", lib |-> Primary, handle |-> None]

VARIABLES
  file,      \* each library's index file: "none", "sound" or "corrupt"
  handle,    \* the handles that are not released
  entries,   \* entries
  order,     \* the libraries of entries, least recently used first
  inflight,  \* inflight
  leases,    \* leases
  call,
  shut,      \* has closeAll been called, and why?
  faults

vars == <<file, handle, entries, order, inflight, leases, call, shut, faults>>

RegistryTypeOK ==
  /\ file \in [Libraries -> {"none", "sound", "corrupt"}]
  /\ handle \in [Handles -> Handle \cup {None}]
  /\ entries \in [Libraries -> Handles \cup {None}]
  /\ order \in Seq(Libraries)
  /\ {order[i] : i \in DOMAIN order} = {l \in Libraries : entries[l] # None}
  /\ Len(order) = Cardinality({l \in Libraries : entries[l] # None})
  /\ inflight \in [Libraries -> Opening \cup {None}]
  /\ leases \in [Libraries -> Nat]
  /\ call \in [Callers -> Call]
  /\ shut \in {"no", "evicted", "shutdown", "timed out"}
  /\ faults \in 0..MaxFaults

NewHandle(l, corrupt) ==
  [lib |-> l, state |-> "open", building |-> FALSE, faulted |-> corrupt, linked |-> TRUE]

Init ==
  /\ file \in [Libraries -> {"none", "sound"}] /\ file[Primary] = "sound"
  /\ handle = [h \in Handles |-> IF h = 1 THEN NewHandle(Primary, FALSE) ELSE None]
  /\ entries = [l \in Libraries |-> IF l = Primary THEN 1 ELSE None]
  /\ order = <<Primary>>
  /\ inflight = [l \in Libraries |-> None]
  /\ leases = [l \in Libraries |-> 0]
  /\ call = [c \in Callers |-> Idle]
  /\ shut = "no" /\ faults = 0

\* Seeded fault: a library that is used again is counted again.
Without_Kept(s, l) == s

\* A sequence without repeats, without l.
Without(s, l) ==
  LET places == {i \in DOMAIN s : s[i] = l}
      place == CHOOSE i \in places : TRUE
  IN  IF places = {} THEN s
      ELSE [i \in 1..(Len(s) - 1) |-> IF i < place THEN s[i] ELSE s[i + 1]]

Held(ents) == {l \in Libraries : ents[l] # None}

IsOpen(h) == handle[h] # None /\ handle[h].state = "open"

HasFault(h) == handle[h] # None /\ handle[h].faulted

\* A handle nothing refers to any more, to be used again.
Unused(h) ==
  handle[h] # None =>
    /\ handle[h].state = "closed"
    /\ \A l \in Libraries : entries[l] # h /\ (inflight[l] # None => inflight[l].handle # h)
    /\ \A c \in Callers : call[c].handle # h

-----------------------------------------------------------------------------
(* A handle is given to the calls that asked for it.                       *)

\* Seeded fault: a build under way does not keep the repair out.
Repairable_Always(h) == h.faulted /\ h.lib = Primary /\ shut = "no"

\* Only ctx.search is repaired, and not under a build.
Repairable(h) == h.faulted /\ h.lib = Primary /\ shut = "no" /\ ~h.building

\* Where a call goes on once it has handle h, which looks like r.
After(k, h, r) ==
  CASE k.kind = "search" -> [k EXCEPT !.pc = "working", !.handle = h]
    [] k.kind = "build" /\ Repairable(r) -> [k EXCEPT !.pc = "deleting"]
    [] OTHER -> Idle

\* What calls of these kinds do to it: a repair closes it, a build starts in it.
Used(kinds, r) ==
  CASE "build" \in kinds /\ Repairable(r) -> [r EXCEPT !.state = "closed"]
    [] kinds \cap {"build", "reopen"} # {} /\ ~r.faulted -> [r EXCEPT !.building = TRUE]
    [] OTHER -> r

Give(S, h, hs, calls) ==
  /\ handle' = [hs EXCEPT ![h] = Used({calls[c].kind : c \in S}, @)]
  /\ call' = [c \in Callers |-> IF c \in S THEN After(calls[c], h, hs[h]) ELSE calls[c]]

\* Seeded fault: the calls that joined an opening have a promise of their own.
WaitingFor_One(l) ==
  LET all == {c \in Callers : call[c].pc = "waiting" /\ call[c].lib = l}
  IN  IF all = {} THEN {} ELSE {CHOOSE c \in all : TRUE}

WaitingFor(l) == {c \in Callers : call[c].pc = "waiting" /\ call[c].lib = l}

-----------------------------------------------------------------------------
(* Eviction.                                                               *)

\* Seeded fault: a search does not protect the index it holds.
Evictable_Leased(l, h) ==
  l # Primary /\ ~h.building /\ inflight[l] = None

\* evictIfNeeded's exemptions; the library just opened is in flight.
Evictable(l, h) ==
  /\ l # Primary
  /\ ~h.building
  /\ leases[l] = 0
  /\ inflight[l] = None

\* Seeded fault: the entry goes, the handle stays.
Releasing_Nothing(hs, h) == hs

\* The victim's release begins.
Releasing(hs, h) == [hs EXCEPT ![h].state = "closing"]

LeastRecent(S, ord) ==
  LET first == CHOOSE i \in DOMAIN ord :
                 ord[i] \in S /\ \A j \in 1..(i - 1) : ord[j] \notin S
  IN  ord[first]

\* Nothing more to evict, or nothing that may be.
Settled(ents, free) == Cardinality(Held(ents)) <= MaxOpen \/ free = {}

\* evictIfNeeded's loop from its head, for an open of l that made h: another
\* victim, or the calls that wait for l are answered.
Settle(l, h, hs, ents, ord) ==
  LET free == {v \in Held(ents) \ {l} : Evictable(v, hs[ents[v]])}
  IN  \/ /\ ~Settled(ents, free)
         /\ \E v \in free :
              /\ v = LeastRecent(free, ord)
              /\ entries' = [ents EXCEPT ![v] = None]
              /\ order' = Without(ord, v)
              /\ handle' = Releasing(hs, ents[v])
              /\ inflight' = [inflight EXCEPT ![l] = [handle |-> h, victim |-> ents[v]]]
         /\ UNCHANGED call
      \/ /\ Settled(ents, free)
         /\ entries' = ents
         /\ order' = ord
         /\ inflight' = [inflight EXCEPT ![l] = None]
         /\ Give(WaitingFor(l), h, hs, call)

\* createSearchIndex has opened the file, or made one; remember.
Created(l) ==
  /\ inflight[l] # None /\ inflight[l].handle = None
  /\ \E h \in Handles :
       /\ Unused(h) /\ \A g \in 1..(h - 1) : ~Unused(g)
       /\ Settle(l, h, [handle EXCEPT ![h] = NewHandle(l, file[l] = "corrupt")],
                 [entries EXCEPT ![l] = h], Append(Without(order, l), l))
  /\ file' = [file EXCEPT ![l] = IF @ = "none" THEN "sound" ELSE @]
  /\ UNCHANGED <<leases, shut, faults>>

\* release(victim) has ended.
Released(l) ==
  /\ inflight[l] # None /\ inflight[l].victim # None
  /\ Settle(l, inflight[l].handle,
            [handle EXCEPT ![inflight[l].victim] = None], entries, order)
  /\ UNCHANGED <<file, leases, shut, faults>>

\* Every call that waits is told; the next one tries again.
CreateFails(l) ==
  /\ inflight[l] # None /\ inflight[l].handle = None
  /\ inflight' = [inflight EXCEPT ![l] = None]
  /\ leases' = [leases EXCEPT ![l] =
                  @ - Cardinality({c \in WaitingFor(l) : call[c].kind = "search"})]
  /\ call' = [c \in Callers |-> IF c \in WaitingFor(l) THEN Idle ELSE call[c]]
  /\ UNCHANGED <<file, handle, entries, order, shut, faults>>

-----------------------------------------------------------------------------
(* Calls.                                                                  *)

\* open, for call c, which now reads k: join, hit or create.
Open(c, k) ==
  LET l == k.lib
      waiting == [call EXCEPT ![c] = [k EXCEPT !.pc = "waiting"]]
  IN  \/ /\ inflight[l] # None
         /\ call' = waiting
         /\ UNCHANGED <<handle, order, inflight>>
      \/ /\ inflight[l] = None /\ entries[l] # None
         /\ order' = Append(Without(order, l), l)
         /\ Give({c}, entries[l], handle, [call EXCEPT ![c] = k])
         /\ UNCHANGED inflight
      \/ /\ inflight[l] = None /\ entries[l] = None
         /\ inflight' = [inflight EXCEPT ![l] = [handle |-> None, victim |-> None]]
         /\ call' = waiting
         /\ UNCHANGED <<handle, order>>

\* exists(): an open index answers at once, a file after an await.
OpenIfExists(c, k) ==
  \/ /\ entries[k.lib] # None
     /\ Open(c, k)
  \/ /\ entries[k.lib] = None
     /\ call' = [call EXCEPT ![c] = [k EXCEPT !.pc = "looking"]]
     /\ UNCHANGED <<handle, order, inflight>>

MayAsk(c, kind, l) ==
  /\ call[c] = Idle /\ shut = "no"
  /\ \/ RepairsOverlap
     \/ <<kind, l>> # <<"build", Primary>>
     \/ \A d \in Callers \ {c} : call[d] = Idle \/ call[d].lib # Primary \/ call[d].kind = "search"

\* withIndex
Search(c, l) ==
  /\ MayAsk(c, "search", l)
  /\ leases' = [leases EXCEPT ![l] = @ + 1]
  /\ OpenIfExists(c, [Idle EXCEPT !.kind = "search", !.lib = l])
  /\ UNCHANGED <<file, entries, shut, faults>>

\* zotero_index, one of READ_ONLY_ACTIONS or a library of list(), and one that
\* starts a job.
Ask(c, l, kind) ==
  /\ MayAsk(c, kind, l)
  /\ OpenIfExists(c, [Idle EXCEPT !.kind = kind, !.lib = l])
  /\ UNCHANGED <<file, entries, leases, shut, faults>>

\* Seeded fault: the first of several searches to end gives up the lease.
Fewer_None(n) == 0

Fewer(n) == n - 1

\* The file is there, or a build is to make it.
Looked(c) ==
  /\ call[c].pc = "looking"
  /\ file[call[c].lib] # "none" \/ call[c].kind = "build"
  /\ Open(c, call[c])
  /\ UNCHANGED <<file, entries, leases, shut, faults>>

NotThere(c) ==
  /\ call[c].pc = "looking"
  /\ file[call[c].lib] = "none" /\ call[c].kind # "build"
  /\ call' = [call EXCEPT ![c] = Idle]
  /\ leases' = IF call[c].kind = "search"
               THEN [leases EXCEPT ![call[c].lib] = Fewer(@)]
               ELSE leases
  /\ UNCHANGED <<file, handle, entries, order, inflight, shut, faults>>

SearchEnds(c) ==
  /\ call[c].pc = "working"
  /\ call' = [call EXCEPT ![c] = Idle]
  /\ leases' = [leases EXCEPT ![call[c].lib] = Fewer(@)]
  /\ UNCHANGED <<file, handle, entries, order, inflight, shut, faults>>

\* A query or a build meets a corrupt page.
Corrupts(h) ==
  /\ IsOpen(h) /\ ~handle[h].faulted
  /\ handle[h].building \/ \E c \in Callers : call[c].handle = h
  /\ faults < MaxFaults /\ faults' = faults + 1
  /\ handle' = [handle EXCEPT ![h].faulted = TRUE]
  /\ file' = [file EXCEPT ![handle[h].lib] = IF handle[h].linked THEN "corrupt" ELSE @]
  /\ UNCHANGED <<entries, order, inflight, leases, call, shut>>

BuildEnds(h) ==
  /\ handle[h] # None /\ handle[h].building
  /\ handle' = [handle EXCEPT ![h].building = FALSE]
  /\ UNCHANGED <<file, entries, order, inflight, leases, call, shut, faults>>

-----------------------------------------------------------------------------
(* Repair.                                                                 *)

\* reopen, for a repair whose files are gone: join, refuse, or replace.
Reopen(c, hs) ==
  LET l == call[c].lib
      waiting == [call EXCEPT ![c].pc = "waiting", ![c].kind = "reopen"]
      refused == (entries[l] # None /\ hs[entries[l]].building) \/ leases[l] > 0
  IN  \/ /\ inflight[l] # None
         /\ call' = waiting /\ handle' = hs
         /\ UNCHANGED inflight
      \/ /\ inflight[l] = None /\ refused
         /\ call' = [call EXCEPT ![c] = Idle] /\ handle' = hs
         /\ UNCHANGED inflight
      \/ /\ inflight[l] = None /\ ~refused
         /\ handle' = [h \in Handles |->
                         IF h = entries[l] THEN [hs[h] EXCEPT !.state = "closed"] ELSE hs[h]]
         /\ inflight' = [inflight EXCEPT ![l] = [handle |-> None, victim |-> None]]
         /\ call' = waiting

\* repairSearchIndex deletes the fault's files; whoever has one open keeps a
\* file nobody else will find.
Deleted(c) ==
  /\ call[c].pc = "deleting"
  /\ file' = [file EXCEPT ![call[c].lib] = "none"]
  /\ Reopen(c, [h \in Handles |->
                  IF handle[h] # None /\ handle[h].lib = call[c].lib
                  THEN [handle[h] EXCEPT !.linked = FALSE] ELSE handle[h]])
  /\ UNCHANGED <<entries, order, leases, shut, faults>>

DeleteFails(c) ==
  /\ call[c].pc = "deleting"
  /\ call' = [call EXCEPT ![c] = Idle]
  /\ UNCHANGED <<file, handle, entries, order, inflight, leases, shut, faults>>

-----------------------------------------------------------------------------
(* closeAll.                                                               *)

CloseAll(why) ==
  /\ shut = "no" /\ shut' = why
  /\ handle' = [h \in Handles |->
                  IF h \in {entries[l] : l \in Libraries} THEN [handle[h] EXCEPT !.state = "closing"]
                  ELSE handle[h]]
  /\ entries' = [l \in Libraries |-> None]
  /\ order' = <<>>
  /\ UNCHANGED <<file, inflight, leases, call, faults>>

\* Seeded fault: only the index of ctx.search is asked.
Busy_Primary == handle[entries[Primary]].building

\* anyBuilding, anyLeased
Busy ==
  \/ \E l \in Held(entries) : handle[entries[l]].building
  \/ \E l \in Libraries : leases[l] > 0

\* ContextCache.evictIfNeeded picks this account.
Evict == ~Busy /\ CloseAll("evicted")

\* The process's shutdown, where it is not the same as an eviction.
Shutdown == Busy /\ CloseAll("shutdown")

Victims == {inflight[l].victim : l \in {x \in Libraries : inflight[x] # None}}

ToClose == {h \in Handles : handle[h] # None /\ handle[h].state = "closing"} \ Victims

\* STOP_WAIT_MS is over and a build still runs.
StopWaitEnds ==
  /\ shut = "shutdown" /\ \E h \in ToClose : handle[h].building
  /\ shut' = "timed out"
  /\ UNCHANGED <<file, handle, entries, order, inflight, leases, call, faults>>

\* The releases, which end one by one where nothing looks.
CloseRest ==
  /\ ToClose # {}
  /\ shut = "timed out" \/ \A h \in ToClose : ~handle[h].building
  /\ handle' = [h \in Handles |->
                  IF h \in ToClose THEN [handle[h] EXCEPT !.state = "closed"] ELSE handle[h]]
  /\ UNCHANGED <<file, entries, order, inflight, leases, call, shut, faults>>

Answering ==
  \/ \E l \in Libraries : Created(l) \/ CreateFails(l) \/ Released(l)
  \/ \E c \in Callers : Looked(c) \/ NotThere(c) \/ Deleted(c) \/ DeleteFails(c)

Next ==
  \/ Answering
  \/ \E c \in Callers, l \in Libraries :
       Search(c, l) \/ \E kind \in {"read", "build"} : Ask(c, l, kind)
  \/ \E c \in Callers : SearchEnds(c)
  \/ \E h \in Handles : Corrupts(h) \/ BuildEnds(h)
  \/ Evict \/ Shutdown \/ StopWaitEnds \/ CloseRest

Spec == Init /\ [][Next]_vars

-----------------------------------------------------------------------------
(* Properties.                                                             *)

\* Nothing closes an index in use: the one a search holds, even when the
\* account is evicted, and while it is not, the one a build writes to and the
\* one ctx.search holds.  Only a repair closes an index that has a fault
\* (index-registry.ts: "Two entries are never closed to make room").
InUseStaysOpen ==
  /\ \A c \in Callers : call[c].pc = "working" /\ shut \in {"no", "evicted"} =>
       IsOpen(call[c].handle) \/ HasFault(call[c].handle)
  /\ shut = "no" =>
       /\ \A h \in Handles : handle[h] # None /\ handle[h].building => IsOpen(h)
       /\ IsOpen(entries[Primary]) \/ HasFault(entries[Primary])

\* What a build writes stays where the next process will look for it: no
\* repair deletes the file under it (repair.ts: "Checked BEFORE anything is
\* deleted").
BuildKeepsItsFile ==
  \A h \in Handles : handle[h] # None /\ handle[h].building => handle[h].linked

\* An index in use stays open, and in its file.
InUseKept == RegistryTypeOK /\ InUseStaysOpen /\ BuildKeepsItsFile

\* Nothing is lost, however opens, failures, evictions and repairs of several
\* libraries overlap: every open handle can still be found and closed, and a call
\* that waits for an opening waits for one that is still under way, whichever of
\* the calls that share it began it and however it ends.
NothingLost ==
  /\ shut = "no" => \A h \in Handles : IsOpen(h) => entries[handle[h].lib] = h
  /\ \A c \in Callers : call[c].pc = "waiting" => inflight[call[c].lib] # None
=============================================================================
