----------------------------- MODULE DataProofs -----------------------------
(***************************************************************************)
(* What serves the files of the data directory, for any libraries, calls,  *)
(* limits, faults and processes.                                           *)
(*                                                                         *)
(* The registry closes no index in use and loses none, through evictions,  *)
(* repairs, failing openings and the shutdown.  Its invariant is stated    *)
(* over explicit arguments, so that it can be said of a handle's state in  *)
(* the middle of a step: an opening that remembers its handle, evicts and  *)
(* answers the calls that wait is one step here.                           *)
(*                                                                         *)
(* The path of an index names a database that is not about to go unless    *)
(* this build can do nothing with it; only that database is ever written,  *)
(* so that one moved aside stays what it was when it was found to be a     *)
(* source of vectors.                                                      *)
(*                                                                         *)
(* The usage log prunes what a rollup has counted: of the rows that were   *)
(* written after a rollup read the table, all are young, they are the last *)
(* ones, and there are no more of them than the table may hold.            *)
(***************************************************************************)
EXTENDS MCStores, FiniteSetTheorems, WellFoundedInduction, TLAPS

LEMMA NoneFacts ==
  /\ None \notin Nat /\ None \notin Registry!Handles
  /\ None \notin Registry!Handle /\ None \notin Registry!Opening
  /\ Primary \in Libraries /\ MaxHandles \in Nat \ {0}
BY StoresAssumption DEF Registry!RegistryAssumption, Registry!Handles

-----------------------------------------------------------------------------
(* The invariant.                                                          *)

\* A handle without a fault is in its file.
Sound(r) == r.faulted \/ r.linked

\* What is entered is held, is its library's, and is not on its way out.
EntriesOK(hs, ents) ==
  \A l \in Libraries : ents[l] # None =>
    /\ hs[ents[l]] # None /\ hs[ents[l]].lib = l
    /\ hs[ents[l]].state # "closing" /\ Sound(hs[ents[l]])

\* An opening has a handle of its own, and a victim that nothing else refers to.
OpeningsOK(hs, infl) ==
  \A l \in Libraries : infl[l] # None =>
    /\ infl[l].handle # None => hs[infl[l].handle] # None /\ hs[infl[l].handle].lib = l
                                /\ Sound(hs[infl[l].handle])
    /\ infl[l].victim # None =>
         /\ infl[l].handle # None
         /\ hs[infl[l].victim] # None /\ hs[infl[l].victim].state = "closing"
         /\ \A x \in Libraries : infl[x] # None =>
              infl[x].handle # infl[l].victim /\ (x # l => infl[x].victim # infl[l].victim)

BuildsOK(hs) == \A h \in Registry!Handles : hs[h] # None /\ hs[h].building => hs[h].linked

\* Before closeAll: what is built is open, what is open is entered, what is entered is
\* open unless it has a fault, and an opening is the one that will be entered or has been.
ServiceOK(hs, ents, infl) ==
  /\ \A h \in Registry!Handles : hs[h] # None =>
       /\ hs[h].building => hs[h].state = "open"
       /\ hs[h].state = "open" => ents[hs[h].lib] = h
  /\ ents[Primary] # None
  /\ \A l \in Libraries : ents[l] # None =>
       hs[ents[l]].state = "open" \/ (hs[ents[l]].faulted /\ l = Primary)
  /\ \A l \in Libraries : infl[l] # None =>
       IF infl[l].handle # None THEN ents[l] = infl[l].handle
       ELSE ents[l] # None => hs[ents[l]].state # "open"

HandlesOK(hs, ents, infl, sh) ==
  /\ hs \in [Registry!Handles -> Registry!Handle \cup {None}]
  /\ ents \in [Libraries -> Registry!Handles \cup {None}]
  /\ infl \in [Libraries -> Registry!Opening \cup {None}]
  /\ EntriesOK(hs, ents) /\ OpeningsOK(hs, infl) /\ BuildsOK(hs)
  /\ sh = "no" => ServiceOK(hs, ents, infl)

\* A call that may start a build of the primary, or delete its file.
Writes(k) == k.kind \in {"build", "reopen"} /\ k.lib = Primary

\* How far a call of each kind may be.
CallOK(k) ==
  /\ k.pc = "idle" => k = Registry!Idle
  /\ k.pc = "looking" => k.lib # Primary
  /\ k.pc = "working" => k.kind = "search" /\ k.handle \in Registry!Handles
  /\ k.pc = "deleting" => k.kind = "build" /\ k.lib = Primary
  /\ k.kind = "reopen" => k.lib = Primary /\ k.pc = "waiting"

OneWriter(asked) == \A c, d \in Callers : Writes(asked[c]) /\ Writes(asked[d]) => c = d

CallsOK(asked) ==
  /\ asked \in [Callers -> Registry!Call]
  /\ \A c \in Callers : CallOK(asked[c])
  /\ OneWriter(asked)

\* The searches of a library: as many as it has leases.
Searching(asked, l) == {c \in Callers : asked[c].kind = "search" /\ asked[c].lib = l}

LeasesOK(ls, asked) == \A l \in Libraries : ls[l] = Cardinality(Searching(asked, l))

WaitsOK(asked, infl) == \A c \in Callers : asked[c].pc = "waiting" => infl[asked[c].lib] # None

\* A search holds what is entered.
SearchesOK(asked, ents, infl, sh) ==
  /\ sh = "no" => \A c \in Callers : asked[c].pc = "working" =>
       ents[asked[c].lib] = asked[c].handle /\ infl[asked[c].lib] = None
  /\ sh = "evicted" => \A c \in Callers : asked[c].kind # "search"

\* While the file is deleted, its index has a fault and nobody builds it.
DeletesOK(asked, hs, ents, infl) ==
  \A c \in Callers : asked[c].pc = "deleting" =>
    /\ infl[Primary] = None
    /\ ents[Primary] # None => hs[ents[Primary]].faulted
    /\ \A h \in Registry!Handles : hs[h] # None /\ hs[h].lib = Primary => ~hs[h].building

\* The order of use lists each library that is entered, once.
OrderOK(ord, ents) ==
  /\ ord \in Seq(Libraries)
  /\ \A i, j \in 1..Len(ord) : ord[i] = ord[j] => i = j
  /\ {ord[i] : i \in 1..Len(ord)} = {l \in Libraries : ents[l] # None}

RegInv ==
  /\ files \in [Libraries -> {"none", "sound", "corrupt"}]
  /\ shut \in {"no", "evicted", "shutdown", "timed out"}
  /\ repairs \in 0..MaxFaults
  /\ HandlesOK(opened, entries, inflight, shut)
  /\ CallsOK(call)
  /\ leases \in [Libraries -> Nat] /\ LeasesOK(leases, call)
  /\ WaitsOK(call, inflight)
  /\ SearchesOK(call, entries, inflight, shut)
  /\ DeletesOK(call, opened, entries, inflight)
  /\ OrderOK(order, entries)
-----------------------------------------------------------------------------
(* The handles.                                                            *)

Handled(hs) == hs \in [Registry!Handles -> Registry!Handle \cup {None}]
Entered(ents) == ents \in [Libraries -> Registry!Handles \cup {None}]
Begun(infl) == infl \in [Libraries -> Registry!Opening \cup {None}]

LEMMA UsedFacts ==
  ASSUME NEW r \in Registry!Handle, NEW kinds
  PROVE  LET u == Registry!Used(kinds, r) IN
         /\ u \in Registry!Handle
         /\ u.lib = r.lib /\ u.faulted = r.faulted /\ u.linked = r.linked
         /\ u.state # r.state => /\ u.state = "closed" /\ shut = "no" /\ r.faulted
                                 /\ r.lib = Primary /\ ~u.building
         /\ u.building => r.building \/ (~r.faulted /\ u.state = r.state)
         /\ kinds \cap {"build", "reopen"} = {} => u = r
         /\ "build" \in kinds /\ Registry!Repairable(r) => ~u.building
<1>1. CASE "build" \in kinds /\ Registry!Repairable(r)
  BY <1>1 DEF Registry!Used, Registry!Repairable, Registry!Handle
<1>2. CASE ~("build" \in kinds /\ Registry!Repairable(r)) /\ kinds \cap {"build", "reopen"} # {} /\ ~r.faulted
  BY <1>2 DEF Registry!Used, Registry!Handle
<1>3. CASE /\ ~("build" \in kinds /\ Registry!Repairable(r))
           /\ ~(kinds \cap {"build", "reopen"} # {} /\ ~r.faulted)
  BY <1>3 DEF Registry!Used
<1> QED BY <1>1, <1>2, <1>3

\* Handle h is what the calls for l are to be given.
Given(l, h, hs, ents, infl, sh) ==
  /\ hs[h] # None /\ hs[h].lib = l /\ Sound(hs[h])
  /\ sh = "no" => ents[l] = h
  /\ infl[l] # None => infl[l] = [handle |-> h, victim |-> None]

LEMMA GiveHandles ==
  ASSUME NEW hs, NEW ents, NEW infl, HandlesOK(hs, ents, infl, shut),
         NEW l \in Libraries, NEW h \in Registry!Handles, NEW kinds,
         Given(l, h, hs, ents, infl, shut)
  PROVE  HandlesOK([hs EXCEPT ![h] = Registry!Used(kinds, hs[h])], ents,
                   [infl EXCEPT ![l] = None], shut)
<1> DEFINE u == Registry!Used(kinds, hs[h])
           hs2 == [hs EXCEPT ![h] = u]
           infl2 == [infl EXCEPT ![l] = None]
<1>1. Handled(hs) /\ Entered(ents) /\ Begun(infl)
  BY DEF HandlesOK, Handled, Entered, Begun
<1>2. hs[h] \in Registry!Handle
  BY <1>1 DEF Handled, Given
<1>3. /\ u \in Registry!Handle /\ u # None
      /\ u.lib = hs[h].lib /\ u.faulted = hs[h].faulted /\ u.linked = hs[h].linked
      /\ u.state # hs[h].state => /\ u.state = "closed" /\ shut = "no" /\ hs[h].faulted
                                  /\ hs[h].lib = Primary /\ ~u.building
      /\ u.building => hs[h].building \/ (~hs[h].faulted /\ u.state = hs[h].state)
  BY <1>2, UsedFacts, NoneFacts
<1> HIDE DEF u
<1>4. hs2[h] = u /\ \A g \in Registry!Handles : g # h => hs2[g] = hs[g]
  BY <1>1 DEF Handled
<1>5. infl2[l] = None /\ \A x \in Libraries : x # l => infl2[x] = infl[x]
  BY <1>1 DEF Begun
<1>6. Handled(hs2) /\ Begun(infl2)
  BY <1>1, <1>3 DEF Handled, Begun
<1> HIDE DEF hs2, infl2
<1>7. EntriesOK(hs2, ents)
  <2>1. EntriesOK(hs, ents)
    BY DEF HandlesOK
  <2> QED BY <1>1, <1>3, <1>4, <2>1 DEF EntriesOK, Entered, Sound
<1>8. OpeningsOK(hs2, infl2)
  <2> SUFFICES ASSUME NEW x \in Libraries, infl2[x] # None
               PROVE  /\ infl2[x].handle # None =>
                           /\ hs2[infl2[x].handle] # None /\ hs2[infl2[x].handle].lib = x
                           /\ Sound(hs2[infl2[x].handle])
                      /\ infl2[x].victim # None =>
                           /\ infl2[x].handle # None
                           /\ hs2[infl2[x].victim] # None /\ hs2[infl2[x].victim].state = "closing"
                           /\ \A y \in Libraries : infl2[y] # None =>
                                /\ infl2[y].handle # infl2[x].victim
                                /\ y # x => infl2[y].victim # infl2[x].victim
    BY DEF OpeningsOK
  <2>1. x # l /\ infl2[x] = infl[x] /\ infl[x] \in Registry!Opening
    BY <1>1, <1>5 DEF Begun
  <2>2. OpeningsOK(hs, infl) /\ EntriesOK(hs, ents)
    BY DEF HandlesOK
  <2>3. infl[x].handle \in Registry!Handles \cup {None} /\ infl[x].victim \in Registry!Handles \cup {None}
    BY <2>1 DEF Registry!Opening
  <2>4. infl[x].handle # None =>
           /\ hs2[infl[x].handle] # None /\ hs2[infl[x].handle].lib = x
           /\ Sound(hs2[infl[x].handle])
    BY <1>3, <1>4, <2>1, <2>2, <2>3 DEF OpeningsOK, Sound
  <2>5. infl[x].victim # None =>
           /\ infl[x].handle # None
           /\ hs2[infl[x].victim] # None /\ hs2[infl[x].victim].state = "closing"
    <3>1. infl[x].victim # None => hs[infl[x].victim].state = "closing" /\ infl[x].handle # None
                                   /\ hs[infl[x].victim] # None
      BY <2>1, <2>2 DEF OpeningsOK
    <3>2. shut = "no" => hs[h].state # "closing"
      BY <2>2, NoneFacts DEF EntriesOK, Given
    <3> QED BY <1>3, <1>4, <2>3, <3>1, <3>2
  <2>6. infl[x].victim # None => \A y \in Libraries : infl2[y] # None =>
                                   /\ infl2[y].handle # infl[x].victim
                                   /\ y # x => infl2[y].victim # infl[x].victim
    BY <1>5, <2>1, <2>2 DEF OpeningsOK
  <2> QED BY <2>1, <2>4, <2>5, <2>6
<1>9. ASSUME shut = "no"
      PROVE  ServiceOK(hs2, ents, infl2)
  <2>1. ServiceOK(hs, ents, infl) /\ ents[l] = h /\ EntriesOK(hs, ents)
    BY <1>9 DEF HandlesOK, Given
  <2>2. u.building => u.state = "open"
    <3>1. hs[h].building => hs[h].state = "open"
      BY <2>1 DEF ServiceOK, Given
    <3>2. ~hs[h].faulted => hs[h].state = "open"
      <4>1. ents[l] # None
        BY <2>1, NoneFacts
      <4> QED BY <2>1, <4>1 DEF ServiceOK
    <3> QED BY <1>3, <3>1, <3>2
  <2>3. u.state = "open" => hs[h].state = "open"
    BY <1>3
  <2>4. \A g \in Registry!Handles : hs2[g] # None =>
          /\ hs2[g].building => hs2[g].state = "open"
          /\ hs2[g].state = "open" => ents[hs2[g].lib] = g
    BY <1>3, <1>4, <2>1, <2>2, <2>3 DEF ServiceOK, Given
  <2>5. \A x \in Libraries : ents[x] # None =>
          hs2[ents[x]].state = "open" \/ (hs2[ents[x]].faulted /\ x = Primary)
    <3> SUFFICES ASSUME NEW x \in Libraries, ents[x] # None
                 PROVE  hs2[ents[x]].state = "open" \/ (hs2[ents[x]].faulted /\ x = Primary)
      OBVIOUS
    <3>1. /\ ents[x] \in Registry!Handles /\ hs[ents[x]].lib = x
          /\ hs[ents[x]].state = "open" \/ (hs[ents[x]].faulted /\ x = Primary)
      BY <1>1, <2>1 DEF ServiceOK, EntriesOK, Entered
    <3>2. CASE ents[x] = h
      BY <1>3, <1>4, <3>1, <3>2
    <3>3. CASE ents[x] # h
      BY <1>4, <3>1, <3>3
    <3> QED BY <3>2, <3>3
  <2>6. \A x \in Libraries : infl2[x] # None =>
          IF infl2[x].handle # None THEN ents[x] = infl2[x].handle
          ELSE ents[x] # None => hs2[ents[x]].state # "open"
    <3> SUFFICES ASSUME NEW x \in Libraries, infl2[x] # None
                 PROVE  IF infl2[x].handle # None THEN ents[x] = infl2[x].handle
                        ELSE ents[x] # None => hs2[ents[x]].state # "open"
      OBVIOUS
    <3>1. x # l /\ infl2[x] = infl[x]
      BY <1>5
    <3>2. ents[x] # None => ents[x] # h
      BY <2>1, <3>1 DEF EntriesOK, Given
    <3> QED BY <1>1, <1>4, <2>1, <3>1, <3>2 DEF ServiceOK, Entered
  <2> QED BY <2>1, <2>4, <2>5, <2>6 DEF ServiceOK
<1>10. BuildsOK(hs2)
  <2>1. BuildsOK(hs)
    BY DEF HandlesOK
  <2>2. u.building => u.linked
    BY <1>3, <2>1 DEF BuildsOK, Given, Sound
  <2> QED BY <1>4, <2>1, <2>2 DEF BuildsOK
<1> QED BY <1>1, <1>6, <1>7, <1>8, <1>9, <1>10 DEF HandlesOK, Handled, Entered, Begun, hs2, infl2, u

\* A victim goes: nothing is entered for its library, and its release is awaited.
LEMMA EvictHandles ==
  ASSUME NEW hs, NEW ents, NEW infl, NEW sh, HandlesOK(hs, ents, infl, sh),
         NEW l \in Libraries, NEW h \in Registry!Handles, NEW v \in Libraries \ {l},
         infl[l] = [handle |-> h, victim |-> None],
         ents[v] # None, v # Primary, infl[v] = None, ~hs[ents[v]].building
  PROVE  HandlesOK([hs EXCEPT ![ents[v]].state = "closing"], [ents EXCEPT ![v] = None],
                   [infl EXCEPT ![l] = [handle |-> h, victim |-> ents[v]]], sh)
<1> DEFINE g == ents[v]
           r == [hs[g] EXCEPT !.state = "closing"]
           hs2 == [hs EXCEPT ![g].state = "closing"]
           ents2 == [ents EXCEPT ![v] = None]
           infl2 == [infl EXCEPT ![l] = [handle |-> h, victim |-> g]]
<1>1. Handled(hs) /\ Entered(ents) /\ Begun(infl)
  BY DEF HandlesOK, Handled, Entered, Begun
<1>2. EntriesOK(hs, ents) /\ OpeningsOK(hs, infl) /\ BuildsOK(hs)
  BY DEF HandlesOK
<1>3. /\ g \in Registry!Handles /\ hs[g] # None /\ hs[g] \in Registry!Handle
      /\ hs[g].lib = v /\ hs[g].state # "closing" /\ Sound(hs[g])
  BY <1>1, <1>2 DEF EntriesOK, Handled, Entered
<1>4. /\ r \in Registry!Handle /\ r # None /\ r.lib = v /\ r.state = "closing"
      /\ r.faulted = hs[g].faulted /\ r.linked = hs[g].linked /\ r.building = hs[g].building
  BY <1>3, NoneFacts DEF Registry!Handle
<1>5. hs2[g] = r /\ \A x \in Registry!Handles : x # g => hs2[x] = hs[x]
  BY <1>1, <1>3 DEF Handled
<1>6. ents2[v] = None /\ \A x \in Libraries : x # v => ents2[x] = ents[x] /\ ents[x] # g
  BY <1>1, <1>2, <1>3 DEF Entered, EntriesOK
<1>7. /\ infl2[l] = [handle |-> h, victim |-> g]
      /\ \A x \in Libraries : x # l => infl2[x] = infl[x]
  BY <1>1 DEF Begun
<1>8. Handled(hs2)
  BY <1>1, <1>3, <1>4 DEF Handled
<1>9. Entered(ents2) /\ Begun(infl2)
  BY <1>1, <1>3 DEF Entered, Begun, Registry!Opening
<1>10. h # g /\ hs[h] # None /\ hs[h].lib = l /\ Sound(hs[h])
  <2>1. infl[l] # None /\ infl[l].handle = h
    <3>1. [handle |-> h, victim |-> None] # None
      BY NoneFacts DEF Registry!Opening
    <3> QED BY <3>1
  <2>2. hs[h] # None /\ hs[h].lib = l /\ Sound(hs[h])
    BY <1>2, <2>1, NoneFacts DEF OpeningsOK
  <2> QED BY <1>3, <2>2
<1> HIDE DEF g, r, hs2, ents2, infl2
<1>11. EntriesOK(hs2, ents2)
  BY <1>1, <1>2, <1>5, <1>6 DEF EntriesOK, Entered
<1>12. \A x \in Libraries : infl[x] # None => infl[x].handle # g /\ infl[x].victim # g
  <2> SUFFICES ASSUME NEW x \in Libraries, infl[x] # None
               PROVE  infl[x].handle # g /\ infl[x].victim # g
    OBVIOUS
  <2>1. infl[x].handle # g
    <3>1. x # v
      BY DEF g
    <3>2. infl[x].handle # None => hs[infl[x].handle].lib = x
      BY <1>2 DEF OpeningsOK
    <3> QED BY <1>3, <3>1, <3>2, NoneFacts
  <2>2. infl[x].victim # None => hs[infl[x].victim].state = "closing"
    BY <1>2 DEF OpeningsOK
  <2> QED BY <1>3, <2>1, <2>2, NoneFacts
<1>13. OpeningsOK(hs2, infl2)
  <2> SUFFICES ASSUME NEW x \in Libraries, infl2[x] # None
               PROVE  /\ infl2[x].handle # None =>
                           /\ hs2[infl2[x].handle] # None /\ hs2[infl2[x].handle].lib = x
                           /\ Sound(hs2[infl2[x].handle])
                      /\ infl2[x].victim # None =>
                           /\ infl2[x].handle # None
                           /\ hs2[infl2[x].victim] # None /\ hs2[infl2[x].victim].state = "closing"
                           /\ \A y \in Libraries : infl2[y] # None =>
                                /\ infl2[y].handle # infl2[x].victim
                                /\ y # x => infl2[y].victim # infl2[x].victim
    BY DEF OpeningsOK
  <2>1. infl[l] # None /\ infl[l].handle = h /\ infl[l].victim = None
    <3>1. [handle |-> h, victim |-> None] # None
      BY NoneFacts DEF Registry!Opening
    <3> QED BY <3>1
  <2>2. CASE x = l
    <3>1. infl2[x].handle = h /\ infl2[x].victim = g
      BY <1>7, <2>2
    <3>2. hs2[h] = hs[h]
      BY <1>5, <1>10
    <3>3. \A y \in Libraries : infl2[y] # None => infl2[y].handle # g /\ (y # l => infl2[y].victim # g)
      BY <1>7, <1>10, <1>12
    <3> QED BY <1>4, <1>5, <1>10, <2>2, <3>1, <3>2, <3>3, NoneFacts
  <2>3. CASE x # l
    <3>1. infl2[x] = infl[x] /\ infl[x] \in Registry!Opening
      BY <1>1, <1>7, <2>3 DEF Begun
    <3>2. /\ infl[x].handle # g /\ infl[x].victim # g
          /\ infl[x].handle \in Registry!Handles \cup {None}
          /\ infl[x].victim \in Registry!Handles \cup {None}
      BY <1>12, <3>1 DEF Registry!Opening
    <3>3. infl[x].handle # None => /\ hs2[infl[x].handle] = hs[infl[x].handle]
                                   /\ hs[infl[x].handle] # None /\ hs[infl[x].handle].lib = x
                                   /\ Sound(hs[infl[x].handle])
      BY <1>2, <1>5, <3>1, <3>2 DEF OpeningsOK
    <3>4. infl[x].victim # None =>
            /\ infl[x].handle # None
            /\ hs2[infl[x].victim] = hs[infl[x].victim]
            /\ hs[infl[x].victim] # None /\ hs[infl[x].victim].state = "closing"
            /\ \A y \in Libraries : infl[y] # None =>
                 infl[y].handle # infl[x].victim /\ (y # x => infl[y].victim # infl[x].victim)
      BY <1>2, <1>5, <3>1, <3>2 DEF OpeningsOK
    <3>5. infl[x].victim # None => \A y \in Libraries : infl2[y] # None =>
                 infl2[y].handle # infl[x].victim /\ (y # x => infl2[y].victim # infl[x].victim)
      <4> SUFFICES ASSUME infl[x].victim # None, NEW y \in Libraries, infl2[y] # None
                   PROVE  infl2[y].handle # infl[x].victim /\ (y # x => infl2[y].victim # infl[x].victim)
        OBVIOUS
      <4>1. CASE y = l
        BY <1>7, <2>1, <3>2, <3>4, <4>1
      <4>2. CASE y # l
        BY <1>7, <3>4, <4>2
      <4> QED BY <4>1, <4>2
    <3> QED BY <3>1, <3>3, <3>4, <3>5
  <2> QED BY <2>2, <2>3
<1>14. BuildsOK(hs2)
  BY <1>2, <1>3, <1>4, <1>5 DEF BuildsOK
<1>15. ASSUME sh = "no"
       PROVE  ServiceOK(hs2, ents2, infl2)
  <2>1. ServiceOK(hs, ents, infl)
    BY <1>15 DEF HandlesOK
  <2>2. ~r.building
    BY <1>4 DEF g
  <2>3. \A x \in Registry!Handles : hs2[x] # None =>
          /\ hs2[x].building => hs2[x].state = "open"
          /\ hs2[x].state = "open" => ents2[hs2[x].lib] = x
    <3> SUFFICES ASSUME NEW x \in Registry!Handles, hs2[x] # None
                 PROVE  /\ hs2[x].building => hs2[x].state = "open"
                        /\ hs2[x].state = "open" => ents2[hs2[x].lib] = x
      OBVIOUS
    <3>1. CASE x = g
      BY <1>4, <1>5, <2>2, <3>1
    <3>2. CASE x # g
      <4>1. hs2[x] = hs[x] /\ hs[x] \in Registry!Handle
        BY <1>1, <1>5, <3>2 DEF Handled
      <4>2. hs[x].lib \in Libraries
        BY <4>1 DEF Registry!Handle
      <4>3. /\ hs[x].building => hs[x].state = "open"
            /\ hs[x].state = "open" => ents[hs[x].lib] = x
        BY <2>1, <4>1 DEF ServiceOK
      <4>4. ents[hs[x].lib] = x => ents2[hs[x].lib] = x
        BY <1>6, <3>2, <4>2 DEF g
      <4> QED BY <4>1, <4>3, <4>4
    <3> QED BY <3>1, <3>2
  <2>4. ents2[Primary] # None
    BY <1>6, <2>1, NoneFacts DEF ServiceOK
  <2>5. \A x \in Libraries : ents2[x] # None =>
          hs2[ents2[x]].state = "open" \/ (hs2[ents2[x]].faulted /\ x = Primary)
    BY <1>1, <1>5, <1>6, <2>1 DEF ServiceOK, Entered
  <2>6. \A x \in Libraries : infl2[x] # None =>
          IF infl2[x].handle # None THEN ents2[x] = infl2[x].handle
          ELSE ents2[x] # None => hs2[ents2[x]].state # "open"
    <3> SUFFICES ASSUME NEW x \in Libraries, infl2[x] # None
                 PROVE  IF infl2[x].handle # None THEN ents2[x] = infl2[x].handle
                        ELSE ents2[x] # None => hs2[ents2[x]].state # "open"
      OBVIOUS
    <3>1. CASE x = l
      <4>1. ents[l] = h
        <5>1. infl[l] # None /\ infl[l].handle = h
          <6>1. [handle |-> h, victim |-> None] # None
            BY NoneFacts DEF Registry!Opening
          <6> QED BY <6>1
        <5> QED BY <2>1, <5>1, NoneFacts DEF ServiceOK
      <4> QED BY <1>6, <1>7, <3>1, <4>1, NoneFacts
    <3>2. CASE x # l
      <4>1. infl2[x] = infl[x] /\ x # v
        BY <1>7, <3>2
      <4> QED BY <1>1, <1>5, <1>6, <2>1, <4>1 DEF ServiceOK, Entered
    <3> QED BY <3>1, <3>2
  <2> QED BY <2>3, <2>4, <2>5, <2>6 DEF ServiceOK
<1> QED BY <1>8, <1>9, <1>11, <1>13, <1>14, <1>15
        DEF HandlesOK, Handled, Entered, Begun, hs2, ents2, infl2, g

\* A handle nothing refers to holds what was opened, and is entered.
LEMMA RememberHandles ==
  ASSUME NEW hs, NEW ents, NEW infl, NEW sh, HandlesOK(hs, ents, infl, sh),
         NEW l \in Libraries, NEW h \in Registry!Handles, NEW corrupt \in BOOLEAN,
         infl[l] # None, infl[l].handle = None,
         hs[h] # None => /\ hs[h].state = "closed"
                         /\ \A x \in Libraries : /\ ents[x] # h
                                                 /\ infl[x] # None => infl[x].handle # h
  PROVE  HandlesOK([hs EXCEPT ![h] = Registry!NewHandle(l, corrupt)], [ents EXCEPT ![l] = h],
                   [infl EXCEPT ![l] = [handle |-> h, victim |-> None]], sh)
<1> DEFINE r == Registry!NewHandle(l, corrupt)
           hs2 == [hs EXCEPT ![h] = r]
           ents2 == [ents EXCEPT ![l] = h]
           infl2 == [infl EXCEPT ![l] = [handle |-> h, victim |-> None]]
<1>1. Handled(hs) /\ Entered(ents) /\ Begun(infl)
  BY DEF HandlesOK, Handled, Entered, Begun
<1>2. EntriesOK(hs, ents) /\ OpeningsOK(hs, infl) /\ BuildsOK(hs)
  BY DEF HandlesOK
<1>3. /\ r \in Registry!Handle /\ r # None /\ r.lib = l /\ r.state = "open"
      /\ r.linked /\ ~r.building
  <2>1. r = [lib |-> l, state |-> "open", building |-> FALSE, faulted |-> corrupt, linked |-> TRUE]
    BY DEF Registry!NewHandle
  <2>2. r \in Registry!Handle
    BY <2>1 DEF Registry!Handle
  <2>3. r.lib = l /\ r.state = "open" /\ r.linked = TRUE /\ r.building = FALSE
    BY <2>1
  <2> QED BY <2>2, <2>3, NoneFacts
<1>4. hs2[h] = r /\ \A x \in Registry!Handles : x # h => hs2[x] = hs[x]
  BY <1>1 DEF Handled
<1>5. ents2[l] = h /\ \A x \in Libraries : x # l => ents2[x] = ents[x]
  BY <1>1 DEF Entered
<1>6. infl2[l] = [handle |-> h, victim |-> None] /\ \A x \in Libraries : x # l => infl2[x] = infl[x]
  BY <1>1 DEF Begun
<1>7. Handled(hs2) /\ Entered(ents2) /\ Begun(infl2)
  BY <1>1, <1>3 DEF Handled, Entered, Begun, Registry!Opening
<1>8. \A x \in Libraries : /\ ents[x] # h
                           /\ infl[x] # None => infl[x].handle # h /\ infl[x].victim # h
  <2> SUFFICES ASSUME NEW x \in Libraries
               PROVE  /\ ents[x] # h
                      /\ infl[x] # None => infl[x].handle # h /\ infl[x].victim # h
    OBVIOUS
  <2>1. ents[x] # h
    BY <1>2, NoneFacts DEF EntriesOK
  <2>2. infl[x] # None => infl[x].handle # h
    BY <1>2, NoneFacts DEF OpeningsOK
  <2>3. infl[x] # None => infl[x].victim # h
    BY <1>2, NoneFacts DEF OpeningsOK
  <2> QED BY <2>1, <2>2, <2>3
<1>9. infl[l].victim = None
  BY <1>2 DEF OpeningsOK
<1> HIDE DEF r, hs2, ents2, infl2
<1>10. EntriesOK(hs2, ents2)
  BY <1>1, <1>2, <1>3, <1>4, <1>5, <1>8 DEF EntriesOK, Entered, Sound
<1>11. OpeningsOK(hs2, infl2)
  <2> SUFFICES ASSUME NEW x \in Libraries, infl2[x] # None
               PROVE  /\ infl2[x].handle # None =>
                           /\ hs2[infl2[x].handle] # None /\ hs2[infl2[x].handle].lib = x
                           /\ Sound(hs2[infl2[x].handle])
                      /\ infl2[x].victim # None =>
                           /\ infl2[x].handle # None
                           /\ hs2[infl2[x].victim] # None /\ hs2[infl2[x].victim].state = "closing"
                           /\ \A y \in Libraries : infl2[y] # None =>
                                /\ infl2[y].handle # infl2[x].victim
                                /\ y # x => infl2[y].victim # infl2[x].victim
    BY DEF OpeningsOK
  <2>1. CASE x = l
    BY <1>3, <1>4, <1>6, <2>1 DEF Sound
  <2>2. CASE x # l
    <3>1. infl2[x] = infl[x] /\ infl[x] \in Registry!Opening
      BY <1>1, <1>6, <2>2 DEF Begun
    <3>2. /\ infl[x].handle # h /\ infl[x].victim # h
          /\ infl[x].handle \in Registry!Handles \cup {None}
          /\ infl[x].victim \in Registry!Handles \cup {None}
      BY <1>8, <3>1 DEF Registry!Opening
    <3>3. infl[x].handle # None => /\ hs2[infl[x].handle] = hs[infl[x].handle]
                                   /\ hs[infl[x].handle] # None /\ hs[infl[x].handle].lib = x
                                   /\ Sound(hs[infl[x].handle])
      BY <1>2, <1>4, <3>1, <3>2 DEF OpeningsOK
    <3>4. infl[x].victim # None =>
            /\ infl[x].handle # None
            /\ hs2[infl[x].victim] = hs[infl[x].victim]
            /\ hs[infl[x].victim] # None /\ hs[infl[x].victim].state = "closing"
            /\ \A y \in Libraries : infl[y] # None =>
                 infl[y].handle # infl[x].victim /\ (y # x => infl[y].victim # infl[x].victim)
      BY <1>2, <1>4, <3>1, <3>2 DEF OpeningsOK
    <3>5. infl[x].victim # None => \A y \in Libraries : infl2[y] # None =>
                 infl2[y].handle # infl[x].victim /\ (y # x => infl2[y].victim # infl[x].victim)
      <4> SUFFICES ASSUME infl[x].victim # None, NEW y \in Libraries, infl2[y] # None
                   PROVE  infl2[y].handle # infl[x].victim /\ (y # x => infl2[y].victim # infl[x].victim)
        OBVIOUS
      <4>1. CASE y = l
        BY <1>6, <3>2, <4>1
      <4>2. CASE y # l
        BY <1>6, <3>4, <4>2
      <4> QED BY <4>1, <4>2
    <3> QED BY <3>1, <3>3, <3>4, <3>5
  <2> QED BY <2>1, <2>2
<1>12. BuildsOK(hs2)
  BY <1>2, <1>3, <1>4 DEF BuildsOK
<1>13. ASSUME sh = "no"
       PROVE  ServiceOK(hs2, ents2, infl2)
  <2>1. ServiceOK(hs, ents, infl)
    BY <1>13 DEF HandlesOK
  <2>2. ASSUME NEW x \in Registry!Handles, hs2[x] # None
        PROVE  /\ hs2[x].building => hs2[x].state = "open"
               /\ hs2[x].state = "open" => ents2[hs2[x].lib] = x
    <3>1. CASE x = h
      BY <1>3, <1>4, <1>5, <3>1
    <3>2. CASE x # h
      <4>1. hs2[x] = hs[x] /\ hs[x] \in Registry!Handle
        BY <1>1, <1>4, <2>2, <3>2 DEF Handled
      <4>2. /\ hs[x].building => hs[x].state = "open"
            /\ hs[x].state = "open" => ents[hs[x].lib] = x
        BY <2>1, <2>2, <4>1 DEF ServiceOK
      <4>3. hs[x].state = "open" => hs[x].lib # l
        BY <2>1, <4>2, NoneFacts DEF ServiceOK
      <4>4. hs[x].lib \in Libraries
        BY <4>1 DEF Registry!Handle
      <4> QED BY <1>5, <4>1, <4>2, <4>3, <4>4
    <3> QED BY <3>1, <3>2
  <2>3. ents2[Primary] # None
    BY <1>5, <2>1, NoneFacts DEF ServiceOK
  <2>4. \A x \in Libraries : ents2[x] # None =>
          hs2[ents2[x]].state = "open" \/ (hs2[ents2[x]].faulted /\ x = Primary)
    BY <1>1, <1>3, <1>4, <1>5, <1>8, <2>1 DEF ServiceOK, Entered
  <2>5. \A x \in Libraries : infl2[x] # None =>
          IF infl2[x].handle # None THEN ents2[x] = infl2[x].handle
          ELSE ents2[x] # None => hs2[ents2[x]].state # "open"
    <3> SUFFICES ASSUME NEW x \in Libraries, infl2[x] # None
                 PROVE  IF infl2[x].handle # None THEN ents2[x] = infl2[x].handle
                        ELSE ents2[x] # None => hs2[ents2[x]].state # "open"
      OBVIOUS
    <3>1. CASE x = l
      BY <1>5, <1>6, <3>1, NoneFacts
    <3>2. CASE x # l
      BY <1>1, <1>4, <1>5, <1>6, <1>8, <2>1, <3>2 DEF ServiceOK, Entered
    <3> QED BY <3>1, <3>2
  <2> QED BY <2>2, <2>3, <2>4, <2>5 DEF ServiceOK
<1> QED BY <1>7, <1>10, <1>11, <1>12, <1>13
        DEF HandlesOK, Handled, Entered, Begun, hs2, ents2, infl2, r

\* A victim's release has ended.
LEMMA ReleaseHandles ==
  ASSUME NEW hs, NEW ents, NEW infl, NEW sh, HandlesOK(hs, ents, infl, sh),
         NEW l \in Libraries, infl[l] # None, infl[l].victim # None
  PROVE  HandlesOK([hs EXCEPT ![infl[l].victim] = None], ents,
                   [infl EXCEPT ![l] = [handle |-> infl[l].handle, victim |-> None]], sh)
<1> DEFINE g == infl[l].victim
           hs2 == [hs EXCEPT ![g] = None]
           infl2 == [infl EXCEPT ![l] = [handle |-> infl[l].handle, victim |-> None]]
<1>1. Handled(hs) /\ Entered(ents) /\ Begun(infl)
  BY DEF HandlesOK, Handled, Entered, Begun
<1>2. EntriesOK(hs, ents) /\ OpeningsOK(hs, infl) /\ BuildsOK(hs)
  BY DEF HandlesOK
<1>3. infl[l] \in Registry!Opening /\ g \in Registry!Handles /\ infl[l].handle \in Registry!Handles
  BY <1>1, <1>2 DEF Begun, Registry!Opening, OpeningsOK
<1>4. /\ hs[g].state = "closing"
      /\ \A y \in Libraries : infl[y] # None =>
           infl[y].handle # g /\ (y # l => infl[y].victim # g)
      /\ \A y \in Libraries : ents[y] # g
  BY <1>2, <1>3, NoneFacts DEF OpeningsOK, EntriesOK
<1>5. hs2[g] = None /\ \A x \in Registry!Handles : x # g => hs2[x] = hs[x]
  BY <1>1, <1>3 DEF Handled
<1>6. /\ infl2[l] = [handle |-> infl[l].handle, victim |-> None]
      /\ \A x \in Libraries : x # l => infl2[x] = infl[x]
  BY <1>1 DEF Begun
<1>7. Handled(hs2) /\ Begun(infl2)
  BY <1>1, <1>3 DEF Handled, Begun, Registry!Opening
<1> HIDE DEF g, hs2, infl2
<1>8. EntriesOK(hs2, ents)
  BY <1>1, <1>2, <1>4, <1>5 DEF EntriesOK, Entered
<1>9. ASSUME NEW x \in Libraries, infl2[x] # None
      PROVE  infl[x] # None /\ infl[x] \in Registry!Opening /\ infl2[x].handle = infl[x].handle
             /\ (infl2[x].victim # None => x # l /\ infl2[x].victim = infl[x].victim)
  BY <1>1, <1>6, <1>9 DEF Begun
<1>10. OpeningsOK(hs2, infl2)
  <2> SUFFICES ASSUME NEW x \in Libraries, infl2[x] # None
               PROVE  /\ infl2[x].handle # None =>
                           /\ hs2[infl2[x].handle] # None /\ hs2[infl2[x].handle].lib = x
                           /\ Sound(hs2[infl2[x].handle])
                      /\ infl2[x].victim # None =>
                           /\ infl2[x].handle # None
                           /\ hs2[infl2[x].victim] # None /\ hs2[infl2[x].victim].state = "closing"
                           /\ \A y \in Libraries : infl2[y] # None =>
                                /\ infl2[y].handle # infl2[x].victim
                                /\ y # x => infl2[y].victim # infl2[x].victim
    BY DEF OpeningsOK
  <2>1. /\ infl[x] # None /\ infl2[x].handle = infl[x].handle
        /\ infl2[x].victim # None => x # l /\ infl2[x].victim = infl[x].victim
        /\ infl[x].handle \in Registry!Handles \cup {None}
        /\ infl[x].victim \in Registry!Handles \cup {None}
    BY <1>9 DEF Registry!Opening
  <2>2. infl[x].handle # None => /\ hs2[infl[x].handle] = hs[infl[x].handle]
                                 /\ hs[infl[x].handle] # None /\ hs[infl[x].handle].lib = x
                                 /\ Sound(hs[infl[x].handle])
    BY <1>2, <1>4, <1>5, <2>1 DEF OpeningsOK
  <2>3. infl2[x].victim # None =>
          /\ infl[x].handle # None
          /\ hs2[infl[x].victim] = hs[infl[x].victim]
          /\ hs[infl[x].victim] # None /\ hs[infl[x].victim].state = "closing"
          /\ \A y \in Libraries : infl[y] # None =>
               infl[y].handle # infl[x].victim /\ (y # x => infl[y].victim # infl[x].victim)
    BY <1>2, <1>4, <1>5, <2>1 DEF OpeningsOK
  <2>4. infl2[x].victim # None => \A y \in Libraries : infl2[y] # None =>
               infl2[y].handle # infl[x].victim /\ (y # x => infl2[y].victim # infl[x].victim)
    BY <1>9, <2>1, <2>3
  <2> QED BY <2>1, <2>2, <2>3, <2>4
<1>11. BuildsOK(hs2)
  BY <1>2, <1>5 DEF BuildsOK
<1>12. ASSUME sh = "no"
       PROVE  ServiceOK(hs2, ents, infl2)
  <2>1. ServiceOK(hs, ents, infl)
    BY <1>12 DEF HandlesOK
  <2>2. \A x \in Registry!Handles : hs2[x] # None =>
          /\ hs2[x].building => hs2[x].state = "open"
          /\ hs2[x].state = "open" => ents[hs2[x].lib] = x
    BY <1>5, <2>1 DEF ServiceOK
  <2>3. \A x \in Libraries : ents[x] # None => hs2[ents[x]] = hs[ents[x]]
    BY <1>1, <1>4, <1>5 DEF Entered
  <2>4. \A x \in Libraries : infl2[x] # None =>
          IF infl2[x].handle # None THEN ents[x] = infl2[x].handle
          ELSE ents[x] # None => hs2[ents[x]].state # "open"
    BY <1>9, <2>1, <2>3 DEF ServiceOK
  <2> QED BY <2>1, <2>2, <2>3, <2>4 DEF ServiceOK
<1> QED BY <1>1, <1>7, <1>8, <1>10, <1>11, <1>12
        DEF HandlesOK, Handled, Entered, Begun, hs2, infl2, g

\* An opening that has no handle yet is given up.
LEMMA DropHandles ==
  ASSUME NEW hs, NEW ents, NEW infl, NEW sh, HandlesOK(hs, ents, infl, sh), NEW l \in Libraries
  PROVE  HandlesOK(hs, ents, [infl EXCEPT ![l] = None], sh)
<1> DEFINE infl2 == [infl EXCEPT ![l] = None]
<1>1. Begun(infl)
  BY DEF HandlesOK, Begun
<1>2. \A x \in Libraries : infl2[x] # None => infl2[x] = infl[x] /\ infl[x] # None
  BY <1>1 DEF Begun
<1>3. Begun(infl2)
  BY <1>1 DEF Begun
<1> HIDE DEF infl2
<1>4. OpeningsOK(hs, infl) => OpeningsOK(hs, infl2)
  BY <1>2 DEF OpeningsOK
<1>5. ServiceOK(hs, ents, infl) => ServiceOK(hs, ents, infl2)
  BY <1>2 DEF ServiceOK
<1> QED BY <1>3, <1>4, <1>5 DEF HandlesOK, Begun, infl2

\* An opening begins where nothing open is entered.
LEMMA BeginHandles ==
  ASSUME NEW hs, NEW ents, NEW infl, NEW sh, HandlesOK(hs, ents, infl, sh), NEW l \in Libraries,
         infl[l] = None, sh = "no" /\ ents[l] # None => hs[ents[l]].state # "open"
  PROVE  HandlesOK(hs, ents, [infl EXCEPT ![l] = [handle |-> None, victim |-> None]], sh)
<1> DEFINE begun == [handle |-> None, victim |-> None]
           infl2 == [infl EXCEPT ![l] = begun]
<1>1. Begun(infl)
  BY DEF HandlesOK, Begun
<1>2. begun \in Registry!Opening /\ begun.handle = None /\ begun.victim = None
  BY DEF Registry!Opening
<1> HIDE DEF begun
<1>3. Begun(infl2) /\ infl2[l] = begun /\ \A x \in Libraries : x # l => infl2[x] = infl[x]
  BY <1>1, <1>2 DEF Begun
<1> HIDE DEF infl2
<1>4. OpeningsOK(hs, infl) => OpeningsOK(hs, infl2)
  BY <1>2, <1>3 DEF OpeningsOK
<1>5. sh = "no" /\ ServiceOK(hs, ents, infl) => ServiceOK(hs, ents, infl2)
  BY <1>2, <1>3 DEF ServiceOK
<1> QED BY <1>3, <1>4, <1>5 DEF HandlesOK, Begun, infl2, begun

\* What may happen to a handle: a fault, the end of a build, the loss of its file when
\* nothing goes on with it, and the close of what has a fault or was on its way out.
Touched(hs, hs2, ents, infl, sh) ==
  \A h \in Registry!Handles :
    IF hs[h] = None THEN hs2[h] = None ELSE
    /\ hs2[h] # None /\ hs2[h].lib = hs[h].lib
    /\ hs[h].faulted => hs2[h].faulted
    /\ hs2[h].building => hs[h].building
    /\ hs2[h].state # hs[h].state =>
         /\ hs2[h].state = "closed"
         /\ \A l \in Libraries : infl[l] # None => infl[l].victim # h
         /\ hs[h].state = "closing"
              \/ (sh = "no" => hs2[h].faulted /\ hs[h].lib = Primary /\ ~hs2[h].building)
    /\ hs[h].linked => \/ hs2[h].linked
                       \/ /\ ~hs2[h].building
                          /\ \A l \in Libraries : ents[l] = h => hs2[h].faulted
                          /\ \A l \in Libraries : infl[l] # None /\ infl[l].handle = h => hs2[h].faulted

LEMMA TouchHandles ==
  ASSUME NEW hs, NEW ents, NEW infl, NEW sh, HandlesOK(hs, ents, infl, sh),
         NEW hs2, Handled(hs2), Touched(hs, hs2, ents, infl, sh)
  PROVE  HandlesOK(hs2, ents, infl, sh)
<1>1. Handled(hs) /\ Entered(ents) /\ Begun(infl)
  BY DEF HandlesOK, Handled, Entered, Begun
<1>2. EntriesOK(hs, ents) /\ OpeningsOK(hs, infl) /\ BuildsOK(hs)
  BY DEF HandlesOK
<1>3. EntriesOK(hs2, ents)
  <2> SUFFICES ASSUME NEW l \in Libraries, ents[l] # None
               PROVE  /\ hs2[ents[l]] # None /\ hs2[ents[l]].lib = l
                      /\ hs2[ents[l]].state # "closing" /\ Sound(hs2[ents[l]])
    BY DEF EntriesOK
  <2>1. /\ ents[l] \in Registry!Handles /\ hs[ents[l]] # None /\ hs[ents[l]].lib = l
        /\ hs[ents[l]].state # "closing" /\ Sound(hs[ents[l]])
    BY <1>1, <1>2 DEF EntriesOK, Entered
  <2> QED BY <2>1 DEF Touched, Sound
<1>4. OpeningsOK(hs2, infl)
  <2> SUFFICES ASSUME NEW l \in Libraries, infl[l] # None
               PROVE  /\ infl[l].handle # None =>
                           /\ hs2[infl[l].handle] # None /\ hs2[infl[l].handle].lib = l
                           /\ Sound(hs2[infl[l].handle])
                      /\ infl[l].victim # None =>
                           /\ infl[l].handle # None
                           /\ hs2[infl[l].victim] # None /\ hs2[infl[l].victim].state = "closing"
                           /\ \A x \in Libraries : infl[x] # None =>
                                /\ infl[x].handle # infl[l].victim
                                /\ x # l => infl[x].victim # infl[l].victim
    BY DEF OpeningsOK
  <2>1. /\ infl[l].handle \in Registry!Handles \cup {None}
        /\ infl[l].victim \in Registry!Handles \cup {None}
    BY <1>1 DEF Begun, Registry!Opening
  <2>2. infl[l].handle # None => /\ hs[infl[l].handle] # None /\ hs[infl[l].handle].lib = l
                                 /\ Sound(hs[infl[l].handle])
    BY <1>2 DEF OpeningsOK
  <2>3. infl[l].handle # None => /\ hs2[infl[l].handle] # None /\ hs2[infl[l].handle].lib = l
                                 /\ Sound(hs2[infl[l].handle])
    BY <2>1, <2>2 DEF Touched, Sound
  <2>4. infl[l].victim # None =>
          /\ infl[l].handle # None
          /\ hs[infl[l].victim] # None /\ hs[infl[l].victim].state = "closing"
          /\ \A x \in Libraries : infl[x] # None =>
               infl[x].handle # infl[l].victim /\ (x # l => infl[x].victim # infl[l].victim)
    BY <1>2 DEF OpeningsOK
  <2>5. infl[l].victim # None => hs2[infl[l].victim] # None /\ hs2[infl[l].victim].state = "closing"
    BY <2>1, <2>4 DEF Touched
  <2> QED BY <2>3, <2>4, <2>5
<1>5. BuildsOK(hs2)
  BY <1>2 DEF BuildsOK, Touched
<1>6. ASSUME sh = "no"
      PROVE  ServiceOK(hs2, ents, infl)
  <2>1. ServiceOK(hs, ents, infl)
    BY <1>6 DEF HandlesOK
  <2>2. ASSUME NEW h \in Registry!Handles, hs2[h] # None
        PROVE  /\ hs2[h].building => hs2[h].state = "open"
               /\ hs2[h].state = "open" => ents[hs2[h].lib] = h
    <3>1. /\ hs[h] # None /\ hs2[h].lib = hs[h].lib
          /\ hs2[h].building => hs[h].building
          /\ hs2[h].state # hs[h].state =>
               hs2[h].state = "closed" /\ (hs[h].state = "closing" \/ ~hs2[h].building)
      BY <1>6, <2>2 DEF Touched
    <3>2. /\ hs[h].building => hs[h].state = "open"
          /\ hs[h].state = "open" => ents[hs[h].lib] = h
      BY <2>1, <3>1 DEF ServiceOK
    <3> QED BY <3>1, <3>2
  <2>3. ASSUME NEW l \in Libraries, ents[l] # None
        PROVE  /\ hs2[ents[l]].state = "open" \/ (hs2[ents[l]].faulted /\ l = Primary)
               /\ hs2[ents[l]].state = "open" => hs[ents[l]].state = "open"
    <3>1. /\ ents[l] \in Registry!Handles /\ hs[ents[l]] # None /\ hs[ents[l]].lib = l
          /\ hs[ents[l]].state # "closing"
      BY <1>1, <1>2, <2>3 DEF EntriesOK, Entered
    <3>2. hs[ents[l]].state = "open" \/ (hs[ents[l]].faulted /\ l = Primary)
      BY <2>1, <2>3 DEF ServiceOK
    <3>3. /\ hs[ents[l]].faulted => hs2[ents[l]].faulted
          /\ hs2[ents[l]].state # hs[ents[l]].state =>
               hs2[ents[l]].state = "closed" /\ hs2[ents[l]].faulted /\ hs[ents[l]].lib = Primary
      BY <1>6, <3>1 DEF Touched
    <3> QED BY <3>1, <3>2, <3>3
  <2> QED BY <2>1, <2>2, <2>3 DEF ServiceOK
<1> QED BY <1>1, <1>3, <1>4, <1>5, <1>6 DEF HandlesOK, Handled, Entered, Begun

\* closeAll: nothing is entered any more.
LEMMA CloseHandles ==
  ASSUME NEW hs, NEW ents, NEW infl, NEW sh, HandlesOK(hs, ents, infl, sh), NEW why, why # "no"
  PROVE  HandlesOK([h \in Registry!Handles |->
                      IF h \in {ents[l] : l \in Libraries} THEN [hs[h] EXCEPT !.state = "closing"]
                      ELSE hs[h]],
                   [l \in Libraries |-> None], infl, why)
<1> DEFINE hs2 == [h \in Registry!Handles |->
                      IF h \in {ents[l] : l \in Libraries} THEN [hs[h] EXCEPT !.state = "closing"]
                      ELSE hs[h]]
           ents2 == [l \in Libraries |-> None]
<1>1. Handled(hs) /\ Entered(ents) /\ Begun(infl)
  BY DEF HandlesOK, Handled, Entered, Begun
<1>2. EntriesOK(hs, ents) /\ OpeningsOK(hs, infl) /\ BuildsOK(hs)
  BY DEF HandlesOK
<1>3. ASSUME NEW h \in Registry!Handles
      PROVE  /\ hs2[h] \in Registry!Handle \cup {None}
             /\ hs[h] = None => hs2[h] = None
             /\ hs[h] # None => /\ hs2[h] # None /\ hs2[h].lib = hs[h].lib
                                /\ hs2[h].faulted = hs[h].faulted /\ hs2[h].linked = hs[h].linked
                                /\ hs2[h].building = hs[h].building
                                /\ hs[h].state = "closing" => hs2[h].state = "closing"
  <2>1. CASE h \in {ents[l] : l \in Libraries}
    <3>1. hs[h] # None /\ hs[h] \in Registry!Handle
      BY <1>1, <1>2, <2>1, NoneFacts DEF EntriesOK, Handled
    <3>2. hs2[h] = [hs[h] EXCEPT !.state = "closing"]
      BY <2>1
    <3>3. /\ hs2[h] \in Registry!Handle /\ hs2[h].lib = hs[h].lib
          /\ hs2[h].faulted = hs[h].faulted /\ hs2[h].linked = hs[h].linked
          /\ hs2[h].building = hs[h].building /\ hs2[h].state = "closing"
      BY <3>1, <3>2 DEF Registry!Handle
    <3> QED BY <3>1, <3>3, NoneFacts
  <2>2. CASE h \notin {ents[l] : l \in Libraries}
    BY <1>1, <2>2 DEF Handled
  <2> QED BY <2>1, <2>2
<1>4. Handled(hs2) /\ Entered(ents2) /\ EntriesOK(hs2, ents2)
  <2>1. Handled(hs2)
    BY <1>3 DEF Handled
  <2> QED BY <2>1 DEF Entered, EntriesOK
<1> HIDE DEF hs2, ents2
<1>5. BuildsOK(hs2)
  BY <1>2, <1>3 DEF BuildsOK
<1>6. OpeningsOK(hs2, infl)
  <2> SUFFICES ASSUME NEW l \in Libraries, infl[l] # None
               PROVE  /\ infl[l].handle # None =>
                           /\ hs2[infl[l].handle] # None /\ hs2[infl[l].handle].lib = l
                           /\ Sound(hs2[infl[l].handle])
                      /\ infl[l].victim # None =>
                           /\ infl[l].handle # None
                           /\ hs2[infl[l].victim] # None /\ hs2[infl[l].victim].state = "closing"
                           /\ \A x \in Libraries : infl[x] # None =>
                                /\ infl[x].handle # infl[l].victim
                                /\ x # l => infl[x].victim # infl[l].victim
    BY DEF OpeningsOK
  <2>1. /\ infl[l].handle \in Registry!Handles \cup {None}
        /\ infl[l].victim \in Registry!Handles \cup {None}
    BY <1>1 DEF Begun, Registry!Opening
  <2>2. infl[l].handle # None => /\ hs[infl[l].handle] # None /\ hs[infl[l].handle].lib = l
                                 /\ Sound(hs[infl[l].handle])
    BY <1>2 DEF OpeningsOK
  <2>3. infl[l].handle # None => /\ hs2[infl[l].handle] # None /\ hs2[infl[l].handle].lib = l
                                 /\ Sound(hs2[infl[l].handle])
    BY <1>3, <2>1, <2>2 DEF Sound
  <2>4. infl[l].victim # None =>
          /\ infl[l].handle # None
          /\ hs[infl[l].victim] # None /\ hs[infl[l].victim].state = "closing"
          /\ \A x \in Libraries : infl[x] # None =>
               infl[x].handle # infl[l].victim /\ (x # l => infl[x].victim # infl[l].victim)
    BY <1>2 DEF OpeningsOK
  <2>5. infl[l].victim # None => hs2[infl[l].victim] # None /\ hs2[infl[l].victim].state = "closing"
    BY <1>3, <2>1, <2>4
  <2> QED BY <2>3, <2>4, <2>5
<1> QED BY <1>1, <1>4, <1>5, <1>6 DEF HandlesOK, Handled, Entered, Begun, hs2, ents2

-----------------------------------------------------------------------------
(* The calls that are given a handle.                                      *)

LEMMA AfterFacts ==
  ASSUME NEW k \in Registry!Call, NEW h \in Registry!Handles, NEW r
  PROVE  LET a == Registry!After(k, h, r) IN
         /\ a \in Registry!Call
         /\ a.pc \in {"idle", "working", "deleting"}
         /\ a.pc = "idle" => a = Registry!Idle /\ k.kind # "search"
         /\ a.pc = "working" => k.kind = "search" /\ a.kind = "search" /\ a.lib = k.lib /\ a.handle = h
         /\ a.pc = "deleting" => /\ k.kind = "build" /\ a.kind = "build" /\ a.lib = k.lib
                                 /\ Registry!Repairable(r)
         /\ a.kind \in {"build", "reopen"} => a.pc = "deleting"
         /\ a.kind = "search" <=> k.kind = "search"
<1>1. Registry!Idle \in Registry!Call
  BY StoresAssumption
     DEF Registry!RegistryAssumption, Registry!Idle, Registry!Call, Registry!Kinds, Registry!Handles
<1>2. CASE k.kind = "search"
  BY <1>2 DEF Registry!After, Registry!Call, Registry!Kinds
<1>3. CASE k.kind # "search" /\ k.kind = "build" /\ Registry!Repairable(r)
  BY <1>3 DEF Registry!After, Registry!Call, Registry!Kinds
<1>4. CASE k.kind # "search" /\ ~(k.kind = "build" /\ Registry!Repairable(r))
  <2>1. Registry!After(k, h, r) = Registry!Idle
    BY <1>4 DEF Registry!After
  <2>2. Registry!Idle.pc = "idle" /\ Registry!Idle.kind = "read"
    BY DEF Registry!Idle
  <2> QED BY <1>1, <1>4, <2>1, <2>2
<1> QED BY <1>2, <1>3, <1>4

\* A step that gives S, the calls for l, the handle h.
Answer(asked, S, h, r) ==
  [c \in Callers |-> IF c \in S THEN Registry!After(asked[c], h, r) ELSE asked[c]]

\* The calls of S may be at any point; the others are as they should be.
Asking(asked, S, l) ==
  /\ asked \in [Callers -> Registry!Call] /\ OneWriter(asked)
  /\ S \subseteq Callers
  /\ \A c \in Callers : IF c \in S THEN asked[c].lib = l ELSE CallOK(asked[c])

LEMMA AnswerCalls ==
  ASSUME NEW asked, NEW S, NEW l \in Libraries, Asking(asked, S, l),
         NEW h \in Registry!Handles, NEW r, r.lib = l
  PROVE  /\ CallsOK(Answer(asked, S, h, r))
         /\ \A x : Searching(Answer(asked, S, h, r), x) = Searching(asked, x)
<1> DEFINE asked2 == Answer(asked, S, h, r)
<1>1. \A c \in Callers : asked2[c] = IF c \in S THEN Registry!After(asked[c], h, r) ELSE asked[c]
  BY DEF Answer
<1>2. ASSUME NEW c \in S
      PROVE  /\ c \in Callers /\ asked[c].lib = l
             /\ asked2[c] \in Registry!Call
             /\ asked2[c].pc \in {"idle", "working", "deleting"}
             /\ asked2[c].pc = "idle" => asked2[c] = Registry!Idle /\ asked[c].kind # "search"
             /\ asked2[c].pc = "working" => /\ asked2[c].kind = "search" /\ asked2[c].lib = l
                                            /\ asked2[c].handle = h
             /\ asked2[c].pc = "deleting" => /\ asked[c].kind = "build" /\ asked2[c].kind = "build"
                                             /\ asked2[c].lib = l /\ Registry!Repairable(r)
             /\ asked2[c].kind \in {"build", "reopen"} => asked2[c].pc = "deleting"
             /\ asked2[c].kind = "search" <=> asked[c].kind = "search"
  <2>1. c \in Callers /\ asked[c].lib = l /\ asked[c] \in Registry!Call
    BY <1>2 DEF Asking
  <2> QED BY <1>1, <1>2, <2>1, AfterFacts
<1>3. asked2 = [c \in Callers |-> asked2[c]]
  BY DEF Answer
<1> HIDE DEF asked2
<1>4. \A c \in Callers : c \notin S => asked2[c] = asked[c] /\ CallOK(asked[c]) /\ asked[c] \in Registry!Call
  BY <1>1 DEF Asking
<1>5. asked2 \in [Callers -> Registry!Call]
  BY <1>2, <1>3, <1>4
<1>6. ASSUME NEW c \in Callers
      PROVE  CallOK(asked2[c])
  <2>1. CASE c \in S
    <3>1. Registry!Idle.kind = "read"
      BY DEF Registry!Idle
    <3>2. Registry!Repairable(r) => l = Primary
      BY DEF Registry!Repairable
    <3>3. asked2[c].pc \in {"idle", "working", "deleting"}
      BY <1>2, <2>1
    <3>4. CASE asked2[c].pc = "idle"
      BY <1>2, <2>1, <3>1, <3>4 DEF CallOK
    <3>5. CASE asked2[c].pc = "working"
      BY <1>2, <2>1, <3>5 DEF CallOK
    <3>6. CASE asked2[c].pc = "deleting"
      BY <1>2, <2>1, <3>2, <3>6 DEF CallOK
    <3> QED BY <3>3, <3>4, <3>5, <3>6
  <2>2. CASE c \notin S
    BY <1>4, <2>2
  <2> QED BY <2>1, <2>2
<1>7. \A c \in Callers : Writes(asked2[c]) => Writes(asked[c])
  BY <1>2, <1>4 DEF Writes
<1>8. OneWriter(asked2)
  BY <1>7 DEF OneWriter, Asking
<1>9. ASSUME NEW x
      PROVE  Searching(asked2, x) = Searching(asked, x)
  <2>1. ASSUME NEW c \in Callers
        PROVE  asked2[c].kind = "search" /\ asked2[c].lib = x <=> asked[c].kind = "search" /\ asked[c].lib = x
    <3>1. CASE c \in S
      <4>1. asked2[c].kind = "search" <=> asked[c].kind = "search"
        BY <1>2, <3>1
      <4>2. asked2[c].kind = "search" => asked2[c].lib = l
        <5>1. asked2[c].pc = "idle" => asked2[c].kind # "search"
          BY <1>2, <3>1
        <5>2. asked2[c].pc = "deleting" => asked2[c].kind # "search"
          BY <1>2, <3>1
        <5> QED BY <1>2, <3>1, <5>1, <5>2
      <4> QED BY <1>2, <3>1, <4>1, <4>2
    <3>2. CASE c \notin S
      BY <1>4, <3>2
    <3> QED BY <3>1, <3>2
  <2> QED BY <2>1 DEF Searching
<1> QED BY <1>5, <1>6, <1>8, <1>9 DEF CallsOK, asked2

\* What they wait for, hold and delete is as it should be, once they are answered.
LEMMA AnswerMeets ==
  ASSUME NEW asked, NEW S, NEW l \in Libraries, Asking(asked, S, l), NEW h \in Registry!Handles,
         NEW hs, NEW ents, NEW infl, HandlesOK(hs, ents, infl, shut), Given(l, h, hs, ents, infl, shut),
         \A c \in Callers \ S :
           /\ asked[c].pc = "waiting" => asked[c].lib # l /\ infl[asked[c].lib] # None
           /\ shut = "no" /\ asked[c].pc = "working" =>
                ents[asked[c].lib] = asked[c].handle /\ infl[asked[c].lib] = None
           /\ asked[c].pc = "deleting" =>
                /\ infl[Primary] = None
                /\ ents[Primary] # None => hs[ents[Primary]].faulted
                /\ \A g \in Registry!Handles : hs[g] # None /\ hs[g].lib = Primary => ~hs[g].building,
         shut = "evicted" => \A c \in Callers : asked[c].kind # "search"
  PROVE  LET asked2 == Answer(asked, S, h, hs[h])
             hs2 == [hs EXCEPT ![h] = Registry!Used({asked[c].kind : c \in S}, hs[h])]
             infl2 == [infl EXCEPT ![l] = None]
         IN  /\ WaitsOK(asked2, infl2)
             /\ SearchesOK(asked2, ents, infl2, shut)
             /\ DeletesOK(asked2, hs2, ents, infl2)
<1> DEFINE kinds == {asked[c].kind : c \in S}
           u == Registry!Used(kinds, hs[h])
           asked2 == Answer(asked, S, h, hs[h])
           hs2 == [hs EXCEPT ![h] = u]
           infl2 == [infl EXCEPT ![l] = None]
<1>1. Handled(hs) /\ Entered(ents) /\ Begun(infl) /\ EntriesOK(hs, ents)
  BY DEF HandlesOK, Handled, Entered, Begun
<1>2. hs[h] \in Registry!Handle /\ hs[h].lib = l
  BY <1>1 DEF Handled, Given
<1>3. /\ u \in Registry!Handle /\ u # None
      /\ u.lib = hs[h].lib /\ u.faulted = hs[h].faulted
      /\ u.building => hs[h].building \/ ~hs[h].faulted
      /\ kinds \cap {"build", "reopen"} = {} => u = hs[h]
      /\ "build" \in kinds /\ Registry!Repairable(hs[h]) => ~u.building
  BY <1>2, UsedFacts, NoneFacts
<1> HIDE DEF u
<1>4. hs2[h] = u /\ \A g \in Registry!Handles : g # h => hs2[g] = hs[g]
  BY <1>1 DEF Handled
<1>5. infl2[l] = None /\ \A x \in Libraries : x # l => infl2[x] = infl[x]
  BY <1>1 DEF Begun
<1>6. /\ CallsOK(asked2)
      /\ \A x : Searching(asked2, x) = Searching(asked, x)
  BY <1>2, AnswerCalls
<1>7. \A c \in Callers : c \notin S => asked2[c] = asked[c] /\ asked[c].lib \in Libraries
  BY DEF Answer, Asking, Registry!Call
<1>8. ASSUME NEW c \in S
      PROVE  /\ c \in Callers /\ asked[c].lib = l
             /\ asked2[c].pc # "waiting"
             /\ asked2[c].pc = "working" => asked2[c].lib = l /\ asked2[c].handle = h
             /\ asked2[c].pc = "deleting" => asked[c].kind = "build" /\ Registry!Repairable(hs[h])
  <2>1. c \in Callers /\ asked[c].lib = l /\ asked[c] \in Registry!Call
    BY <1>8 DEF Asking
  <2>2. asked2[c] = Registry!After(asked[c], h, hs[h])
    BY <1>8, <2>1 DEF Answer
  <2> HIDE DEF asked2
  <2> QED BY <2>1, <2>2, AfterFacts
<1> HIDE DEF hs2, infl2, asked2
<1>9. WaitsOK(asked2, infl2)
  <2> SUFFICES ASSUME NEW c \in Callers, asked2[c].pc = "waiting"
               PROVE  infl2[asked2[c].lib] # None
    BY DEF WaitsOK
  <2>1. c \notin S
    BY <1>8
  <2> QED BY <1>5, <1>7, <2>1
<1>10. SearchesOK(asked2, ents, infl2, shut)
  <2>1. ASSUME shut = "no", NEW c \in Callers, asked2[c].pc = "working"
        PROVE  ents[asked2[c].lib] = asked2[c].handle /\ infl2[asked2[c].lib] = None
    <3>1. CASE c \in S
      BY <1>5, <1>8, <2>1, <3>1 DEF Given
    <3>2. CASE c \notin S
      <4>1. asked2[c] = asked[c] /\ asked[c].lib \in Libraries
        BY <1>7, <3>2
      <4>2. ents[asked[c].lib] = asked[c].handle /\ infl[asked[c].lib] = None
        BY <2>1, <3>2, <4>1
      <4> QED BY <1>5, <4>1, <4>2
    <3> QED BY <3>1, <3>2
  <2>2. ASSUME shut = "evicted", NEW c \in Callers
        PROVE  asked2[c].kind # "search"
    <3>1. asked2[c] \in Registry!Call
      BY <1>6 DEF CallsOK
    <3>2. asked2[c].kind = "search" => c \in Searching(asked2, asked2[c].lib)
      BY DEF Searching
    <3>3. asked[c].kind # "search"
      BY <2>2
    <3> QED BY <1>6, <3>2, <3>3 DEF Searching
  <2> QED BY <2>1, <2>2 DEF SearchesOK
<1>11. ASSUME NEW c \in Callers, asked2[c].pc = "deleting"
       PROVE  /\ infl2[Primary] = None
              /\ ents[Primary] # None => hs2[ents[Primary]].faulted
              /\ \A g \in Registry!Handles : hs2[g] # None /\ hs2[g].lib = Primary => ~hs2[g].building
  <2>1. CASE c \in S
    <3>1. asked[c].kind = "build" /\ Registry!Repairable(hs[h]) /\ "build" \in kinds
      BY <1>8, <1>11, <2>1
    <3>2. hs[h].faulted /\ l = Primary /\ shut = "no" /\ ents[Primary] = h
      BY <1>2, <3>1 DEF Registry!Repairable, Given
    <3>3. ~u.building
      BY <1>3, <3>1
    <3>4. ASSUME NEW g \in Registry!Handles, hs2[g] # None, hs2[g].lib = Primary
          PROVE  ~hs2[g].building
      <4>1. CASE g = h
        BY <1>4, <3>3, <4>1
      <4>2. CASE g # h
        <5>1. ServiceOK(hs, ents, infl)
          BY <3>2 DEF HandlesOK
        <5>2. hs2[g] = hs[g]
          BY <1>4, <4>2
        <5> QED BY <3>2, <3>4, <4>2, <5>1, <5>2 DEF ServiceOK
      <4> QED BY <4>1, <4>2
    <3> QED BY <1>3, <1>4, <1>5, <3>2, <3>4
  <2>2. CASE c \notin S
    <3>1. asked2[c] = asked[c]
      BY <1>7, <2>2
    <3>2. /\ infl[Primary] = None
          /\ ents[Primary] # None => hs[ents[Primary]].faulted
          /\ \A g \in Registry!Handles : hs[g] # None /\ hs[g].lib = Primary => ~hs[g].building
      BY <1>11, <2>2, <3>1
    <3>3. infl2[Primary] = None
      BY <1>5, <3>2, NoneFacts
    <3>4. ents[Primary] # None => hs2[ents[Primary]].faulted
      <4>1. ents[Primary] \in Registry!Handles \cup {None}
        BY <1>1, NoneFacts DEF Entered
      <4> QED BY <1>3, <1>4, <3>2, <4>1
    <3>5. l = Primary => kinds \cap {"build", "reopen"} = {}
      <4> SUFFICES ASSUME l = Primary, NEW d \in S, asked[d].kind \in {"build", "reopen"}
                   PROVE  FALSE
        OBVIOUS
      <4>1. d \in Callers /\ Writes(asked[d])
        BY <1>8 DEF Writes
      <4>2. Writes(asked[c])
        <5>1. CallOK(asked[c])
          BY <2>2 DEF Asking
        <5> QED BY <1>11, <3>1, <5>1 DEF CallOK, Writes
      <4>3. c = d
        BY <4>1, <4>2 DEF Asking, OneWriter
      <4> QED BY <2>2, <4>3
    <3>6. ASSUME NEW g \in Registry!Handles, hs2[g] # None, hs2[g].lib = Primary
          PROVE  ~hs2[g].building
      <4>1. CASE g = h
        <5>1. l = Primary
          BY <1>2, <1>3, <1>4, <3>6, <4>1
        <5>2. hs2[g] = hs[g]
          BY <1>3, <1>4, <3>5, <4>1, <5>1
        <5> QED BY <3>2, <3>6, <5>2
      <4>2. CASE g # h
        BY <1>4, <3>2, <3>6, <4>2
      <4> QED BY <4>1, <4>2
    <3> QED BY <3>3, <3>4, <3>6
  <2> QED BY <2>1, <2>2
<1>12. DeletesOK(asked2, hs2, ents, infl2)
  BY <1>11 DEF DeletesOK
<1> QED BY <1>9, <1>10, <1>12 DEF asked2, hs2, infl2, u

-----------------------------------------------------------------------------
(* The order of use.                                                       *)

Listed(s) == {s[i] : i \in 1..Len(s)}

Once(s) == s \in Seq(Libraries) /\ \A i, j \in 1..Len(s) : s[i] = s[j] => i = j

LEMMA WithoutFacts ==
  ASSUME NEW s, Once(s), NEW l
  PROVE  Once(Registry!Without(s, l)) /\ Listed(Registry!Without(s, l)) = Listed(s) \ {l}
<1> DEFINE places == {i \in DOMAIN s : s[i] = l}
           place == CHOOSE i \in places : TRUE
           w == [i \in 1..(Len(s) - 1) |-> IF i < place THEN s[i] ELSE s[i + 1]]
<1>1. /\ s \in Seq(Libraries) /\ Len(s) \in Nat /\ DOMAIN s = 1..Len(s)
      /\ \A i \in 1..Len(s) : s[i] \in Libraries
      /\ \A i, j \in 1..Len(s) : s[i] = s[j] => i = j
  BY DEF Once
<1>2. Registry!Without(s, l) = IF places = {} THEN s ELSE w
  BY DEF Registry!Without
<1>3. CASE places = {}
  BY <1>1, <1>2, <1>3 DEF Listed, Once
<1>4. CASE places # {}
  <2>1. place \in 1..Len(s) /\ s[place] = l
    BY <1>1, <1>4
  <2> HIDE DEF place
  <2>2. Len(s) - 1 \in Nat
    BY <1>1, <2>1
  <2>3. \A i \in 1..(Len(s) - 1) : w[i] = IF i < place THEN s[i] ELSE s[i + 1]
    OBVIOUS
  <2>4. w \in Seq(Libraries) /\ Len(w) = Len(s) - 1
    <3>1. w \in [1..(Len(s) - 1) -> Libraries]
      BY <1>1, <2>1
    <3> HIDE DEF w
    <3> QED BY <2>2, <3>1
  <2> HIDE DEF w
  <2>5. ASSUME NEW i \in 1..Len(w)
        PROVE  \E a \in 1..Len(s) : a # place /\ w[i] = s[a] /\ a = IF i < place THEN i ELSE i + 1
    BY <1>1, <2>1, <2>3, <2>4
  <2>6. ASSUME NEW i \in 1..Len(w), NEW j \in 1..Len(w), w[i] = w[j]
        PROVE  i = j
    <3>1. PICK a \in 1..Len(s) : w[i] = s[a] /\ a = IF i < place THEN i ELSE i + 1
      BY <2>5
    <3>2. PICK b \in 1..Len(s) : w[j] = s[b] /\ b = IF j < place THEN j ELSE j + 1
      BY <2>5
    <3>3. a = b
      BY <1>1, <2>6, <3>1, <3>2
    <3> QED BY <1>1, <2>1, <2>4, <3>1, <3>2, <3>3
  <2>7. Listed(w) \subseteq Listed(s) \ {l}
    <3> SUFFICES ASSUME NEW i \in 1..Len(w)
                 PROVE  w[i] \in Listed(s) \ {l}
      BY DEF Listed
    <3>1. PICK a \in 1..Len(s) : a # place /\ w[i] = s[a]
      BY <2>5
    <3> QED BY <1>1, <2>1, <3>1 DEF Listed
  <2>8. Listed(s) \ {l} \subseteq Listed(w)
    <3> SUFFICES ASSUME NEW a \in 1..Len(s), s[a] # l
                 PROVE  s[a] \in Listed(w)
      BY DEF Listed
    <3>1. a # place
      BY <2>1
    <3>2. CASE a < place
      <4>1. a \in 1..Len(w) /\ w[a] = s[a]
        BY <1>1, <2>1, <2>3, <2>4, <3>2
      <4> QED BY <4>1 DEF Listed
    <3>3. CASE ~(a < place)
      <4>1. a - 1 \in 1..Len(w) /\ w[a - 1] = s[a]
        BY <1>1, <2>1, <2>3, <2>4, <3>1, <3>3
      <4> QED BY <4>1 DEF Listed
    <3> QED BY <3>2, <3>3
  <2> QED BY <1>2, <1>4, <2>4, <2>6, <2>7, <2>8 DEF Once
<1> QED BY <1>3, <1>4

LEMMA AppendFacts ==
  ASSUME NEW s, Once(s), NEW l \in Libraries, l \notin Listed(s)
  PROVE  Once(Append(s, l)) /\ Listed(Append(s, l)) = Listed(s) \cup {l}
<1> DEFINE t == Append(s, l)
<1>1. /\ s \in Seq(Libraries) /\ Len(s) \in Nat
      /\ \A i, j \in 1..Len(s) : s[i] = s[j] => i = j
      /\ \A i \in 1..Len(s) : s[i] # l
  BY DEF Once, Listed
<1>2. /\ t \in Seq(Libraries) /\ Len(t) = Len(s) + 1
      /\ t[Len(s) + 1] = l /\ \A i \in 1..Len(s) : t[i] = s[i]
  BY <1>1
<1> HIDE DEF t
<1>3. \A i, j \in 1..Len(t) : t[i] = t[j] => i = j
  <2> SUFFICES ASSUME NEW i \in 1..Len(t), NEW j \in 1..Len(t), t[i] = t[j]
               PROVE  i = j
    OBVIOUS
  <2>1. (i \in 1..Len(s) \/ i = Len(s) + 1) /\ (j \in 1..Len(s) \/ j = Len(s) + 1)
    BY <1>1, <1>2
  <2> QED BY <1>1, <1>2, <2>1
<1>4. Listed(t) = Listed(s) \cup {l}
  <2>1. 1..Len(t) = (1..Len(s)) \cup {Len(s) + 1}
    BY <1>1, <1>2
  <2> QED BY <1>2, <2>1 DEF Listed
<1> QED BY <1>2, <1>3, <1>4 DEF Once, t

LEMMA OrderFacts ==
  ASSUME NEW ord, NEW ents
  PROVE  OrderOK(ord, ents) <=> Once(ord) /\ Listed(ord) = Registry!Held(ents)
BY DEF OrderOK, Once, Listed, Registry!Held

\* Its length is the number of the libraries it lists.
LEMMA OrderLength ==
  ASSUME NEW s, Once(s)
  PROVE  Len(s) = Cardinality(Listed(s))
<1>1. /\ s \in Seq(Libraries) /\ Len(s) \in Nat
      /\ \A i, j \in 1..Len(s) : s[i] = s[j] => i = j
  BY DEF Once
<1> DEFINE f == [i \in 1..Len(s) |-> s[i]]
<1>2. f \in Bijection(1..Len(s), Listed(s))
  <2>1. \A i \in 1..Len(s) : f[i] = s[i] /\ f[i] \in Listed(s)
    BY DEF Listed
  <2>2. f \in [1..Len(s) -> Listed(s)]
    BY DEF Listed
  <2> HIDE DEF f
  <2>3. \A i, j \in 1..Len(s) : f[i] = f[j] => i = j
    BY <1>1, <2>1
  <2>4. \A x \in Listed(s) : \E i \in 1..Len(s) : f[i] = x
    BY <2>1 DEF Listed
  <2> QED BY <2>2, <2>3, <2>4 DEF Bijection, Injection, Surjection, IsInjective
<1>3. IsFiniteSet(1..Len(s)) /\ Cardinality(1..Len(s)) = Len(s)
  <2>1. 1 \in Int /\ Len(s) \in Int /\ (1 > Len(s) => Len(s) = 0)
    BY <1>1
  <2>2. /\ IsFiniteSet(1..Len(s))
        /\ Cardinality(1..Len(s)) = IF 1 > Len(s) THEN 0 ELSE Len(s) - 1 + 1
    BY <2>1, FS_Interval
  <2> QED BY <2>1, <2>2
<1>4. ExistsBijection(1..Len(s), Listed(s))
  BY <1>2 DEF ExistsBijection
<1> QED BY <1>3, <1>4, FS_Bijection

\* A library that is used again, or is entered, is the last.
LEMMA OrderAppends ==
  ASSUME NEW ord, NEW ents, OrderOK(ord, ents), Entered(ents), NEW l \in Libraries,
         NEW h \in Registry!Handles
  PROVE  OrderOK(Append(Registry!Without(ord, l), l), [ents EXCEPT ![l] = h])
<1> DEFINE w == Registry!Without(ord, l)
<1>1. Once(ord) /\ Listed(ord) = Registry!Held(ents)
  BY OrderFacts
<1>2. Once(w) /\ Listed(w) = Registry!Held(ents) \ {l}
  BY <1>1, WithoutFacts
<1> HIDE DEF w
<1>3. Once(Append(w, l)) /\ Listed(Append(w, l)) = (Registry!Held(ents) \ {l}) \cup {l}
  BY <1>2, AppendFacts
<1>4. Registry!Held([ents EXCEPT ![l] = h]) = (Registry!Held(ents) \ {l}) \cup {l}
  BY NoneFacts DEF Registry!Held, Entered
<1> QED BY <1>3, <1>4, OrderFacts DEF w

LEMMA OrderDrops ==
  ASSUME NEW ord, NEW ents, OrderOK(ord, ents), Entered(ents), NEW v \in Libraries
  PROVE  OrderOK(Registry!Without(ord, v), [ents EXCEPT ![v] = None])
<1>1. Once(ord) /\ Listed(ord) = Registry!Held(ents)
  BY OrderFacts
<1>2. /\ Once(Registry!Without(ord, v))
      /\ Listed(Registry!Without(ord, v)) = Registry!Held(ents) \ {v}
  BY <1>1, WithoutFacts
<1>3. Registry!Held([ents EXCEPT ![v] = None]) = Registry!Held(ents) \ {v}
  BY DEF Registry!Held, Entered
<1> QED BY <1>2, <1>3, OrderFacts

-----------------------------------------------------------------------------
(* The leases.                                                             *)

LEMMA SearchingFacts ==
  ASSUME NEW asked, NEW l
  PROVE  IsFiniteSet(Searching(asked, l)) /\ Cardinality(Searching(asked, l)) \in Nat
<1>1. IsFiniteSet(Callers)
  BY StoresAssumption DEF Registry!RegistryAssumption, Registry!IsFiniteSet, IsFiniteSet
<1>2. Searching(asked, l) \in SUBSET Callers
  BY DEF Searching
<1>3. IsFiniteSet(Searching(asked, l))
  BY <1>1, <1>2, FS_Subset
<1> QED BY <1>3, FS_CardinalityType

\* Calls of a library that come to an end, and give up the leases of their searches.
Ended(asked, T) == [c \in Callers |-> IF c \in T THEN Registry!Idle ELSE asked[c]]

LEMMA EndedLeases ==
  ASSUME LeasesOK(leases, call), leases \in [Libraries -> Nat], NEW l \in Libraries,
         NEW T, T \subseteq {c \in Callers : call[c].lib = l}
  PROVE  LET ls == [leases EXCEPT ![l] = leases[l] - Cardinality({c \in T : call[c].kind = "search"})]
         IN  ls \in [Libraries -> Nat] /\ LeasesOK(ls, Ended(call, T))
<1> DEFINE S == {c \in T : call[c].kind = "search"}
           asked2 == Ended(call, T)
<1>1. IsFiniteSet(Searching(call, l)) /\ Cardinality(Searching(call, l)) \in Nat
  BY SearchingFacts
<1>2. S \subseteq Searching(call, l)
  BY DEF Searching
<1>3. IsFiniteSet(S) /\ Cardinality(S) \in Nat
  <2>1. IsFiniteSet(S)
    BY <1>1, <1>2, FS_Subset
  <2> QED BY <2>1, FS_CardinalityType
<1>4. Registry!Idle.kind = "read"
  BY DEF Registry!Idle
<1>5. \A c \in Callers : asked2[c] = IF c \in T THEN Registry!Idle ELSE call[c]
  BY DEF Ended
<1> HIDE DEF asked2
<1>6. Searching(asked2, l) = Searching(call, l) \ S
  BY <1>4, <1>5 DEF Searching
<1>7. Cardinality(Searching(call, l) \ S) = Cardinality(Searching(call, l)) - Cardinality(S)
  <2>1. Searching(call, l) \cap S = S
    BY <1>2
  <2> QED BY <1>1, <1>3, <2>1, FS_Difference
<1>8. \A x \in Libraries : x # l => Searching(asked2, x) = Searching(call, x)
  BY <1>4, <1>5 DEF Searching
<1>9. Cardinality(Searching(asked2, l)) \in Nat
  BY SearchingFacts
<1>10. \A x \in Libraries : leases[x] = Cardinality(Searching(call, x))
  BY DEF LeasesOK
<1>11. leases[l] - Cardinality(S) = Cardinality(Searching(asked2, l))
  BY <1>6, <1>7, <1>10
<1>12. \A x \in Libraries : [leases EXCEPT ![l] = leases[l] - Cardinality(S)][x]
                             = Cardinality(Searching(asked2, x))
  BY <1>8, <1>10, <1>11
<1> QED BY <1>9, <1>11, <1>12 DEF LeasesOK, asked2

\* The other parts of the invariant do not mind a call that has come to an end.
LEMMA EndedCalls ==
  ASSUME NEW asked, CallsOK(asked), NEW T
  PROVE  /\ CallsOK(Ended(asked, T))
         /\ \A infl : WaitsOK(asked, infl) => WaitsOK(Ended(asked, T), infl)
         /\ \A ents, infl : SearchesOK(asked, ents, infl, shut) => SearchesOK(Ended(asked, T), ents, infl, shut)
         /\ \A hs, ents, infl : DeletesOK(asked, hs, ents, infl) => DeletesOK(Ended(asked, T), hs, ents, infl)
<1> DEFINE asked2 == Ended(asked, T)
<1>1. \A c \in Callers : asked2[c] = IF c \in T THEN Registry!Idle ELSE asked[c]
  BY DEF Ended
<1>2. Registry!Idle.kind = "read" /\ Registry!Idle.pc = "idle"
  BY DEF Registry!Idle
<1>3. Registry!Idle \in Registry!Call
  BY StoresAssumption
     DEF Registry!RegistryAssumption, Registry!Idle, Registry!Call, Registry!Kinds, Registry!Handles
<1>4. asked2 \in [Callers -> Registry!Call]
  BY <1>3 DEF Ended, CallsOK
<1> HIDE DEF asked2
<1>5. \A c \in Callers : CallOK(asked2[c])
  BY <1>1, <1>2 DEF CallsOK, CallOK
<1>6. OneWriter(asked2)
  BY <1>1, <1>2 DEF CallsOK, OneWriter, Writes
<1>7. \A infl : WaitsOK(asked, infl) => WaitsOK(asked2, infl)
  BY <1>1, <1>2 DEF WaitsOK
<1>8. \A ents, infl : SearchesOK(asked, ents, infl, shut) => SearchesOK(asked2, ents, infl, shut)
  BY <1>1, <1>2 DEF SearchesOK
<1>9. \A hs, ents, infl : DeletesOK(asked, hs, ents, infl) => DeletesOK(asked2, hs, ents, infl)
  BY <1>1, <1>2 DEF DeletesOK
<1> QED BY <1>4, <1>5, <1>6, <1>7, <1>8, <1>9 DEF CallsOK, asked2

\* A call that starts to search takes a lease.
LEMMA MoreLeases ==
  ASSUME LeasesOK(leases, call), leases \in [Libraries -> Nat], NEW l \in Libraries,
         NEW c \in Callers, call[c].kind # "search", NEW asked2,
         Searching(asked2, l) = Searching(call, l) \cup {c},
         \A x \in Libraries : x # l => Searching(asked2, x) = Searching(call, x)
  PROVE  LET ls == [leases EXCEPT ![l] = leases[l] + 1]
         IN  ls \in [Libraries -> Nat] /\ LeasesOK(ls, asked2)
<1>1. IsFiniteSet(Searching(call, l)) /\ Cardinality(Searching(call, l)) \in Nat
  BY SearchingFacts
<1>2. c \notin Searching(call, l)
  BY DEF Searching
<1>3. Cardinality(Searching(asked2, l)) = Cardinality(Searching(call, l)) + 1
  <2> DEFINE S == Searching(call, l)
  <2>1. IsFiniteSet(S) /\ c \notin S /\ Searching(asked2, l) = S \cup {c}
    BY <1>1, <1>2
  <2> HIDE DEF S
  <2>2. Cardinality(S \cup {c}) = Cardinality(S) + 1
    BY <2>1, FS_AddElement
  <2>3. Cardinality(Searching(asked2, l)) = Cardinality(S) + 1
    BY <2>1, <2>2
  <2> QED BY <2>3 DEF S
<1>4. \A x \in Libraries : leases[x] = Cardinality(Searching(call, x))
  BY DEF LeasesOK
<1> DEFINE ls == [leases EXCEPT ![l] = leases[l] + 1]
<1>5. leases[l] + 1 = Cardinality(Searching(asked2, l)) /\ leases[l] + 1 \in Nat
  BY <1>1, <1>3, <1>4
<1>6. ls \in [Libraries -> Nat]
  BY <1>5
<1>7. \A x \in Libraries : ls[x] = Cardinality(Searching(asked2, x))
  BY <1>4, <1>5
<1> QED BY <1>6, <1>7 DEF LeasesOK

-----------------------------------------------------------------------------
(* The opening of an index, from its handle on.                            *)

\* Everything but the files, the leases and the shutdown, in the next state; the
\* searches are those of asked.
Kept(asked) ==
  /\ HandlesOK(opened', entries', inflight', shut)
  /\ CallsOK(call')
  /\ \A x \in Libraries : Searching(call', x) = Searching(asked, x)
  /\ WaitsOK(call', inflight')
  /\ SearchesOK(call', entries', inflight', shut)
  /\ DeletesOK(call', opened', entries', inflight')
  /\ OrderOK(order', entries')

LEMMA SettleKeeps ==
  ASSUME RegInv, NEW l \in Libraries, NEW h \in Registry!Handles, inflight[l] # None,
         NEW hs, NEW ents, NEW ord, NEW infl,
         infl = [inflight EXCEPT ![l] = [handle |-> h, victim |-> None]],
         HandlesOK(hs, ents, infl, shut), SearchesOK(call, ents, infl, shut),
         DeletesOK(call, hs, ents, infl), OrderOK(ord, ents),
         Registry!Settle(l, h, hs, ents, ord)
  PROVE  Kept(call)
<1>1. /\ CallsOK(call) /\ WaitsOK(call, inflight) /\ Begun(inflight)
      /\ leases \in [Libraries -> Nat] /\ LeasesOK(leases, call)
  BY DEF RegInv, HandlesOK, Begun
<1>2. Handled(hs) /\ Entered(ents) /\ Begun(infl) /\ EntriesOK(hs, ents) /\ OpeningsOK(hs, infl)
  BY DEF HandlesOK, Handled, Entered, Begun
<1>3. /\ infl[l] = [handle |-> h, victim |-> None]
      /\ \A x \in Libraries : x # l => infl[x] = inflight[x]
  BY <1>1 DEF Begun
<1>4. infl[l] # None /\ infl[l].handle = h /\ infl[l].victim = None
  <2>1. [handle |-> h, victim |-> None] # None
    BY NoneFacts DEF Registry!Opening
  <2> QED BY <1>3, <2>1
<1>5. hs[h] # None /\ hs[h].lib = l /\ Sound(hs[h]) /\ (shut = "no" => ents[l] = h)
  <2>1. hs[h] # None /\ hs[h].lib = l /\ Sound(hs[h])
    BY <1>2, <1>4, NoneFacts DEF OpeningsOK
  <2>2. shut = "no" => ents[l] = h
    BY <1>4, NoneFacts DEF HandlesOK, ServiceOK
  <2> QED BY <2>1, <2>2
<1> DEFINE free == {v \in Registry!Held(ents) \ {l} : Registry!Evictable(v, hs[ents[v]])}
<1>6. CASE /\ ~Registry!Settled(ents, free)
           /\ \E v \in free :
                /\ v = Registry!LeastRecent(free, ord)
                /\ entries' = [ents EXCEPT ![v] = None]
                /\ order' = Registry!Without(ord, v)
                /\ opened' = Registry!Releasing(hs, ents[v])
                /\ inflight' = [inflight EXCEPT ![l] = [handle |-> h, victim |-> ents[v]]]
           /\ UNCHANGED call
  <2>1. PICK v \in free :
          /\ entries' = [ents EXCEPT ![v] = None]
          /\ order' = Registry!Without(ord, v)
          /\ opened' = Registry!Releasing(hs, ents[v])
          /\ inflight' = [inflight EXCEPT ![l] = [handle |-> h, victim |-> ents[v]]]
    BY <1>6
  <2>2. /\ v \in Libraries /\ v # l /\ ents[v] # None /\ v # Primary /\ ~hs[ents[v]].building
        /\ leases[v] = 0 /\ inflight[v] = None
    BY DEF Registry!Held, Registry!Evictable
  <2> HIDE DEF free
  <2>3. inflight' = [infl EXCEPT ![l] = [handle |-> h, victim |-> ents[v]]]
    BY <1>1, <1>3, <2>1 DEF Begun
  <2>4. opened' = [hs EXCEPT ![ents[v]].state = "closing"]
    BY <2>1 DEF Registry!Releasing
  <2>5. infl[v] = None
    BY <1>3, <2>2
  <2>6. HandlesOK(opened', entries', inflight', shut)
    <3>1. v \in Libraries \ {l}
      BY <2>2
    <3>2. HandlesOK([hs EXCEPT ![ents[v]].state = "closing"], [ents EXCEPT ![v] = None],
                    [infl EXCEPT ![l] = [handle |-> h, victim |-> ents[v]]], shut)
      BY <1>3, <2>2, <2>5, <3>1, EvictHandles
    <3> QED BY <2>1, <2>3, <2>4, <3>2
  <2>7. call' = call
    BY <1>6
  <2>8. WaitsOK(call', inflight')
    <3>1. [handle |-> h, victim |-> ents[v]] # None
      <4>1. ents[v] \in Registry!Handles
        BY <1>2, <2>2 DEF Entered
      <4> QED BY <4>1, NoneFacts DEF Registry!Opening
    <3>2. \A x \in Libraries : inflight[x] # None => inflight'[x] # None
      BY <1>1, <2>1, <3>1 DEF Begun
    <3>3. \A c \in Callers : call[c].lib \in Libraries
      BY <1>1 DEF CallsOK, Registry!Call
    <3> QED BY <1>1, <2>7, <3>2, <3>3 DEF WaitsOK
  <2>9. SearchesOK(call', entries', inflight', shut)
    <3>1. ASSUME shut = "no", NEW c \in Callers, call[c].pc = "working"
          PROVE  entries'[call[c].lib] = call[c].handle /\ inflight'[call[c].lib] = None
      <4>1. call[c].lib \in Libraries /\ call[c].kind = "search"
        BY <1>1, <3>1 DEF CallsOK, CallOK, Registry!Call
      <4>2. ents[call[c].lib] = call[c].handle /\ infl[call[c].lib] = None
        BY <3>1 DEF SearchesOK
      <4>3. call[c].lib # v
        <5> SUFFICES ASSUME call[c].lib = v
                     PROVE  FALSE
          OBVIOUS
        <5>1. c \in Searching(call, v)
          BY <4>1 DEF Searching
        <5>2. Cardinality(Searching(call, v)) = 0
          BY <1>1, <2>2 DEF LeasesOK
        <5>3. IsFiniteSet(Searching(call, v))
          BY SearchingFacts
        <5>4. Searching(call, v) = {}
          BY <5>2, <5>3, FS_EmptySet
        <5> QED BY <5>1, <5>4
      <4>4. call[c].lib # l
        BY <1>4, <4>2
      <4> QED BY <1>2, <2>1, <2>3, <4>1, <4>2, <4>3, <4>4 DEF Entered, Begun
    <3>2. shut = "evicted" => \A c \in Callers : call[c].kind # "search"
      BY DEF SearchesOK
    <3> QED BY <2>7, <3>1, <3>2 DEF SearchesOK
  <2>10. DeletesOK(call', opened', entries', inflight')
    <3> SUFFICES ASSUME NEW c \in Callers, call[c].pc = "deleting"
                 PROVE  /\ inflight'[Primary] = None
                        /\ entries'[Primary] # None => opened'[entries'[Primary]].faulted
                        /\ \A g \in Registry!Handles :
                             opened'[g] # None /\ opened'[g].lib = Primary => ~opened'[g].building
      BY <2>7 DEF DeletesOK
    <3>1. /\ infl[Primary] = None
          /\ ents[Primary] # None => hs[ents[Primary]].faulted
          /\ \A g \in Registry!Handles : hs[g] # None /\ hs[g].lib = Primary => ~hs[g].building
      BY DEF DeletesOK
    <3>2. inflight'[Primary] = None /\ entries'[Primary] = ents[Primary]
      BY <1>2, <1>4, <2>1, <2>2, <2>3, <3>1, NoneFacts DEF Entered, Begun
    <3>3. ents[v] \in Registry!Handles /\ hs[ents[v]].lib = v /\ hs[ents[v]] \in Registry!Handle
      BY <1>2, <2>2 DEF EntriesOK, Entered, Handled
    <3>4. \A g \in Registry!Handles : g # ents[v] => opened'[g] = hs[g]
      BY <1>2, <2>4, <3>3 DEF Handled
    <3>5. opened'[ents[v]].lib = v
      BY <1>2, <2>4, <3>3 DEF Handled, Registry!Handle
    <3>6. ents[Primary] # None => ents[Primary] \in Registry!Handles /\ ents[Primary] # ents[v]
      BY <1>2, <2>2, <3>3, NoneFacts DEF EntriesOK, Entered
    <3> QED BY <2>2, <3>1, <3>2, <3>4, <3>5, <3>6
  <2>11. OrderOK(order', entries')
    BY <1>2, <2>1, <2>2, OrderDrops
  <2> QED BY <1>1, <2>6, <2>7, <2>8, <2>9, <2>10, <2>11 DEF Kept
<1>7. CASE /\ Registry!Settled(ents, free)
           /\ entries' = ents
           /\ order' = ord
           /\ inflight' = [inflight EXCEPT ![l] = None]
           /\ Registry!Give(Registry!WaitingFor(l), h, hs, call)
  <2> HIDE DEF free
  <2> DEFINE S == Registry!WaitingFor(l)
  <2>1. inflight' = [infl EXCEPT ![l] = None]
    BY <1>1, <1>3, <1>7 DEF Begun
  <2>2. S = {c \in Callers : call[c].pc = "waiting" /\ call[c].lib = l}
    BY DEF Registry!WaitingFor
  <2> HIDE DEF S
  <2>3. /\ opened' = [hs EXCEPT ![h] = Registry!Used({call[c].kind : c \in S}, hs[h])]
        /\ call' = Answer(call, S, h, hs[h])
    <3>1. Registry!Give(S, h, hs, call)
      BY <1>7 DEF S
    <3> QED BY <3>1 DEF Registry!Give, Answer
  <2>4. Given(l, h, hs, ents, infl, shut)
    BY <1>3, <1>5 DEF Given
  <2>5. Asking(call, S, l)
    BY <1>1, <2>2 DEF Asking, CallsOK
  <2>6. HandlesOK(opened', entries', inflight', shut)
    <3>1. HandlesOK([hs EXCEPT ![h] = Registry!Used({call[c].kind : c \in S}, hs[h])], ents,
                    [infl EXCEPT ![l] = None], shut)
      BY <2>4, GiveHandles
    <3> QED BY <1>7, <2>1, <2>3, <3>1
  <2>7. CallsOK(call') /\ \A x \in Libraries : Searching(call', x) = Searching(call, x)
    BY <1>5, <2>3, <2>5, AnswerCalls
  <2>8. ASSUME NEW c \in Callers \ S
        PROVE  /\ call[c].pc = "waiting" => call[c].lib # l /\ infl[call[c].lib] # None
               /\ shut = "no" /\ call[c].pc = "working" =>
                    ents[call[c].lib] = call[c].handle /\ infl[call[c].lib] = None
               /\ call[c].pc = "deleting" =>
                    /\ infl[Primary] = None
                    /\ ents[Primary] # None => hs[ents[Primary]].faulted
                    /\ \A g \in Registry!Handles : hs[g] # None /\ hs[g].lib = Primary => ~hs[g].building
    <3>1. call[c].pc = "waiting" => call[c].lib # l /\ infl[call[c].lib] # None
      <4>1. call[c].lib \in Libraries
        BY <1>1 DEF CallsOK, Registry!Call
      <4> QED BY <1>1, <1>3, <2>2, <4>1 DEF WaitsOK
    <3>2. shut = "no" /\ call[c].pc = "working" =>
            ents[call[c].lib] = call[c].handle /\ infl[call[c].lib] = None
      BY DEF SearchesOK
    <3> QED BY <3>1, <3>2 DEF DeletesOK
  <2>9. shut = "evicted" => \A c \in Callers : call[c].kind # "search"
    BY DEF SearchesOK
  <2>10. /\ WaitsOK(call', inflight')
         /\ SearchesOK(call', entries', inflight', shut)
         /\ DeletesOK(call', opened', entries', inflight')
    <3> DEFINE asked2 == Answer(call, S, h, hs[h])
               hs2 == [hs EXCEPT ![h] = Registry!Used({call[c].kind : c \in S}, hs[h])]
               infl2 == [infl EXCEPT ![l] = None]
    <3>1. /\ WaitsOK(asked2, infl2)
          /\ SearchesOK(asked2, ents, infl2, shut)
          /\ DeletesOK(asked2, hs2, ents, infl2)
      BY <2>4, <2>5, <2>8, <2>9, AnswerMeets
    <3> QED BY <1>7, <2>1, <2>3, <3>1
  <2> QED BY <1>7, <2>6, <2>7, <2>10 DEF Kept
<1> QED BY <1>6, <1>7 DEF Registry!Settle

LEMMA KeepsAll ==
  ASSUME RegInv, Kept(call), files' \in [Libraries -> {"none", "sound", "corrupt"}],
         leases' = leases, shut' = shut, repairs' = repairs
  PROVE  RegInv'
<1>1. LeasesOK(leases', call')
  BY DEF RegInv, Kept, LeasesOK
<1> QED BY <1>1 DEF RegInv, Kept

LEMMA CreatedKeeps ==
  ASSUME RegInv, NEW l \in Libraries, Registry!Created(l)
  PROVE  RegInv'
<1>1. PICK h \in Registry!Handles :
        /\ Registry!Unused(h)
        /\ Registry!Settle(l, h, [opened EXCEPT ![h] = Registry!NewHandle(l, files[l] = "corrupt")],
                           [entries EXCEPT ![l] = h], Append(Registry!Without(order, l), l))
  BY DEF Registry!Created
<1>2. /\ inflight[l] # None /\ inflight[l].handle = None
      /\ files' = [files EXCEPT ![l] = IF files[l] = "none" THEN "sound" ELSE files[l]]
      /\ leases' = leases /\ shut' = shut /\ repairs' = repairs
  BY DEF Registry!Created
<1> DEFINE new == Registry!NewHandle(l, files[l] = "corrupt")
           hs == [opened EXCEPT ![h] = new]
           ents == [entries EXCEPT ![l] = h]
           infl == [inflight EXCEPT ![l] = [handle |-> h, victim |-> None]]
           ord == Append(Registry!Without(order, l), l)
<1>3. /\ HandlesOK(opened, entries, inflight, shut) /\ CallsOK(call)
      /\ SearchesOK(call, entries, inflight, shut) /\ DeletesOK(call, opened, entries, inflight)
      /\ OrderOK(order, entries)
      /\ Handled(opened) /\ Entered(entries) /\ Begun(inflight) /\ EntriesOK(opened, entries)
      /\ files \in [Libraries -> {"none", "sound", "corrupt"}]
  BY DEF RegInv, HandlesOK, Handled, Entered, Begun
<1>4. opened[h] # None => /\ opened[h].state = "closed"
                          /\ \A x \in Libraries : /\ entries[x] # h
                                                  /\ inflight[x] # None => inflight[x].handle # h
  BY <1>1 DEF Registry!Unused
<1>5. HandlesOK(hs, ents, infl, shut)
  <2>1. (files[l] = "corrupt") \in BOOLEAN
    OBVIOUS
  <2> QED BY <1>2, <1>3, <1>4, <2>1, RememberHandles
<1>6. OrderOK(ord, ents)
  BY <1>3, OrderAppends
<1>7. /\ ents[l] = h /\ \A x \in Libraries : x # l => ents[x] = entries[x] /\ infl[x] = inflight[x]
  BY <1>3 DEF Entered, Begun
<1>8. hs[h] = new /\ \A g \in Registry!Handles : g # h => hs[g] = opened[g]
  BY <1>3 DEF Handled
<1>9. new.lib = l
  BY DEF Registry!NewHandle
<1>10. Registry!Settle(l, h, hs, ents, ord)
  BY <1>1
<1> HIDE DEF new, hs, ents, ord
<1>11. SearchesOK(call, ents, infl, shut)
  <2>1. ASSUME shut = "no", NEW c \in Callers, call[c].pc = "working"
        PROVE  ents[call[c].lib] = call[c].handle /\ infl[call[c].lib] = None
    <3>1. call[c].lib \in Libraries
      BY <1>3 DEF CallsOK, Registry!Call
    <3>2. entries[call[c].lib] = call[c].handle /\ inflight[call[c].lib] = None
      BY <1>3, <2>1 DEF SearchesOK
    <3> QED BY <1>2, <1>7, <3>1, <3>2
  <2> QED BY <1>3, <2>1 DEF SearchesOK
<1>12. DeletesOK(call, hs, ents, infl)
  <2> SUFFICES ASSUME NEW c \in Callers, call[c].pc = "deleting"
               PROVE  /\ infl[Primary] = None
                      /\ ents[Primary] # None => hs[ents[Primary]].faulted
                      /\ \A g \in Registry!Handles : hs[g] # None /\ hs[g].lib = Primary => ~hs[g].building
    BY DEF DeletesOK
  <2>1. /\ inflight[Primary] = None
        /\ entries[Primary] # None => opened[entries[Primary]].faulted
        /\ \A g \in Registry!Handles : opened[g] # None /\ opened[g].lib = Primary => ~opened[g].building
    BY <1>3 DEF DeletesOK
  <2>2. l # Primary /\ infl[Primary] = None /\ ents[Primary] = entries[Primary]
    BY <1>2, <1>7, <2>1, NoneFacts
  <2>3. entries[Primary] # None => entries[Primary] \in Registry!Handles /\ entries[Primary] # h
    BY <1>3, <1>4, NoneFacts DEF EntriesOK, Entered
  <2> QED BY <1>8, <1>9, <2>1, <2>2, <2>3
<1>13. Kept(call)
  BY <1>2, <1>5, <1>6, <1>10, <1>11, <1>12, SettleKeeps
<1>14. files' \in [Libraries -> {"none", "sound", "corrupt"}]
  BY <1>2, <1>3
<1> QED BY <1>2, <1>13, <1>14, KeepsAll

LEMMA ReleasedKeeps ==
  ASSUME RegInv, NEW l \in Libraries, Registry!Released(l)
  PROVE  RegInv'
<1> DEFINE h == inflight[l].handle
           g == inflight[l].victim
           hs == [opened EXCEPT ![g] = None]
           infl == [inflight EXCEPT ![l] = [handle |-> h, victim |-> None]]
<1>1. /\ inflight[l] # None /\ g # None
      /\ Registry!Settle(l, h, hs, entries, order)
      /\ files' = files /\ leases' = leases /\ shut' = shut /\ repairs' = repairs
  BY DEF Registry!Released
<1>2. /\ HandlesOK(opened, entries, inflight, shut) /\ CallsOK(call)
      /\ SearchesOK(call, entries, inflight, shut) /\ DeletesOK(call, opened, entries, inflight)
      /\ OrderOK(order, entries)
      /\ Handled(opened) /\ Entered(entries) /\ Begun(inflight)
      /\ EntriesOK(opened, entries) /\ OpeningsOK(opened, inflight)
      /\ files \in [Libraries -> {"none", "sound", "corrupt"}]
  BY DEF RegInv, HandlesOK, Handled, Entered, Begun
<1>3. /\ h \in Registry!Handles /\ g \in Registry!Handles
      /\ opened[g] # None /\ opened[g].state = "closing"
  BY <1>1, <1>2 DEF Begun, Registry!Opening, OpeningsOK
<1>4. HandlesOK(hs, entries, infl, shut)
  BY <1>1, <1>2, ReleaseHandles
<1>5. \A x \in Libraries : x # l => infl[x] = inflight[x]
  BY <1>2 DEF Begun
<1>6. hs[g] = None /\ \A x \in Registry!Handles : x # g => hs[x] = opened[x]
  BY <1>2, <1>3 DEF Handled
<1> HIDE DEF hs, h, g
<1>7. SearchesOK(call, entries, infl, shut)
  <2>1. ASSUME shut = "no", NEW c \in Callers, call[c].pc = "working"
        PROVE  entries[call[c].lib] = call[c].handle /\ infl[call[c].lib] = None
    <3>1. call[c].lib \in Libraries
      BY <1>2 DEF CallsOK, Registry!Call
    <3>2. entries[call[c].lib] = call[c].handle /\ inflight[call[c].lib] = None
      BY <1>2, <2>1 DEF SearchesOK
    <3> QED BY <1>1, <1>5, <3>1, <3>2
  <2> QED BY <1>2, <2>1 DEF SearchesOK
<1>8. DeletesOK(call, hs, entries, infl)
  <2> SUFFICES ASSUME NEW c \in Callers, call[c].pc = "deleting"
               PROVE  /\ infl[Primary] = None
                      /\ entries[Primary] # None => hs[entries[Primary]].faulted
                      /\ \A x \in Registry!Handles : hs[x] # None /\ hs[x].lib = Primary => ~hs[x].building
    BY DEF DeletesOK
  <2>1. /\ inflight[Primary] = None
        /\ entries[Primary] # None => opened[entries[Primary]].faulted
        /\ \A x \in Registry!Handles : opened[x] # None /\ opened[x].lib = Primary => ~opened[x].building
    BY <1>2 DEF DeletesOK
  <2>2. infl[Primary] = None
    BY <1>1, <1>5, <2>1, NoneFacts
  <2>3. entries[Primary] # None => entries[Primary] \in Registry!Handles /\ entries[Primary] # g
    BY <1>2, <1>3, NoneFacts DEF EntriesOK, Entered
  <2> QED BY <1>6, <2>1, <2>2, <2>3
<1>9. Kept(call)
  BY <1>1, <1>2, <1>3, <1>4, <1>7, <1>8, SettleKeeps
<1> QED BY <1>1, <1>2, <1>9, KeepsAll

LEMMA CreateFailsKeeps ==
  ASSUME RegInv, NEW l \in Libraries, Registry!CreateFails(l)
  PROVE  RegInv'
<1> DEFINE T == Registry!WaitingFor(l)
<1>1. /\ inflight' = [inflight EXCEPT ![l] = None]
      /\ leases' = [leases EXCEPT ![l] = leases[l] - Cardinality({c \in T : call[c].kind = "search"})]
      /\ call' = Ended(call, T)
      /\ files' = files /\ opened' = opened /\ entries' = entries /\ order' = order
      /\ shut' = shut /\ repairs' = repairs
  BY DEF Registry!CreateFails, Ended, Registry!Cardinality, Cardinality
<1>2. T = {c \in Callers : call[c].pc = "waiting" /\ call[c].lib = l}
  BY DEF Registry!WaitingFor
<1> HIDE DEF T
<1>3. /\ HandlesOK(opened, entries, inflight, shut) /\ CallsOK(call) /\ Begun(inflight)
      /\ WaitsOK(call, inflight)
      /\ SearchesOK(call, entries, inflight, shut) /\ DeletesOK(call, opened, entries, inflight)
      /\ leases \in [Libraries -> Nat] /\ LeasesOK(leases, call)
  BY DEF RegInv, HandlesOK, Begun
<1>4. HandlesOK(opened', entries', inflight', shut)
  BY <1>1, <1>3, DropHandles
<1>5. CallsOK(call') /\ WaitsOK(call', inflight) /\ SearchesOK(call', entries, inflight, shut)
      /\ DeletesOK(call', opened, entries, inflight)
  BY <1>1, <1>3, EndedCalls
<1>6. leases' \in [Libraries -> Nat] /\ LeasesOK(leases', call')
  <2>1. T \subseteq {c \in Callers : call[c].lib = l}
    BY <1>2
  <2> QED BY <1>1, <1>3, <2>1, EndedLeases
<1>7. inflight'[l] = None /\ \A x \in Libraries : x # l => inflight'[x] = inflight[x]
  BY <1>1, <1>3 DEF Begun
<1>8. \A x \in Libraries : inflight[x] = None => inflight'[x] = None
  BY <1>7
<1>9. \A c \in Callers : call'[c].lib \in Libraries
  BY <1>5 DEF CallsOK, Registry!Call
<1>10. WaitsOK(call', inflight')
  <2> SUFFICES ASSUME NEW c \in Callers, call'[c].pc = "waiting"
               PROVE  inflight'[call'[c].lib] # None
    BY DEF WaitsOK
  <2>1. Registry!Idle.pc = "idle"
    BY DEF Registry!Idle
  <2>2. c \notin T /\ call'[c] = call[c]
    BY <1>1, <2>1 DEF Ended
  <2>3. call'[c].lib # l
    BY <1>2, <2>2
  <2> QED BY <1>5, <1>7, <1>9, <2>3 DEF WaitsOK
<1>11. SearchesOK(call', entries', inflight', shut)
  BY <1>1, <1>5, <1>8, <1>9 DEF SearchesOK
<1>12. DeletesOK(call', opened', entries', inflight')
  BY <1>1, <1>5, <1>8, NoneFacts DEF DeletesOK
<1> QED BY <1>1, <1>3, <1>4, <1>5, <1>6, <1>10, <1>11, <1>12 DEF RegInv

-----------------------------------------------------------------------------
(* Calls begin and end.                                                    *)

\* One call ends; a search gives up its lease.
LEMMA OneEnds ==
  ASSUME RegInv, NEW c \in Callers, call' = [call EXCEPT ![c] = Registry!Idle],
         leases' = IF call[c].kind = "search"
                   THEN [leases EXCEPT ![call[c].lib] = leases[call[c].lib] - 1] ELSE leases,
         UNCHANGED <<files, opened, entries, order, inflight, shut, repairs>>
  PROVE  RegInv'
<1>1. /\ CallsOK(call) /\ leases \in [Libraries -> Nat] /\ LeasesOK(leases, call)
      /\ WaitsOK(call, inflight) /\ SearchesOK(call, entries, inflight, shut)
      /\ DeletesOK(call, opened, entries, inflight)
  BY DEF RegInv
<1>2. call' = Ended(call, {c})
  BY <1>1 DEF CallsOK, Ended
<1>3. CallsOK(call') /\ WaitsOK(call', inflight) /\ SearchesOK(call', entries, inflight, shut)
      /\ DeletesOK(call', opened, entries, inflight)
  <2> DEFINE T == {c}
             asked == Ended(call, T)
  <2>1. /\ CallsOK(asked) /\ WaitsOK(asked, inflight) /\ SearchesOK(asked, entries, inflight, shut)
        /\ DeletesOK(asked, opened, entries, inflight)
    <3> HIDE DEF T
    <3> QED BY <1>1, EndedCalls
  <2> QED BY <1>2, <2>1
<1>4. leases' \in [Libraries -> Nat] /\ LeasesOK(leases', call')
  <2> DEFINE l == call[c].lib
             S == {d \in {c} : call[d].kind = "search"}
             ls == [leases EXCEPT ![l] = leases[l] - Cardinality(S)]
  <2>1. l \in Libraries /\ leases[l] \in Nat
    BY <1>1 DEF CallsOK, Registry!Call
  <2>2. ls \in [Libraries -> Nat] /\ LeasesOK(ls, call')
    <3> DEFINE T == {c}
    <3>1. T \subseteq {d \in Callers : call[d].lib = l}
      OBVIOUS
    <3> HIDE DEF T, l
    <3>2. LET fewer == [leases EXCEPT ![l] = leases[l] - Cardinality({d \in T : call[d].kind = "search"})]
          IN  fewer \in [Libraries -> Nat] /\ LeasesOK(fewer, Ended(call, T))
      BY <1>1, <2>1, <3>1, EndedLeases
    <3> QED BY <1>2, <3>2 DEF T
  <2>3. CASE call[c].kind = "search"
    <3>1. S = {c}
      BY <2>3
    <3>2. Cardinality(S) = 1
      BY <3>1, FS_Singleton
    <3> QED BY <2>2, <2>3, <3>2
  <2>4. CASE call[c].kind # "search"
    <3>1. S = {}
      BY <2>4
    <3>2. Cardinality(S) = 0
      BY <3>1, FS_EmptySet
    <3> HIDE DEF l
    <3>3. ls = leases
      BY <1>1, <2>1, <3>2
    <3> QED BY <2>2, <2>4, <3>3
  <2> QED BY <2>3, <2>4
<1> QED BY <1>3, <1>4 DEF RegInv

LEMMA EndsKeep ==
  ASSUME RegInv, NEW c \in Callers,
         Registry!NotThere(c) \/ Registry!SearchEnds(c) \/ Registry!DeleteFails(c)
  PROVE  RegInv'
<1>1. CallOK(call[c])
  BY DEF RegInv, CallsOK
<1>2. CASE Registry!NotThere(c)
  BY <1>2, OneEnds DEF Registry!NotThere, Registry!Fewer
<1>3. CASE Registry!SearchEnds(c)
  <2>1. call[c].kind = "search"
    BY <1>1, <1>3 DEF Registry!SearchEnds, CallOK
  <2> QED BY <1>3, <2>1, OneEnds DEF Registry!SearchEnds, Registry!Fewer
<1>4. CASE Registry!DeleteFails(c)
  <2>1. call[c].kind # "search"
    BY <1>1, <1>4 DEF Registry!DeleteFails, CallOK
  <2> QED BY <1>4, <2>1, OneEnds DEF Registry!DeleteFails
<1> QED BY <1>2, <1>3, <1>4

\* What a call that opens an index reads: it is at its start, or was looking for the file.
Opens(c, k) ==
  /\ k \in Registry!Call /\ k.kind # "reopen"
  /\ entries[k.lib] # None \/ k.lib # Primary
  /\ call[c].pc \in {"idle", "looking"}
  /\ shut = "evicted" => k.kind # "search"
  /\ OneWriter([call EXCEPT ![c] = k])

\* The calls that take no part in a step stay as they are.
LEMMA OthersMeet ==
  ASSUME RegInv, NEW c \in Callers, NEW k, k \in Registry!Call, CallOK(k),
         k.pc \in {"waiting", "looking"}, k.kind # "search" \/ shut # "evicted",
         OneWriter([call EXCEPT ![c] = k])
  PROVE  LET asked == [call EXCEPT ![c] = k] IN
         /\ CallsOK(asked)
         /\ (k.pc = "waiting" => inflight[k.lib] # None) => WaitsOK(asked, inflight)
         /\ SearchesOK(asked, entries, inflight, shut)
         /\ DeletesOK(asked, opened, entries, inflight)
<1> DEFINE asked == [call EXCEPT ![c] = k]
<1>1. /\ CallsOK(call) /\ WaitsOK(call, inflight) /\ SearchesOK(call, entries, inflight, shut)
      /\ DeletesOK(call, opened, entries, inflight) /\ OneWriter(asked)
  BY DEF RegInv
<1>2. /\ asked[c] = k /\ \A d \in Callers : d # c => asked[d] = call[d]
      /\ asked \in [Callers -> Registry!Call]
  BY <1>1 DEF CallsOK
<1> HIDE DEF asked
<1>3. CallsOK(asked)
  BY <1>1, <1>2 DEF CallsOK
<1>4. (k.pc = "waiting" => inflight[k.lib] # None) => WaitsOK(asked, inflight)
  BY <1>1, <1>2 DEF WaitsOK
<1>5. SearchesOK(asked, entries, inflight, shut)
  BY <1>1, <1>2 DEF SearchesOK
<1>6. DeletesOK(asked, opened, entries, inflight)
  BY <1>1, <1>2 DEF DeletesOK
<1> QED BY <1>3, <1>4, <1>5, <1>6 DEF asked

LEMMA OpenKeeps ==
  ASSUME RegInv, NEW c \in Callers, NEW k, Opens(c, k), Registry!Open(c, k), entries' = entries
  PROVE  Kept([call EXCEPT ![c] = k])
<1> DEFINE l == k.lib
           waits == [k EXCEPT !.pc = "waiting"]
           asked == [call EXCEPT ![c] = waits]
<1>1. /\ HandlesOK(opened, entries, inflight, shut) /\ CallsOK(call) /\ WaitsOK(call, inflight)
      /\ SearchesOK(call, entries, inflight, shut) /\ DeletesOK(call, opened, entries, inflight)
      /\ OrderOK(order, entries)
      /\ Handled(opened) /\ Entered(entries) /\ Begun(inflight)
      /\ EntriesOK(opened, entries) /\ OpeningsOK(opened, inflight)
  BY DEF RegInv, HandlesOK, Handled, Entered, Begun
<1>2. /\ l \in Libraries /\ k.kind \in Registry!Kinds
      /\ waits \in Registry!Call /\ waits.pc = "waiting" /\ waits.kind = k.kind /\ waits.lib = l
  BY DEF Opens, Registry!Call
<1>3. CallOK(waits)
  BY <1>2 DEF CallOK, Opens
<1>4. OneWriter(asked)
  <2>1. \A d \in Callers : Writes(asked[d]) => Writes([call EXCEPT ![c] = k][d])
    BY <1>1, <1>2 DEF Writes, CallsOK
  <2> QED BY <2>1 DEF OneWriter, Opens
<1>5. \A x \in Libraries : Searching(asked, x) = Searching([call EXCEPT ![c] = k], x)
  BY <1>1, <1>2 DEF Searching, CallsOK
<1>6. /\ CallsOK(asked) /\ SearchesOK(asked, entries, inflight, shut)
      /\ DeletesOK(asked, opened, entries, inflight)
      /\ inflight[l] # None => WaitsOK(asked, inflight)
  <2>1. waits.kind # "search" \/ shut # "evicted"
    BY <1>2 DEF Opens
  <2> HIDE DEF waits
  <2> QED BY <1>2, <1>3, <1>4, <2>1, OthersMeet
<1>7. CASE /\ inflight[l] # None
           /\ call' = asked
           /\ UNCHANGED <<opened, order, inflight>>
  BY <1>1, <1>5, <1>6, <1>7 DEF Kept
<1>8. CASE /\ inflight[l] = None /\ entries[l] # None
           /\ order' = Append(Registry!Without(order, l), l)
           /\ Registry!Give({c}, entries[l], opened, [call EXCEPT ![c] = k])
           /\ UNCHANGED inflight
  <2> DEFINE h == entries[l]
             given == [call EXCEPT ![c] = k]
             S == {c}
  <2>1. h \in Registry!Handles /\ opened[h] # None /\ opened[h].lib = l /\ Sound(opened[h])
    BY <1>1, <1>2, <1>8 DEF Entered, EntriesOK
  <2>2. Given(l, h, opened, entries, inflight, shut)
    BY <1>8, <2>1 DEF Given
  <2>3. given[c] = k /\ \A d \in Callers : d # c => given[d] = call[d]
    BY <1>1 DEF CallsOK
  <2>4. Asking(given, S, l)
    <3>1. given \in [Callers -> Registry!Call]
      BY <1>1 DEF CallsOK, Opens
    <3>2. OneWriter(given)
      BY DEF Opens
    <3>3. \A d \in Callers : IF d \in S THEN given[d].lib = l ELSE CallOK(given[d])
      BY <1>1, <2>3 DEF CallsOK
    <3> HIDE DEF given
    <3> QED BY <3>1, <3>2, <3>3 DEF Asking
  <2> HIDE DEF given, h
  <2>5. /\ opened' = [opened EXCEPT ![h] = Registry!Used({given[d].kind : d \in S}, opened[h])]
        /\ call' = Answer(given, S, h, opened[h])
    <3>1. Registry!Give(S, h, opened, given)
      BY <1>8 DEF given, h
    <3> QED BY <3>1 DEF Registry!Give, Answer
  <2> HIDE DEF S
  <2>6. inflight' = inflight /\ inflight = [inflight EXCEPT ![l] = None]
    BY <1>1, <1>8 DEF Begun
  <2>7. HandlesOK(opened', entries', inflight', shut)
    <3>1. HandlesOK([opened EXCEPT ![h] = Registry!Used({given[d].kind : d \in S}, opened[h])], entries,
                    [inflight EXCEPT ![l] = None], shut)
      BY <1>1, <1>2, <2>1, <2>2, GiveHandles
    <3> QED BY <2>5, <2>6, <3>1
  <2>8. CallsOK(call') /\ \A x \in Libraries : Searching(call', x) = Searching(given, x)
    BY <1>2, <2>1, <2>4, <2>5, AnswerCalls
  <2>9. ASSUME NEW d \in Callers \ S
        PROVE  /\ given[d].pc = "waiting" => given[d].lib # l /\ inflight[given[d].lib] # None
               /\ shut = "no" /\ given[d].pc = "working" =>
                    entries[given[d].lib] = given[d].handle /\ inflight[given[d].lib] = None
               /\ given[d].pc = "deleting" =>
                    /\ inflight[Primary] = None
                    /\ entries[Primary] # None => opened[entries[Primary]].faulted
                    /\ \A g \in Registry!Handles : opened[g] # None /\ opened[g].lib = Primary => ~opened[g].building
    <3>1. given[d] = call[d]
      BY <2>3 DEF S
    <3>2. call[d].pc = "waiting" => call[d].lib # l /\ inflight[call[d].lib] # None
      BY <1>1, <1>8 DEF WaitsOK
    <3>3. shut = "no" /\ call[d].pc = "working" =>
            entries[call[d].lib] = call[d].handle /\ inflight[call[d].lib] = None
      BY <1>1 DEF SearchesOK
    <3> QED BY <1>1, <3>1, <3>2, <3>3 DEF DeletesOK
  <2>10. shut = "evicted" => \A d \in Callers : given[d].kind # "search"
    BY <1>1, <2>3 DEF SearchesOK, Opens
  <2>11. /\ WaitsOK(call', inflight')
         /\ SearchesOK(call', entries', inflight', shut)
         /\ DeletesOK(call', opened', entries', inflight')
    <3> DEFINE asked2 == Answer(given, S, h, opened[h])
               hs2 == [opened EXCEPT ![h] = Registry!Used({given[d].kind : d \in S}, opened[h])]
               infl2 == [inflight EXCEPT ![l] = None]
    <3>1. /\ WaitsOK(asked2, infl2)
          /\ SearchesOK(asked2, entries, infl2, shut)
          /\ DeletesOK(asked2, hs2, entries, infl2)
      BY <1>1, <1>2, <2>1, <2>2, <2>4, <2>9, <2>10, AnswerMeets
    <3> QED BY <2>5, <2>6, <3>1
  <2>12. OrderOK(order', entries')
    <3>1. entries = [entries EXCEPT ![l] = h]
      BY <1>1 DEF Entered, h
    <3>2. OrderOK(Append(Registry!Without(order, l), l), [entries EXCEPT ![l] = h])
      BY <1>1, <1>2, <2>1, OrderAppends
    <3> QED BY <1>8, <3>1, <3>2
  <2> QED BY <2>7, <2>8, <2>11, <2>12 DEF Kept, given
<1>9. CASE /\ inflight[l] = None /\ entries[l] = None
           /\ inflight' = [inflight EXCEPT ![l] = [handle |-> None, victim |-> None]]
           /\ call' = asked
           /\ UNCHANGED <<opened, order>>
  <2>1. HandlesOK(opened', entries', inflight', shut)
    <3>1. HandlesOK(opened, entries, [inflight EXCEPT ![l] = [handle |-> None, victim |-> None]], shut)
      BY <1>1, <1>2, <1>9, BeginHandles
    <3> QED BY <1>9, <3>1
  <2>2. /\ inflight'[l] # None /\ \A x \in Libraries : x # l => inflight'[x] = inflight[x]
    <3>1. [handle |-> None, victim |-> None] # None
      BY NoneFacts DEF Registry!Opening
    <3> QED BY <1>1, <1>2, <1>9, <3>1 DEF Begun
  <2> HIDE DEF asked
  <2>3. \A d \in Callers : asked[d].lib \in Libraries /\ asked[d] \in Registry!Call
    BY <1>6 DEF CallsOK, Registry!Call
  <2>4. WaitsOK(asked, inflight')
    <3> SUFFICES ASSUME NEW d \in Callers, asked[d].pc = "waiting"
                 PROVE  inflight'[asked[d].lib] # None
      BY DEF WaitsOK
    <3>1. asked[d].lib = l \/ inflight[asked[d].lib] # None
      <4>1. CASE d = c
        BY <1>1, <1>2, <4>1 DEF asked, CallsOK
      <4>2. CASE d # c
        <5>1. asked[d] = call[d]
          BY <1>1, <4>2 DEF asked, CallsOK
        <5> QED BY <1>1, <5>1 DEF WaitsOK
      <4> QED BY <4>1, <4>2
    <3> QED BY <2>2, <2>3, <3>1
  <2>5. SearchesOK(asked, entries, inflight', shut)
    <3>1. ASSUME shut = "no", NEW d \in Callers, asked[d].pc = "working"
          PROVE  entries[asked[d].lib] = asked[d].handle /\ inflight'[asked[d].lib] = None
      <4>1. entries[asked[d].lib] = asked[d].handle /\ inflight[asked[d].lib] = None
        BY <1>6, <3>1 DEF SearchesOK
      <4>2. asked[d].handle # None
        BY <1>6, <3>1, NoneFacts DEF CallsOK, CallOK
      <4>3. asked[d].lib # l
        BY <1>9, <4>1, <4>2
      <4> QED BY <2>2, <2>3, <4>1, <4>3
    <3> QED BY <1>6, <3>1 DEF SearchesOK
  <2>6. DeletesOK(asked, opened, entries, inflight')
    <3>1. inflight'[Primary] = inflight[Primary]
      BY <1>9, <2>2, NoneFacts DEF Opens
    <3> QED BY <1>6, <3>1 DEF DeletesOK
  <2> QED BY <1>1, <1>5, <1>6, <1>9, <2>1, <2>4, <2>5, <2>6 DEF Kept
<1> QED BY <1>7, <1>8, <1>9 DEF Registry!Open

\* A call as it starts.
Asks(kind, l) == [Registry!Idle EXCEPT !.kind = kind, !.lib = l]

LEMMA AskedFacts ==
  ASSUME RegInv, ~RepairsOverlap, NEW c \in Callers, NEW l \in Libraries,
         NEW kind \in {"search", "read", "build"}, Registry!MayAsk(c, kind, l)
  PROVE  LET k == Asks(kind, l) IN
         /\ k \in Registry!Call /\ k.lib = l /\ k.kind = kind /\ k.pc = "idle"
         /\ call[c].kind = "read" /\ call[c].pc = "idle" /\ shut = "no"
         /\ OneWriter([call EXCEPT ![c] = k])
<1> DEFINE k == Asks(kind, l)
<1>1. /\ call[c] = Registry!Idle /\ shut = "no"
      /\ \/ <<kind, l>> # <<"build", Primary>>
         \/ \A d \in Callers \ {c} :
              call[d] = Registry!Idle \/ call[d].lib # Primary \/ call[d].kind = "search"
  BY DEF Registry!MayAsk
<1>2. Registry!Idle.pc = "idle" /\ Registry!Idle.kind = "read"
  BY DEF Registry!Idle
<1>3. k \in Registry!Call /\ k.lib = l /\ k.kind = kind /\ k.pc = "idle"
  BY DEF Asks, Registry!Idle, Registry!Call, Registry!Kinds
<1> HIDE DEF k
<1>4. OneWriter([call EXCEPT ![c] = k])
  <2> DEFINE asked == [call EXCEPT ![c] = k]
  <2>1. OneWriter(call) /\ asked[c] = k /\ \A d \in Callers : d # c => asked[d] = call[d]
    BY DEF RegInv, CallsOK
  <2> HIDE DEF asked
  <2>2. Writes(k) => \A d \in Callers \ {c} : ~Writes(call[d])
    <3> SUFFICES ASSUME Writes(k), NEW d \in Callers \ {c}, Writes(call[d])
                 PROVE  FALSE
      OBVIOUS
    <3>1. kind = "build" /\ l = Primary
      BY <1>3 DEF Writes
    <3>2. call[d] = Registry!Idle \/ call[d].lib # Primary \/ call[d].kind = "search"
      BY <1>1, <3>1
    <3> QED BY <1>2, <3>2 DEF Writes
  <2>3. ASSUME NEW d \in Callers, NEW e \in Callers, Writes(asked[d]), Writes(asked[e])
        PROVE  d = e
    <3>1. CASE d # c /\ e # c
      BY <2>1, <2>3, <3>1 DEF OneWriter
    <3>2. CASE d = c \/ e = c
      BY <2>1, <2>2, <2>3, <3>2
    <3> QED BY <3>1, <3>2
  <2> QED BY <2>3 DEF OneWriter, asked
<1> QED BY <1>1, <1>2, <1>3, <1>4 DEF k

\* A call looks for the file, or opens the index.
LEMMA OpenIfExistsKeeps ==
  ASSUME RegInv, NEW c \in Callers, NEW k, k \in Registry!Call, k.kind # "reopen", shut = "no",
         call[c].pc = "idle", OneWriter([call EXCEPT ![c] = k]),
         Registry!OpenIfExists(c, k), entries' = entries
  PROVE  Kept([call EXCEPT ![c] = k])
<1>1. entries[Primary] # None
  BY DEF RegInv, HandlesOK, ServiceOK
<1>2. CASE entries[k.lib] # None /\ Registry!Open(c, k)
  BY <1>2, OpenKeeps DEF Opens
<1>3. CASE /\ entries[k.lib] = None
           /\ call' = [call EXCEPT ![c] = [k EXCEPT !.pc = "looking"]]
           /\ UNCHANGED <<opened, order, inflight>>
  <2> DEFINE looks == [k EXCEPT !.pc = "looking"]
             asked == [call EXCEPT ![c] = looks]
  <2>1. /\ looks \in Registry!Call /\ looks.pc = "looking" /\ looks.kind = k.kind /\ looks.lib = k.lib
    BY DEF Registry!Call
  <2>2. k.lib # Primary
    BY <1>1, <1>3
  <2>3. CallOK(looks)
    BY <2>1, <2>2 DEF CallOK
  <2>4. call \in [Callers -> Registry!Call]
    BY DEF RegInv, CallsOK
  <2>5. OneWriter(asked)
    <3>1. \A d \in Callers : Writes(asked[d]) => Writes([call EXCEPT ![c] = k][d])
      BY <2>1, <2>4 DEF Writes
    <3> QED BY <3>1 DEF OneWriter
  <2>6. \A x \in Libraries : Searching(asked, x) = Searching([call EXCEPT ![c] = k], x)
    BY <2>1, <2>4 DEF Searching
  <2> HIDE DEF looks
  <2>7. /\ CallsOK(asked) /\ WaitsOK(asked, inflight)
        /\ SearchesOK(asked, entries, inflight, shut) /\ DeletesOK(asked, opened, entries, inflight)
    BY <2>1, <2>3, <2>5, OthersMeet
  <2>8. call' = asked /\ opened' = opened /\ order' = order /\ inflight' = inflight
    BY <1>3 DEF looks
  <2> HIDE DEF asked
  <2> QED BY <2>6, <2>7, <2>8 DEF Kept, RegInv
<1> QED BY <1>2, <1>3 DEF Registry!OpenIfExists

LEMMA SearchKeeps ==
  ASSUME RegInv, ~RepairsOverlap, NEW c \in Callers, NEW l \in Libraries, Registry!Search(c, l)
  PROVE  RegInv'
<1> DEFINE k == Asks("search", l)
           asked == [call EXCEPT ![c] = k]
<1>1. /\ Registry!MayAsk(c, "search", l)
      /\ leases' = [leases EXCEPT ![l] = leases[l] + 1]
      /\ Registry!OpenIfExists(c, k)
      /\ UNCHANGED <<files, entries, shut, repairs>>
  BY DEF Registry!Search, Asks
<1>2. /\ k \in Registry!Call /\ k.lib = l /\ k.kind = "search" /\ k.pc = "idle"
      /\ call[c].kind = "read" /\ call[c].pc = "idle" /\ shut = "no"
      /\ OneWriter(asked)
  BY <1>1, AskedFacts
<1> HIDE DEF k
<1>3. Kept(asked)
  BY <1>1, <1>2, OpenIfExistsKeeps
<1>4. call \in [Callers -> Registry!Call] /\ leases \in [Libraries -> Nat] /\ LeasesOK(leases, call)
  BY DEF RegInv, CallsOK
<1>5. /\ Searching(asked, l) = Searching(call, l) \cup {c}
      /\ \A x \in Libraries : x # l => Searching(asked, x) = Searching(call, x)
  BY <1>2, <1>4 DEF Searching
<1>6. /\ Searching(call', l) = Searching(call, l) \cup {c}
      /\ \A x \in Libraries : x # l => Searching(call', x) = Searching(call, x)
  BY <1>3, <1>5 DEF Kept
<1>7. leases' \in [Libraries -> Nat] /\ LeasesOK(leases', call')
  <2> DEFINE more == [leases EXCEPT ![l] = leases[l] + 1]
  <2>1. more \in [Libraries -> Nat] /\ LeasesOK(more, call')
    BY <1>2, <1>4, <1>6, MoreLeases
  <2> QED BY <1>1, <2>1
<1> QED BY <1>1, <1>3, <1>7 DEF Kept, RegInv

LEMMA AskKeeps ==
  ASSUME RegInv, ~RepairsOverlap, NEW c \in Callers, NEW l \in Libraries, NEW kind \in {"read", "build"},
         Registry!Ask(c, l, kind)
  PROVE  RegInv'
<1> DEFINE k == Asks(kind, l)
           asked == [call EXCEPT ![c] = k]
<1>1. /\ Registry!MayAsk(c, kind, l)
      /\ Registry!OpenIfExists(c, k)
      /\ UNCHANGED <<files, entries, leases, shut, repairs>>
  BY DEF Registry!Ask, Asks
<1>2. /\ k \in Registry!Call /\ k.lib = l /\ k.kind = kind /\ k.pc = "idle"
      /\ call[c].kind = "read" /\ call[c].pc = "idle" /\ shut = "no"
      /\ OneWriter(asked)
  <2>1. kind \in {"search", "read", "build"}
    OBVIOUS
  <2> QED BY <1>1, <2>1, AskedFacts
<1> HIDE DEF k
<1>3. Kept(asked)
  BY <1>1, <1>2, OpenIfExistsKeeps
<1>4. call \in [Callers -> Registry!Call]
  BY DEF RegInv, CallsOK
<1>5. \A x \in Libraries : Searching(asked, x) = Searching(call, x)
  BY <1>2, <1>4 DEF Searching
<1> HIDE DEF asked
<1>6. Kept(call)
  BY <1>3, <1>5 DEF Kept
<1> QED BY <1>1, <1>6, KeepsAll DEF RegInv

LEMMA LookedKeeps ==
  ASSUME RegInv, NEW c \in Callers, Registry!Looked(c)
  PROVE  RegInv'
<1>1. /\ call[c].pc = "looking" /\ Registry!Open(c, call[c])
      /\ UNCHANGED <<files, entries, leases, shut, repairs>>
  BY DEF Registry!Looked
<1>2. call \in [Callers -> Registry!Call] /\ CallOK(call[c]) /\ OneWriter(call)
  BY DEF RegInv, CallsOK
<1>3. [call EXCEPT ![c] = call[c]] = call
  BY <1>2
<1>4. Opens(c, call[c])
  <2>1. call[c] \in Registry!Call /\ call[c].lib # Primary /\ call[c].kind # "reopen"
    BY <1>1, <1>2 DEF CallOK
  <2>2. shut = "evicted" => call[c].kind # "search"
    BY DEF RegInv, SearchesOK
  <2> QED BY <1>1, <1>2, <1>3, <2>1, <2>2 DEF Opens
<1>5. Kept([call EXCEPT ![c] = call[c]])
  BY <1>1, <1>4, OpenKeeps
<1>6. Kept(call)
  BY <1>3, <1>5
<1> QED BY <1>1, <1>6, KeepsAll DEF RegInv

-----------------------------------------------------------------------------
(* Repair, and what happens to a handle.                                   *)

\* The calls and the order see of the handles only their libraries, faults and builds.
LEMMA HandleKeeps ==
  ASSUME RegInv, files' \in [Libraries -> {"none", "sound", "corrupt"}],
         UNCHANGED <<entries, order, inflight, leases, call, shut>>, repairs' \in 0..MaxFaults,
         Handled(opened'), Touched(opened, opened', entries, inflight, shut)
  PROVE  RegInv'
<1>1. HandlesOK(opened, entries, inflight, shut) /\ DeletesOK(call, opened, entries, inflight)
      /\ Handled(opened) /\ Entered(entries) /\ EntriesOK(opened, entries)
  BY DEF RegInv, HandlesOK, Handled, Entered
<1>2. HandlesOK(opened', entries, inflight, shut)
  BY <1>1, TouchHandles
<1>3. DeletesOK(call, opened', entries, inflight)
  <2>1. entries[Primary] # None => entries[Primary] \in Registry!Handles /\ opened[entries[Primary]] # None
    BY <1>1, NoneFacts DEF EntriesOK, Entered
  <2> QED BY <1>1, <2>1 DEF DeletesOK, Touched
<1> QED BY <1>2, <1>3 DEF RegInv

LEMMA CorruptsKeeps ==
  ASSUME RegInv, NEW h \in Registry!Handles, Registry!Corrupts(h)
  PROVE  RegInv'
<1>1. /\ opened[h] # None /\ repairs < MaxFaults /\ repairs' = repairs + 1
      /\ opened' = [opened EXCEPT ![h].faulted = TRUE]
      /\ files' = [files EXCEPT ![opened[h].lib] = IF opened[h].linked THEN "corrupt" ELSE files[opened[h].lib]]
      /\ UNCHANGED <<entries, order, inflight, leases, call, shut>>
  BY DEF Registry!Corrupts, Registry!IsOpen
<1>2. /\ Handled(opened) /\ files \in [Libraries -> {"none", "sound", "corrupt"}]
      /\ repairs \in 0..MaxFaults
  BY DEF RegInv, HandlesOK, Handled
<1>3. opened[h] \in Registry!Handle /\ opened[h].lib \in Libraries
  BY <1>1, <1>2 DEF Handled, Registry!Handle
<1>4. files' \in [Libraries -> {"none", "sound", "corrupt"}]
  BY <1>1, <1>2, <1>3
<1>5. repairs' \in 0..MaxFaults
  BY <1>1, <1>2, StoresAssumption DEF Registry!RegistryAssumption
<1> DEFINE r == [opened[h] EXCEPT !.faulted = TRUE]
<1>6. /\ r \in Registry!Handle /\ r # None /\ r.lib = opened[h].lib /\ r.faulted
      /\ r.building = opened[h].building /\ r.state = opened[h].state /\ r.linked = opened[h].linked
  BY <1>3, NoneFacts DEF Registry!Handle
<1>7. opened'[h] = r /\ \A g \in Registry!Handles : g # h => opened'[g] = opened[g]
  BY <1>1, <1>2 DEF Handled
<1>8. Handled(opened')
  BY <1>1, <1>2, <1>6 DEF Handled
<1> HIDE DEF r
<1>9. Touched(opened, opened', entries, inflight, shut)
  BY <1>1, <1>6, <1>7 DEF Touched
<1> QED BY <1>1, <1>4, <1>5, <1>8, <1>9, HandleKeeps

LEMMA BuildEndsKeeps ==
  ASSUME RegInv, NEW h \in Registry!Handles, Registry!BuildEnds(h)
  PROVE  RegInv'
<1>1. /\ opened[h] # None
      /\ opened' = [opened EXCEPT ![h].building = FALSE]
      /\ UNCHANGED <<files, entries, order, inflight, leases, call, shut, repairs>>
  BY DEF Registry!BuildEnds
<1>2. /\ Handled(opened) /\ files' \in [Libraries -> {"none", "sound", "corrupt"}]
      /\ repairs' \in 0..MaxFaults
  BY <1>1 DEF RegInv, HandlesOK, Handled
<1>3. opened[h] \in Registry!Handle
  BY <1>1, <1>2 DEF Handled
<1> DEFINE r == [opened[h] EXCEPT !.building = FALSE]
<1>4. /\ r \in Registry!Handle /\ r # None /\ r.lib = opened[h].lib /\ r.faulted = opened[h].faulted
      /\ ~r.building /\ r.state = opened[h].state /\ r.linked = opened[h].linked
  BY <1>3, NoneFacts DEF Registry!Handle
<1>5. opened'[h] = r /\ \A g \in Registry!Handles : g # h => opened'[g] = opened[g]
  BY <1>1, <1>2 DEF Handled
<1>6. Handled(opened')
  BY <1>1, <1>2, <1>4 DEF Handled
<1> HIDE DEF r
<1>7. Touched(opened, opened', entries, inflight, shut)
  BY <1>1, <1>4, <1>5 DEF Touched
<1> QED BY <1>1, <1>2, <1>6, <1>7, HandleKeeps

LEMMA CloseRestKeeps ==
  ASSUME RegInv, Registry!CloseRest
  PROVE  RegInv'
<1>1. /\ opened' = [h \in Registry!Handles |->
                      IF h \in Registry!ToClose THEN [opened[h] EXCEPT !.state = "closed"] ELSE opened[h]]
      /\ UNCHANGED <<files, entries, order, inflight, leases, call, shut, repairs>>
  BY DEF Registry!CloseRest
<1>2. /\ Handled(opened) /\ files' \in [Libraries -> {"none", "sound", "corrupt"}]
      /\ repairs' \in 0..MaxFaults
  BY <1>1 DEF RegInv, HandlesOK, Handled
<1>3. ASSUME NEW h \in Registry!Handles
      PROVE  /\ opened'[h] \in Registry!Handle \cup {None}
             /\ opened[h] = None => opened'[h] = None
             /\ opened[h] # None =>
                  /\ opened'[h] # None /\ opened'[h].lib = opened[h].lib
                  /\ opened'[h].faulted = opened[h].faulted /\ opened'[h].building = opened[h].building
                  /\ opened'[h].linked = opened[h].linked
                  /\ opened'[h].state # opened[h].state =>
                       /\ opened'[h].state = "closed" /\ opened[h].state = "closing"
                       /\ \A l \in Libraries : inflight[l] # None => inflight[l].victim # h
  <2>1. CASE h \in Registry!ToClose
    <3>1. /\ opened[h] # None /\ opened[h].state = "closing"
          /\ \A l \in Libraries : inflight[l] # None => inflight[l].victim # h
      BY <2>1 DEF Registry!ToClose, Registry!Victims
    <3>2. opened[h] \in Registry!Handle
      BY <1>2, <3>1 DEF Handled
    <3>3. opened'[h] = [opened[h] EXCEPT !.state = "closed"]
      BY <1>1, <2>1
    <3>4. /\ opened'[h] \in Registry!Handle /\ opened'[h].lib = opened[h].lib
          /\ opened'[h].faulted = opened[h].faulted /\ opened'[h].building = opened[h].building
          /\ opened'[h].linked = opened[h].linked /\ opened'[h].state = "closed"
      BY <3>2, <3>3 DEF Registry!Handle
    <3> QED BY <3>1, <3>4, NoneFacts
  <2>2. CASE h \notin Registry!ToClose
    BY <1>1, <1>2, <2>2 DEF Handled
  <2> QED BY <2>1, <2>2
<1>4. Handled(opened')
  BY <1>1, <1>3 DEF Handled
<1>5. Touched(opened, opened', entries, inflight, shut)
  BY <1>3 DEF Touched
<1> QED BY <1>1, <1>2, <1>4, <1>5, HandleKeeps

LEMMA StopWaitEndsKeeps ==
  ASSUME RegInv, Registry!StopWaitEnds
  PROVE  RegInv'
<1>1. /\ shut' = "timed out" /\ shut' # "no" /\ shut' # "evicted"
      /\ UNCHANGED <<files, opened, entries, order, inflight, leases, call, repairs>>
  BY DEF Registry!StopWaitEnds
<1>2. HandlesOK(opened, entries, inflight, shut')
  BY <1>1 DEF RegInv, HandlesOK
<1>3. SearchesOK(call, entries, inflight, shut')
  BY <1>1 DEF SearchesOK
<1> QED BY <1>1, <1>2, <1>3 DEF RegInv

LEMMA CloseAllKeeps ==
  ASSUME RegInv, NEW why \in {"evicted", "shutdown"}, Registry!CloseAll(why),
         why = "evicted" => ~Registry!Busy
  PROVE  RegInv'
<1> DEFINE shown == {entries[l] : l \in Libraries}
           hs == [h \in Registry!Handles |->
                    IF h \in shown THEN [opened[h] EXCEPT !.state = "closing"] ELSE opened[h]]
<1>1. /\ shut' = why /\ opened' = hs /\ entries' = [l \in Libraries |-> None] /\ order' = << >>
      /\ UNCHANGED <<files, inflight, leases, call, repairs>>
  BY DEF Registry!CloseAll
<1>2. /\ HandlesOK(opened, entries, inflight, shut) /\ DeletesOK(call, opened, entries, inflight)
      /\ Handled(opened) /\ EntriesOK(opened, entries) /\ CallsOK(call)
      /\ leases \in [Libraries -> Nat] /\ LeasesOK(leases, call)
  BY DEF RegInv, HandlesOK, Handled
<1>3. why # "no"
  OBVIOUS
<1>4. HandlesOK(opened', entries', inflight', shut')
  <2>1. HandlesOK(hs, [l \in Libraries |-> None], inflight, why)
    BY <1>2, <1>3, CloseHandles
  <2> QED BY <1>1, <2>1
<1>5. ASSUME NEW h \in Registry!Handles
      PROVE  hs[h] # None => opened[h] # None /\ hs[h].lib = opened[h].lib /\ hs[h].building = opened[h].building
  <2>1. CASE h \in shown
    <3>1. opened[h] # None /\ opened[h] \in Registry!Handle
      BY <1>2, <2>1, NoneFacts DEF EntriesOK, Handled
    <3>2. hs[h] = [opened[h] EXCEPT !.state = "closing"]
      BY <2>1
    <3> QED BY <3>1, <3>2 DEF Registry!Handle
  <2>2. CASE h \notin shown
    BY <2>2
  <2> QED BY <2>1, <2>2
<1>6. DeletesOK(call', opened', entries', inflight')
  <2>1. entries'[Primary] = None
    BY <1>1, NoneFacts
  <2> HIDE DEF hs
  <2> QED BY <1>1, <1>2, <1>5, <2>1 DEF DeletesOK
<1>7. SearchesOK(call', entries', inflight', shut')
  <2>1. ASSUME why = "evicted", NEW c \in Callers
        PROVE  call[c].kind # "search"
    <3>1. \A l \in Libraries : ~(leases[l] > 0)
      BY <2>1 DEF Registry!Busy
    <3>2. call[c].lib \in Libraries
      BY <1>2 DEF CallsOK, Registry!Call
    <3>3. leases[call[c].lib] = 0
      BY <1>2, <3>1, <3>2
    <3>4. Searching(call, call[c].lib) = {}
      BY <1>2, <3>2, <3>3, SearchingFacts, FS_EmptySet DEF LeasesOK
    <3> QED BY <3>4 DEF Searching
  <2> QED BY <1>1, <1>3, <2>1 DEF SearchesOK
<1>8. OrderOK(order', entries')
  <2>1. << >> \in Seq(Libraries) /\ Len(<< >>) = 0
    OBVIOUS
  <2> QED BY <1>1, <2>1 DEF OrderOK
<1> QED BY <1>1, <1>4, <1>6, <1>7, <1>8 DEF RegInv

\* repairSearchIndex deletes the file, and reopen begins, refuses, or finds nothing to do.
LEMMA DeletedKeeps ==
  ASSUME RegInv, NEW c \in Callers, Registry!Deleted(c)
  PROVE  RegInv'
<1> DEFINE l == call[c].lib
           hs == [h \in Registry!Handles |->
                    IF opened[h] # None /\ opened[h].lib = l
                    THEN [opened[h] EXCEPT !.linked = FALSE] ELSE opened[h]]
           refused == (entries[l] # None /\ hs[entries[l]].building) \/ leases[l] > 0
           waiting == [call EXCEPT ![c].pc = "waiting", ![c].kind = "reopen"]
<1>1. /\ call[c].pc = "deleting" /\ files' = [files EXCEPT ![l] = "none"]
      /\ Registry!Reopen(c, hs)
      /\ UNCHANGED <<entries, order, leases, shut, repairs>>
  BY DEF Registry!Deleted
<1>2. /\ HandlesOK(opened, entries, inflight, shut) /\ CallsOK(call) /\ WaitsOK(call, inflight)
      /\ SearchesOK(call, entries, inflight, shut) /\ DeletesOK(call, opened, entries, inflight)
      /\ Handled(opened) /\ Entered(entries) /\ Begun(inflight)
      /\ EntriesOK(opened, entries) /\ OpeningsOK(opened, inflight)
      /\ leases \in [Libraries -> Nat] /\ LeasesOK(leases, call)
      /\ files \in [Libraries -> {"none", "sound", "corrupt"}]
  BY DEF RegInv, HandlesOK, Handled, Entered, Begun
<1>3. /\ l = Primary /\ call[c].kind = "build" /\ call[c] \in Registry!Call
      /\ inflight[l] = None
      /\ entries[l] # None => opened[entries[l]].faulted
      /\ \A h \in Registry!Handles : opened[h] # None /\ opened[h].lib = l => ~opened[h].building
  BY <1>1, <1>2 DEF CallsOK, CallOK, DeletesOK
<1>4. \A d \in Callers : Writes(call[d]) => d = c
  BY <1>2, <1>3 DEF CallsOK, OneWriter, Writes
<1>5. \A d \in Callers : d # c => call[d].pc # "deleting"
  BY <1>2, <1>4 DEF CallsOK, CallOK, Writes
<1> HIDE DEF l
<1>6. files' \in [Libraries -> {"none", "sound", "corrupt"}]
  BY <1>1, <1>2
<1>7. ASSUME NEW h \in Registry!Handles
      PROVE  /\ hs[h] \in Registry!Handle \cup {None}
             /\ opened[h] = None => hs[h] = None
             /\ opened[h] # None =>
                  /\ hs[h] # None /\ hs[h].lib = opened[h].lib
                  /\ hs[h].faulted = opened[h].faulted /\ hs[h].building = opened[h].building
                  /\ hs[h].state = opened[h].state
                  /\ opened[h].lib # l => hs[h].linked = opened[h].linked
  <2>1. CASE opened[h] # None /\ opened[h].lib = l
    <3>1. opened[h] \in Registry!Handle
      BY <1>2, <2>1 DEF Handled
    <3>2. hs[h] = [opened[h] EXCEPT !.linked = FALSE]
      BY <2>1
    <3>3. /\ hs[h] \in Registry!Handle /\ hs[h].lib = opened[h].lib
          /\ hs[h].faulted = opened[h].faulted /\ hs[h].building = opened[h].building
          /\ hs[h].state = opened[h].state
      BY <3>1, <3>2 DEF Registry!Handle
    <3> QED BY <2>1, <3>3, NoneFacts
  <2>2. CASE ~(opened[h] # None /\ opened[h].lib = l)
    BY <1>2, <2>2 DEF Handled
  <2> QED BY <2>1, <2>2
<1>8. hs = [h \in Registry!Handles |-> hs[h]]
  OBVIOUS
<1> HIDE DEF hs
<1>9. Handled(hs)
  BY <1>7, <1>8 DEF Handled
<1>10. ASSUME NEW h \in Registry!Handles, opened[h] # None, opened[h].lib = l
       PROVE  /\ ~hs[h].building
              /\ \A x \in Libraries : entries[x] = h => hs[h].faulted
              /\ \A x \in Libraries : inflight[x] # None => inflight[x].handle # h
  <2>1. ~hs[h].building
    BY <1>3, <1>7, <1>10
  <2>2. ASSUME NEW x \in Libraries, entries[x] = h
        PROVE  hs[h].faulted
    <3>1. x = l
      BY <1>2, <1>10, <2>2, NoneFacts DEF EntriesOK
    <3> QED BY <1>3, <1>7, <1>10, <2>2, <3>1, NoneFacts
  <2>3. ASSUME NEW x \in Libraries, inflight[x] # None
        PROVE  inflight[x].handle # h
    BY <1>2, <1>3, <1>10, <2>3, NoneFacts DEF OpeningsOK
  <2> QED BY <2>1, <2>2, <2>3
<1>11. Touched(opened, hs, entries, inflight, shut)
  BY <1>7, <1>10 DEF Touched
<1>12. CASE refused /\ call' = [call EXCEPT ![c] = Registry!Idle] /\ opened' = hs /\ UNCHANGED inflight
  <2>1. HandlesOK(opened', entries', inflight', shut)
    <3>1. HandlesOK(hs, entries, inflight, shut)
      BY <1>2, <1>9, <1>11, TouchHandles
    <3> QED BY <1>1, <1>12, <3>1
  <2>2. call' = Ended(call, {c})
    BY <1>2, <1>12 DEF CallsOK, Ended
  <2>3. CallsOK(call') /\ WaitsOK(call', inflight') /\ SearchesOK(call', entries', inflight', shut)
    <3> DEFINE T == {c}
               asked == Ended(call, T)
    <3>1. CallsOK(asked) /\ WaitsOK(asked, inflight) /\ SearchesOK(asked, entries, inflight, shut)
      <4> HIDE DEF T
      <4> QED BY <1>2, EndedCalls
    <3> QED BY <1>1, <1>12, <2>2, <3>1
  <2>4. \A d \in Callers : call'[d].pc # "deleting"
    <3>1. Registry!Idle.pc = "idle"
      BY DEF Registry!Idle
    <3> QED BY <1>2, <1>5, <1>12, <3>1 DEF CallsOK
  <2>5. DeletesOK(call', opened', entries', inflight')
    BY <2>4 DEF DeletesOK
  <2>6. \A x \in Libraries : Searching(call', x) = Searching(call, x)
    <3>1. Registry!Idle.kind = "read"
      BY DEF Registry!Idle
    <3> QED BY <1>2, <1>3, <1>12, <3>1 DEF CallsOK, Searching
  <2>7. OrderOK(order', entries')
    BY <1>1 DEF RegInv
  <2>8. Kept(call)
    BY <2>1, <2>3, <2>5, <2>6, <2>7 DEF Kept
  <2> QED BY <1>1, <1>6, <2>8, KeepsAll
<1>13. CASE /\ ~refused
            /\ opened' = [h \in Registry!Handles |->
                            IF h = entries[l] THEN [hs[h] EXCEPT !.state = "closed"] ELSE hs[h]]
            /\ inflight' = [inflight EXCEPT ![l] = [handle |-> None, victim |-> None]]
            /\ call' = waiting
  <2>1. ASSUME NEW h \in Registry!Handles
        PROVE  /\ h # entries[l] => opened'[h] = hs[h]
               /\ h = entries[l] =>
                    /\ opened[h] # None /\ opened[h].lib = l
                    /\ hs[h].faulted
                    /\ opened'[h] \in Registry!Handle /\ opened'[h] # None
                    /\ opened'[h].lib = hs[h].lib /\ opened'[h].faulted = hs[h].faulted
                    /\ opened'[h].building = hs[h].building /\ opened'[h].linked = hs[h].linked
                    /\ opened'[h].state = "closed"
                    /\ \A x \in Libraries : inflight[x] # None => inflight[x].victim # h
    <3>1. h # entries[l] => opened'[h] = hs[h]
      BY <1>13
    <3>2. ASSUME h = entries[l]
          PROVE  /\ opened[h] # None /\ opened[h].lib = l /\ opened[h].state # "closing" /\ hs[h].faulted
                 /\ hs[h] \in Registry!Handle
      BY <1>2, <1>3, <1>7, <3>2, NoneFacts DEF EntriesOK
    <3>3. ASSUME h = entries[l]
          PROVE  /\ opened'[h] \in Registry!Handle
                 /\ opened'[h].lib = hs[h].lib /\ opened'[h].faulted = hs[h].faulted
                 /\ opened'[h].building = hs[h].building /\ opened'[h].linked = hs[h].linked
                 /\ opened'[h].state = "closed"
      <4>1. opened'[h] = [hs[h] EXCEPT !.state = "closed"]
        BY <1>13, <3>3
      <4> QED BY <3>2, <3>3, <4>1 DEF Registry!Handle
    <3>4. ASSUME h = entries[l], NEW x \in Libraries, inflight[x] # None
          PROVE  inflight[x].victim # h
      BY <1>2, <3>2, <3>4, NoneFacts DEF OpeningsOK
    <3> QED BY <3>1, <3>2, <3>3, <3>4, NoneFacts
  <2>2. opened' = [h \in Registry!Handles |-> opened'[h]]
    BY <1>13
  <2>3. Handled(opened')
    <3>1. \A h \in Registry!Handles : opened'[h] \in Registry!Handle \cup {None}
      BY <1>7, <2>1
    <3> QED BY <2>2, <3>1 DEF Handled
  <2>4. Touched(opened, opened', entries, inflight, shut)
    <3> SUFFICES ASSUME NEW h \in Registry!Handles
                 PROVE  IF opened[h] = None THEN opened'[h] = None ELSE
                        /\ opened'[h] # None /\ opened'[h].lib = opened[h].lib
                        /\ opened[h].faulted => opened'[h].faulted
                        /\ opened'[h].building => opened[h].building
                        /\ opened'[h].state # opened[h].state =>
                             /\ opened'[h].state = "closed"
                             /\ \A x \in Libraries : inflight[x] # None => inflight[x].victim # h
                             /\ opened[h].state = "closing"
                                  \/ (shut = "no" => /\ opened'[h].faulted /\ opened[h].lib = Primary
                                                     /\ ~opened'[h].building)
                        /\ opened[h].linked =>
                             \/ opened'[h].linked
                             \/ /\ ~opened'[h].building
                                /\ \A x \in Libraries : entries[x] = h => opened'[h].faulted
                                /\ \A x \in Libraries :
                                     inflight[x] # None /\ inflight[x].handle = h => opened'[h].faulted
      BY DEF Touched
    <3>1. CASE h = entries[l]
      BY <1>3, <1>7, <1>10, <2>1, <3>1
    <3>2. CASE h # entries[l]
      BY <1>7, <1>10, <2>1, <3>2
    <3> QED BY <3>1, <3>2
  <2>5. HandlesOK(opened', entries', inflight', shut)
    <3>1. HandlesOK(opened', entries, inflight, shut)
      BY <1>2, <2>3, <2>4, TouchHandles
    <3>2. l \in Libraries /\ inflight[l] = None
      BY <1>3, NoneFacts
    <3>3. entries[l] # None => opened'[entries[l]].state # "open"
      <4>1. entries[l] # None => entries[l] \in Registry!Handles
        BY <1>2, <3>2 DEF Entered
      <4> QED BY <2>1, <4>1
    <3>4. HandlesOK(opened', entries, [inflight EXCEPT ![l] = [handle |-> None, victim |-> None]], shut)
      BY <3>1, <3>2, <3>3, BeginHandles
    <3> QED BY <1>1, <1>13, <3>4
  <2> DEFINE k == [call[c] EXCEPT !.pc = "waiting", !.kind = "reopen"]
  <2>6. /\ k \in Registry!Call /\ k.pc = "waiting" /\ k.kind = "reopen" /\ k.lib = l
    BY <1>3 DEF Registry!Call, Registry!Kinds, l
  <2>7. call'[c] = k /\ (\A d \in Callers : d # c => call'[d] = call[d])
        /\ call' \in [Callers -> Registry!Call]
    BY <1>2, <1>13, <2>6 DEF CallsOK
  <2> HIDE DEF k
  <2>8. CallsOK(call')
    <3>1. \A d \in Callers : CallOK(call'[d])
      BY <1>2, <1>3, <2>6, <2>7 DEF CallsOK, CallOK
    <3>2. \A d \in Callers : Writes(call'[d]) => d = c
      BY <1>4, <2>7
    <3> QED BY <2>7, <3>1, <3>2 DEF CallsOK, OneWriter
  <2>9. \A x \in Libraries : Searching(call', x) = Searching(call, x)
    BY <1>3, <2>6, <2>7 DEF Searching
  <2>10. inflight'[l] # None /\ \A x \in Libraries : x # l => inflight'[x] = inflight[x]
    <3>1. [handle |-> None, victim |-> None] # None
      BY NoneFacts DEF Registry!Opening
    <3> QED BY <1>2, <1>3, <1>13, <3>1, NoneFacts DEF Begun
  <2>11. \A d \in Callers : call[d].lib \in Libraries
    BY <1>2 DEF CallsOK, Registry!Call
  <2>12. WaitsOK(call', inflight')
    <3> SUFFICES ASSUME NEW d \in Callers, call'[d].pc = "waiting"
                 PROVE  inflight'[call'[d].lib] # None
      BY DEF WaitsOK
    <3>1. CASE d = c
      BY <2>6, <2>7, <2>10, <3>1
    <3>2. CASE d # c
      BY <1>2, <2>7, <2>10, <2>11, <3>2 DEF WaitsOK
    <3> QED BY <3>1, <3>2
  <2>13. SearchesOK(call', entries', inflight', shut)
    <3>1. ASSUME shut = "no", NEW d \in Callers, call'[d].pc = "working"
          PROVE  entries'[call'[d].lib] = call'[d].handle /\ inflight'[call'[d].lib] = None
      <4>1. d # c /\ call'[d] = call[d] /\ call[d].pc = "working" /\ call[d].kind = "search"
        BY <1>2, <2>6, <2>7, <3>1 DEF CallsOK, CallOK
      <4>2. call[d].lib # l
        <5> SUFFICES ASSUME call[d].lib = l
                     PROVE  FALSE
          OBVIOUS
        <5>1. leases[l] = 0
          BY <1>2, <1>3, <1>13, NoneFacts
        <5>2. Cardinality(Searching(call, l)) = 0
          BY <1>2, <1>3, <5>1, NoneFacts DEF LeasesOK
        <5>3. Searching(call, l) = {}
          BY <5>2, SearchingFacts, FS_EmptySet
        <5> QED BY <4>1, <5>3 DEF Searching
      <4>3. entries[call[d].lib] = call[d].handle /\ inflight[call[d].lib] = None
        BY <1>2, <3>1, <4>1 DEF SearchesOK
      <4> QED BY <1>1, <2>10, <2>11, <4>1, <4>2, <4>3
    <3>2. shut = "evicted" => \A d \in Callers : call'[d].kind # "search"
      BY <1>2, <2>6, <2>7 DEF SearchesOK
    <3> QED BY <3>1, <3>2 DEF SearchesOK
  <2>14. \A d \in Callers : call'[d].pc # "deleting"
    BY <1>5, <2>6, <2>7
  <2>15. DeletesOK(call', opened', entries', inflight')
    BY <2>14 DEF DeletesOK
  <2>16. OrderOK(order', entries')
    BY <1>1 DEF RegInv
  <2>17. Kept(call)
    BY <2>5, <2>8, <2>9, <2>12, <2>13, <2>15, <2>16 DEF Kept
  <2> QED BY <1>1, <1>6, <2>17, KeepsAll
<1>14. \/ inflight[l] # None
       \/ refused /\ call' = [call EXCEPT ![c] = Registry!Idle] /\ opened' = hs /\ UNCHANGED inflight
       \/ /\ ~refused
          /\ opened' = [h \in Registry!Handles |->
                          IF h = entries[l] THEN [hs[h] EXCEPT !.state = "closed"] ELSE hs[h]]
          /\ inflight' = [inflight EXCEPT ![l] = [handle |-> None, victim |-> None]]
          /\ call' = waiting
  BY <1>1 DEF Registry!Reopen, l
<1> QED BY <1>3, <1>12, <1>13, <1>14

-----------------------------------------------------------------------------
(* The theorem.                                                            *)

LEMMA RegInvStarts ==
  ASSUME Registry!Init
  PROVE  RegInv
<1>1. /\ files \in [Libraries -> {"none", "sound"}]
      /\ opened = [h \in Registry!Handles |->
                     IF h = 1 THEN Registry!NewHandle(Primary, FALSE) ELSE None]
      /\ entries = [l \in Libraries |-> IF l = Primary THEN 1 ELSE None]
      /\ order = <<Primary>>
      /\ inflight = [l \in Libraries |-> None]
      /\ leases = [l \in Libraries |-> 0]
      /\ call = [c \in Callers |-> Registry!Idle]
      /\ shut = "no" /\ repairs = 0
  BY DEF Registry!Init
<1> DEFINE r == Registry!NewHandle(Primary, FALSE)
<1>2. 1 \in Registry!Handles /\ 1 # None
  BY NoneFacts DEF Registry!Handles
<1>3. r = [lib |-> Primary, state |-> "open", building |-> FALSE, faulted |-> FALSE, linked |-> TRUE]
  BY DEF Registry!NewHandle
<1> HIDE DEF r
<1>4. r \in Registry!Handle /\ r # None
  <2>1. r \in Registry!Handle
    BY <1>3, NoneFacts DEF Registry!Handle
  <2> QED BY <2>1, NoneFacts
<1>5. r.lib = Primary /\ r.state = "open" /\ r.building = FALSE /\ r.linked = TRUE
  BY <1>3
<1>6. opened[1] = r /\ \A h \in Registry!Handles : h # 1 => opened[h] = None
  BY <1>1, <1>2 DEF r
<1>7. entries[Primary] = 1 /\ \A l \in Libraries : l # Primary => entries[l] = None
  BY <1>1, NoneFacts
<1>8. \A l \in Libraries : entries[l] # None => l = Primary /\ entries[l] = 1
  BY <1>7
<1>9. \A l \in Libraries : inflight[l] = None
  BY <1>1
<1>10. /\ opened \in [Registry!Handles -> Registry!Handle \cup {None}]
       /\ entries \in [Libraries -> Registry!Handles \cup {None}]
       /\ inflight \in [Libraries -> Registry!Opening \cup {None}]
  BY <1>1, <1>2, <1>4 DEF r
<1>11. EntriesOK(opened, entries)
  BY <1>4, <1>5, <1>6, <1>8 DEF EntriesOK, Sound
<1>12. OpeningsOK(opened, inflight)
  BY <1>9 DEF OpeningsOK
<1>13. BuildsOK(opened)
  BY <1>5, <1>6 DEF BuildsOK
<1>14. ServiceOK(opened, entries, inflight)
  BY <1>2, <1>5, <1>6, <1>7, <1>8, <1>9, NoneFacts DEF ServiceOK
<1>15. HandlesOK(opened, entries, inflight, shut)
  BY <1>10, <1>11, <1>12, <1>13, <1>14 DEF HandlesOK
<1>16. /\ Registry!Idle.pc = "idle" /\ Registry!Idle.kind = "read"
       /\ Registry!Idle \in Registry!Call
  BY NoneFacts DEF Registry!Idle, Registry!Call, Registry!Kinds
<1>17. \A c \in Callers : call[c] = Registry!Idle
  BY <1>1
<1>18. CallsOK(call)
  BY <1>1, <1>16, <1>17 DEF CallsOK, CallOK, OneWriter, Writes
<1>19. LeasesOK(leases, call)
  <2>1. \A l \in Libraries : Searching(call, l) = {}
    BY <1>16, <1>17 DEF Searching
  <2> QED BY <1>1, <2>1, FS_EmptySet DEF LeasesOK
<1>20. /\ WaitsOK(call, inflight) /\ SearchesOK(call, entries, inflight, shut)
       /\ DeletesOK(call, opened, entries, inflight)
  BY <1>16, <1>17 DEF WaitsOK, SearchesOK, DeletesOK
<1>21. OrderOK(order, entries)
  <2>1. order \in Seq(Libraries) /\ Len(order) = 1 /\ order[1] = Primary
    BY <1>1, NoneFacts
  <2>2. 1..Len(order) = {1}
    BY <2>1
  <2> QED BY <1>2, <1>7, <2>1, <2>2, NoneFacts DEF OrderOK
<1>22. files \in [Libraries -> {"none", "sound", "corrupt"}] /\ repairs \in 0..MaxFaults
       /\ leases \in [Libraries -> Nat]
  BY <1>1, StoresAssumption DEF Registry!RegistryAssumption
<1> QED BY <1>1, <1>15, <1>18, <1>19, <1>20, <1>21, <1>22 DEF RegInv

LEMMA RegInvKept ==
  ASSUME RegInv, ~RepairsOverlap, [Registry!Next]_registryVars
  PROVE  RegInv'
<1>1. CASE Registry!Next
  <2>1. ASSUME NEW l \in Libraries,
               Registry!Created(l) \/ Registry!CreateFails(l) \/ Registry!Released(l)
        PROVE  RegInv'
    BY <2>1, CreatedKeeps, CreateFailsKeeps, ReleasedKeeps
  <2>2. ASSUME NEW c \in Callers,
               \/ Registry!Looked(c) \/ Registry!NotThere(c) \/ Registry!Deleted(c)
               \/ Registry!DeleteFails(c) \/ Registry!SearchEnds(c)
        PROVE  RegInv'
    BY <2>2, LookedKeeps, EndsKeep, DeletedKeeps
  <2>3. ASSUME NEW c \in Callers, NEW l \in Libraries, Registry!Search(c, l)
        PROVE  RegInv'
    BY <2>3, SearchKeeps
  <2>4. ASSUME NEW c \in Callers, NEW l \in Libraries, NEW kind \in {"read", "build"},
               Registry!Ask(c, l, kind)
        PROVE  RegInv'
    BY <2>4, AskKeeps
  <2>5. ASSUME NEW h \in Registry!Handles, Registry!Corrupts(h) \/ Registry!BuildEnds(h)
        PROVE  RegInv'
    BY <2>5, CorruptsKeeps, BuildEndsKeeps
  <2>6. CASE Registry!Evict \/ Registry!Shutdown
    BY <2>6, CloseAllKeeps DEF Registry!Evict, Registry!Shutdown
  <2>7. CASE Registry!StopWaitEnds \/ Registry!CloseRest
    BY <2>7, StopWaitEndsKeeps, CloseRestKeeps
  <2> QED BY <1>1, <2>1, <2>2, <2>3, <2>4, <2>5, <2>6, <2>7 DEF Registry!Next, Registry!Answering
<1>2. CASE UNCHANGED registryVars
  BY <1>2 DEF registryVars, RegInv
<1> QED BY <1>1, <1>2

LEMMA RegInvShows ==
  ASSUME RegInv
  PROVE  InUseKept
<1>1. /\ HandlesOK(opened, entries, inflight, shut) /\ CallsOK(call) /\ WaitsOK(call, inflight)
      /\ SearchesOK(call, entries, inflight, shut) /\ OrderOK(order, entries)
      /\ Handled(opened) /\ Entered(entries) /\ Begun(inflight)
      /\ EntriesOK(opened, entries) /\ BuildsOK(opened)
      /\ shut = "no" => ServiceOK(opened, entries, inflight)
  BY DEF RegInv, HandlesOK, Handled, Entered, Begun
<1>2. Registry!RegistryTypeOK
  <2>1. Once(order) /\ Listed(order) = Registry!Held(entries)
    BY <1>1, OrderFacts
  <2>2. order \in Seq(Libraries) /\ DOMAIN order = 1..Len(order)
    BY <2>1 DEF Once
  <2>3. {order[i] : i \in DOMAIN order} = {l \in Libraries : entries[l] # None}
    BY <2>1, <2>2 DEF Listed, Registry!Held
  <2>4. Len(order) = Cardinality({l \in Libraries : entries[l] # None})
    BY <2>1, OrderLength DEF Registry!Held
  <2>5. Len(order) = Registry!Cardinality({l \in Libraries : entries[l] # None})
    BY <2>4 DEF Cardinality, Registry!Cardinality
  <2> QED BY <1>1, <2>2, <2>3, <2>5
          DEF RegInv, CallsOK, Handled, Entered, Begun, Registry!RegistryTypeOK
<1>3. Registry!InUseStaysOpen
  <2>1. ASSUME NEW c \in Callers, call[c].pc = "working", shut \in {"no", "evicted"}
        PROVE  Registry!IsOpen(call[c].handle) \/ Registry!HasFault(call[c].handle)
    <3>1. call[c].kind = "search" /\ call[c].handle \in Registry!Handles /\ call[c].lib \in Libraries
      BY <1>1, <2>1 DEF CallsOK, CallOK, Registry!Call
    <3>2. shut = "no"
      BY <1>1, <2>1, <3>1 DEF SearchesOK
    <3>3. entries[call[c].lib] = call[c].handle /\ entries[call[c].lib] # None
      BY <1>1, <2>1, <3>1, <3>2, NoneFacts DEF SearchesOK
    <3> QED BY <1>1, <3>1, <3>2, <3>3
            DEF EntriesOK, ServiceOK, Registry!IsOpen, Registry!HasFault
  <2>2. ASSUME shut = "no"
        PROVE  /\ \A h \in Registry!Handles :
                    opened[h] # None /\ opened[h].building => Registry!IsOpen(h)
               /\ Registry!IsOpen(entries[Primary]) \/ Registry!HasFault(entries[Primary])
    BY <1>1, <2>2, NoneFacts DEF EntriesOK, ServiceOK, Registry!IsOpen, Registry!HasFault
  <2> QED BY <2>1, <2>2 DEF Registry!InUseStaysOpen
<1>4. Registry!BuildKeepsItsFile
  BY <1>1 DEF BuildsOK, Registry!BuildKeepsItsFile
<1>5. Registry!NothingLost
  BY <1>1 DEF ServiceOK, WaitsOK, Registry!IsOpen, Registry!NothingLost
<1> QED BY <1>2, <1>3, <1>4, <1>5 DEF InUseKept, Registry!InUseKept

\* While no two calls ask at once for a build of the primary, no index in use is closed, no
\* file is deleted under a build, every open index can be found, and no call waits for an
\* opening that has ended (index-registry.ts, repair.ts).
THEOREM InUseKeptHolds == ~RepairsOverlap => (StoresSpec => []InUseKept)
<1> SUFFICES ASSUME ~RepairsOverlap
             PROVE  StoresSpec => []InUseKept
  OBVIOUS
<1>1. StoresInit => RegInv
  BY RegInvStarts DEF StoresInit
<1>2. RegInv /\ [StoresNext]_storesVars => RegInv'
  <2>1. [StoresNext]_storesVars => [Registry!Next]_registryVars
    BY DEF StoresNext, storesVars
  <2> QED BY <2>1, RegInvKept
<1>3. RegInv => InUseKept
  BY RegInvShows
<1> QED BY <1>1, <1>2, <1>3, PTL DEF StoresSpec

-----------------------------------------------------------------------------
(* Where an index's path leads.                                            *)

\* A database's vectors are of the texts beside them and of its model.
Fits(r) ==
  \A k \in Keys :
    r.rows[k] # None /\ r.rows[k].vector # None =>
      /\ r.rows[k].vector.text = r.rows[k].text
      /\ r.rows[k].vector.embedder = r.embedder

\* What the index answers from is the model e's.
Serves(r, e) ==
  \A k \in Keys : r.rows[k] # None /\ r.rows[k].vector # None => r.rows[k].vector.embedder = e

\* The database d was moved aside, and its vectors are the model e's.
Source(dbs, gone, d, e) == d \in gone /\ dbs[d] # None /\ dbs[d].embedder = e

\* A database that this build can use, or upgrade.
Good(r) == r.sound /\ r.schema \in {"current", "older"}

DbsOK(dbs, gone) ==
  /\ dbs \in [Opening!Dbs -> Opening!Database \cup {None}]
  /\ \A d \in Opening!Dbs : dbs[d] # None =>
       /\ Fits(dbs[d])
       /\ dbs[d].pointer # None => Source(dbs, gone, dbs[d].pointer, dbs[d].pointerEmbedder)

OpeningStages == {"down", "opening", "creating", "migrating", "sidelining", "moving", "created", "importing",
           "loading", "ready", "building", "refused", "deleting", "deleted"}

Server == [at : OpeningStages, embedder : Embedders \cup {None}, existed : BOOLEAN, faulted : BOOLEAN,
           files : SUBSET {"log", "main"}, salvage : Opening!Dbs \cup {None},
           library : (Libraries \ {Primary}) \cup {None}]

\* The log lies beside its database or is gone, and what was moved aside is not in use.
PathOK(dbs, at, p, gone) ==
  /\ p \in [main : Opening!Dbs \cup {None}, log : Opening!Dbs \cup {None}]
  /\ gone \subseteq Opening!Dbs /\ \A d \in gone : dbs[d] # None
  /\ p.main # None => dbs[p.main] # None /\ p.main \notin gone
  /\ p.log # None => p.main = p.log
  /\ at \in {"moving", "deleted"} => p.log = None

\* The stages at which there is a database at the path.
Present == {"migrating", "sidelining", "moving", "created", "importing", "loading", "ready", "building"}

\* The stages at which the database at the path is about to go.
Doomed(s) ==
  \/ s.at \in {"sidelining", "moving", "deleting", "deleted"}
  \/ s.at = "refused" /\ s.files # {}

ServerOK(dbs, p, gone, s) ==
  /\ s \in Server
  /\ s.at \in Present => p.main # None
  /\ Doomed(s) /\ p.main # None => ~Good(dbs[p.main])
  /\ s.at = "down" => s.salvage = None
  /\ s.at # "down" => s.embedder \in Embedders
  /\ s.at = "importing" => json # None
  /\ s.at = "ready" => Serves(dbs[p.main], s.embedder)
  /\ s.at = "building" => dbs[p.main].embedder = s.embedder /\ s.library \in Libraries \ {Primary}
  /\ s.salvage # None => Source(dbs, gone, s.salvage, s.embedder)

JsonFits ==
  json # None =>
    /\ json.rows \in [Keys -> Opening!Rows \cup {None}]
    /\ json.embedder \in Embedders /\ json.checkpoint \in Embedders \cup {None}
    /\ Fits(json)

OpeningInv ==
  /\ DbsOK(db, aside) /\ PathOK(db, server.at, path, aside) /\ ServerOK(db, path, aside, server)
  /\ JsonFits
  /\ text \in [Libraries \ {Primary} -> [Keys -> Texts]]
  /\ \A x \in deleted : ~x.usable

LEMMA OpeningFacts ==
  /\ Libraries \ {Primary} # {} /\ Embedders # {} /\ Texts # {}
  /\ 1 \in Opening!Dbs /\ None \notin Opening!Dbs /\ None \notin Opening!Database
  /\ None \notin Embedders
  /\ Interrupted \in BOOLEAN
BY StoresAssumption DEF Opening!OpeningAssumption, Opening!Dbs

\* What the invariant shows.
LEMMA OpeningInvShows ==
  ASSUME OpeningInv
  PROVE  Opening!PathsSafe
<1>1. Opening!NoForeignLog
  BY DEF OpeningInv, PathOK, Opening!NoForeignLog
<1>2. Opening!UsableKept
  BY DEF OpeningInv, Opening!UsableKept
<1>3. Opening!VectorsFit
  BY DEF OpeningInv, DbsOK, Fits, Opening!VectorsFit, Opening!Used
<1> QED BY <1>1, <1>2, <1>3 DEF Opening!PathsSafe

-----------------------------------------------------------------------------
(* The databases.                                                          *)

\* A record that the path's database may become.
Recorded(r, dbs, gone) ==
  /\ r \in Opening!Database /\ Fits(r)
  /\ r.pointer # None => Source(dbs, gone, r.pointer, r.pointerEmbedder)

\* The databases once d is r, while those aside are as they were.
Rewritten(dbs, gone, d, r, new) ==
  /\ DbsOK(new, gone) /\ new[d] = r /\ r # None
  /\ \A x \in Opening!Dbs \ {d} : new[x] = dbs[x]
  /\ \A x, e : Source(dbs, gone, x, e) => Source(new, gone, x, e)

LEMMA WriteKeeps ==
  ASSUME NEW dbs, NEW gone, DbsOK(dbs, gone), gone \subseteq Opening!Dbs,
         NEW d \in Opening!Dbs \ gone, NEW r, Recorded(r, dbs, gone),
         NEW new, new = [dbs EXCEPT ![d] = r]
  PROVE  Rewritten(dbs, gone, d, r, new)
<1>1. dbs \in [Opening!Dbs -> Opening!Database \cup {None}]
  BY DEF DbsOK
<1>2. /\ new \in [Opening!Dbs -> Opening!Database \cup {None}] /\ new[d] = r
      /\ \A x \in Opening!Dbs \ {d} : new[x] = dbs[x]
  BY <1>1 DEF Recorded
<1>3. ASSUME NEW x, NEW e, Source(dbs, gone, x, e)
      PROVE  Source(new, gone, x, e)
  BY <1>2, <1>3 DEF Source
<1>4. ASSUME NEW x \in Opening!Dbs, new[x] # None
      PROVE  Recorded(new[x], new, gone)
  <2>1. Recorded(new[x], dbs, gone)
    BY <1>1, <1>2, <1>4 DEF DbsOK, Recorded
  <2> QED BY <1>3, <2>1 DEF Recorded
<1>5. r # None
  BY OpeningFacts DEF Recorded
<1>6. DbsOK(new, gone)
  BY <1>2, <1>4 DEF DbsOK, Recorded
<1> QED BY <1>2, <1>3, <1>5, <1>6 DEF Rewritten

\* A database goes aside.
LEMMA AsideKeeps ==
  ASSUME NEW dbs, NEW gone, DbsOK(dbs, gone), NEW more
  PROVE  /\ DbsOK(dbs, gone \cup more)
         /\ \A x, e : Source(dbs, gone, x, e) => Source(dbs, gone \cup more, x, e)
BY DEF DbsOK, Source

\* What the database at the path is.
LEMMA CurrentIs ==
  ASSUME OpeningInv, path.main # None
  PROVE  /\ path.main \in Opening!Dbs \ aside
         /\ Opening!Current = db[path.main] /\ Opening!Current \in Opening!Database
         /\ Recorded(Opening!Current, db, aside)
BY DEF OpeningInv, DbsOK, PathOK, Recorded, Opening!Current

-----------------------------------------------------------------------------
(* The steps that write no database.                                       *)

LEMMA QuietKeeps ==
  ASSUME OpeningInv, UNCHANGED <<db, aside, json, text, deleted>>,
         PathOK(db, server'.at, path', aside), ServerOK(db, path', aside, server')
  PROVE  OpeningInv'
<1>1. DbsOK(db', aside')
  BY DEF OpeningInv
<1>2. PathOK(db', server'.at, path', aside') /\ ServerOK(db, path, aside, server)'
  BY DEF PathOK, ServerOK, Source
<1>3. JsonFits'
  BY DEF OpeningInv, JsonFits, Fits
<1>4. text' \in [Libraries \ {Primary} -> [Keys -> Texts]]
  BY DEF OpeningInv
<1>5. \A x \in deleted' : ~x.usable
  BY DEF OpeningInv
<1> QED BY <1>1, <1>2, <1>3, <1>4, <1>5 DEF OpeningInv

\* The server goes on and the path stays.
LEMMA GoesOn ==
  ASSUME OpeningInv, UNCHANGED <<db, path, aside, json, text, deleted>>,
         ServerOK(db, path, aside, server'), server'.at \notin {"moving", "deleted"}
  PROVE  OpeningInv'
<1>1. PathOK(db, server'.at, path', aside)
  BY DEF OpeningInv, PathOK
<1> QED BY <1>1, QuietKeeps

\* A refusal names nothing, or there is nothing to lose.
LEMMA RefusesKeeps ==
  ASSUME OpeningInv, UNCHANGED <<db, path, aside, json, text, deleted>>,
         NEW names \in SUBSET {"log", "main"}, Opening!Refuses(names),
         server.at # "down",
         names # {} /\ path.main # None => ~Good(db[path.main])
  PROVE  OpeningInv'
<1>1. server' = [server EXCEPT !.at = "refused", !.faulted = TRUE, !.files = names, !.salvage = None]
  BY DEF Opening!Refuses
<1>2. server \in Server /\ server.embedder \in Embedders
  BY DEF OpeningInv, ServerOK
<1>3. /\ server' \in Server /\ server'.at = "refused" /\ server'.files = names /\ server'.salvage = None
      /\ server'.embedder = server.embedder
  BY <1>1, <1>2 DEF Server, OpeningStages
<1>4. ServerOK(db, path, aside, server')
  BY <1>2, <1>3 DEF ServerOK, Present, Doomed
<1> QED BY <1>3, <1>4, GoesOn

LEMMA OpenPathKeeps ==
  ASSUME OpeningInv, NEW e \in Embedders, Opening!Open(e)
  PROVE  OpeningInv'
<1>1. server' = [server EXCEPT !.at = "opening", !.embedder = e, !.faulted = FALSE, !.files = {}]
  BY DEF Opening!Open
<1>2. server \in Server /\ server.salvage = None
  BY DEF OpeningInv, ServerOK, Opening!Open, Opening!At
<1>3. server' \in Server /\ server'.at = "opening" /\ server'.salvage = None /\ server'.embedder = e
  BY <1>1, <1>2 DEF Server, OpeningStages
<1>5. ServerOK(db, path, aside, server')
  BY <1>3 DEF ServerOK, Present, Doomed
<1> QED BY <1>3, <1>5, GoesOn DEF Opening!Open

\* The server's stage changes and nothing else of it.
LEMMA StageChanges ==
  ASSUME server \in Server, NEW at \in OpeningStages, Opening!Goes(at)
  PROVE  /\ server' \in Server /\ server'.at = at /\ server'.embedder = server.embedder
         /\ server'.files = server.files /\ server'.salvage = server.salvage
         /\ server'.library = server.library /\ server'.existed = server.existed
BY DEF Server, Opening!Goes

LEMMA ProbeKeeps ==
  ASSUME OpeningInv, Opening!Probe
  PROVE  OpeningInv'
<1>1. /\ server \in Server /\ server.at = "opening" /\ server.embedder \in Embedders
      /\ server.salvage # None => Source(db, aside, server.salvage, server.embedder)
      /\ UNCHANGED <<db, path, aside, json, text, deleted>>
  BY DEF OpeningInv, ServerOK, Opening!Probe, Opening!At
<1>2. ASSUME NEW at \in {"creating", "migrating", "sidelining"}, NEW was \in BOOLEAN,
             server' = [server EXCEPT !.at = at, !.existed = was],
             at # "creating" => path.main # None,
             at = "sidelining" => ~Good(db[path.main])
      PROVE  OpeningInv'
  <2>1. /\ server' \in Server /\ server'.at = at /\ server'.embedder = server.embedder
        /\ server'.salvage = server.salvage
    BY <1>1, <1>2 DEF Server, OpeningStages
  <2>2. ServerOK(db, path, aside, server')
    BY <1>1, <1>2, <2>1 DEF ServerOK, Present, Doomed
  <2> QED BY <1>1, <1>2, <2>1, <2>2, GoesOn
<1>3. CASE path.main = None /\ server' = [server EXCEPT !.at = "creating", !.existed = FALSE]
  BY <1>2, <1>3
<1>4. CASE path.main # None /\ ~Opening!Current.sound /\ Opening!Refuses(Opening!AllFiles)
  BY <1>1, <1>4, RefusesKeeps, CurrentIs DEF Good, Opening!AllFiles
<1>5. CASE /\ path.main # None /\ Opening!Current.schema \in {"fresh", "current"}
           /\ server' = [server EXCEPT !.at = "creating", !.existed = TRUE]
  BY <1>2, <1>5
<1>6. CASE /\ path.main # None /\ Opening!Current.schema = "older"
           /\ server' = [server EXCEPT !.at = "migrating", !.existed = TRUE]
  BY <1>2, <1>6
<1>7. CASE /\ path.main # None /\ Opening!Current.schema \in {"newer", "unstamped"}
           /\ server' = [server EXCEPT !.at = "sidelining", !.existed = TRUE]
  BY <1>2, <1>7, CurrentIs DEF Good
<1> QED BY <1>3, <1>4, <1>5, <1>6, <1>7 DEF Opening!Probe

LEMMA MigrationFailsKeeps ==
  ASSUME OpeningInv, Opening!MigrationFails
  PROVE  OpeningInv'
<1>1. /\ server \in Server /\ server.at = "migrating" /\ server.embedder \in Embedders
      /\ path.main # None
      /\ server.salvage # None => Source(db, aside, server.salvage, server.embedder)
      /\ UNCHANGED <<db, path, aside, json, text, deleted>>
  BY DEF OpeningInv, ServerOK, Opening!MigrationFails, Opening!At, Present
<1>2. CASE ~Opening!Current.sound /\ Opening!Goes("sidelining")
  <2>1. /\ server' \in Server /\ server'.at = "sidelining" /\ server'.embedder = server.embedder
        /\ server'.salvage = server.salvage
    BY <1>1, <1>2, StageChanges DEF OpeningStages
  <2>2. ~Good(db[path.main])
    BY <1>1, <1>2, CurrentIs DEF Good
  <2>3. ServerOK(db, path, aside, server')
    BY <1>1, <2>1, <2>2 DEF ServerOK, Present, Doomed
  <2> QED BY <1>1, <2>1, <2>3, GoesOn
<1>3. CASE Opening!Refuses(Opening!Untouched)
  BY <1>1, <1>3, RefusesKeeps DEF Opening!Untouched
<1> QED BY <1>2, <1>3 DEF Opening!MigrationFails

LEMMA MoveFailsKeeps ==
  ASSUME OpeningInv, Opening!MoveFails
  PROVE  OpeningInv'
<1>1. /\ server.at # "down" /\ (path.main # None => ~Good(db[path.main]))
      /\ UNCHANGED <<db, path, aside, json, text, deleted>> /\ Opening!Refuses(Opening!AllFiles)
  BY DEF OpeningInv, ServerOK, Opening!MoveFails, Doomed
<1> QED BY <1>1, RefusesKeeps DEF Opening!AllFiles

LEMMA FaultsKeep ==
  ASSUME OpeningInv, Opening!OpenFails \/ Opening!NoteCorruption
  PROVE  OpeningInv'
<1>1. /\ server.at \in {"created", "importing", "loading", "ready", "building"}
      /\ ~Opening!Current.sound
      /\ UNCHANGED <<db, path, aside, json, text, deleted>> /\ Opening!Refuses(Opening!AllFiles)
  BY DEF Opening!OpenFails, Opening!NoteCorruption
<1>2. ~Good(db[path.main])
  BY <1>1 DEF Good, Opening!Current
<1> QED BY <1>1, <1>2, RefusesKeeps DEF Opening!AllFiles

LEMMA RepairKeeps ==
  ASSUME OpeningInv, Opening!Repair
  PROVE  OpeningInv'
<1>1. /\ ServerOK(db, path, aside, server) /\ server.at = "refused" /\ server.files # {}
      /\ server \in Server /\ Opening!Goes("deleting")
      /\ UNCHANGED <<db, path, aside, json, text, deleted>>
  BY DEF OpeningInv, ServerOK, Opening!Repair, Opening!At
<1>2. /\ server' \in Server /\ server'.at = "deleting" /\ server'.embedder = server.embedder
      /\ server'.salvage = server.salvage
  BY <1>1, StageChanges DEF OpeningStages
<1>3. ServerOK(db, path, aside, server')
  BY <1>1, <1>2 DEF ServerOK, Present, Doomed
<1> QED BY <1>1, <1>2, <1>3, GoesOn

LEMMA DeleteFailsKeeps ==
  ASSUME OpeningInv, Opening!DeleteFails
  PROVE  OpeningInv'
<1>1. /\ ServerOK(db, path, aside, server) /\ server.at \in {"deleting", "deleted"}
      /\ server \in Server /\ Opening!Goes("refused")
      /\ UNCHANGED <<db, path, aside, json, text, deleted>>
  BY DEF OpeningInv, ServerOK, Opening!DeleteFails
<1>2. /\ server' \in Server /\ server'.at = "refused" /\ server'.embedder = server.embedder
      /\ server'.salvage = server.salvage /\ server'.files = server.files
  BY <1>1, StageChanges DEF OpeningStages
<1>3. ServerOK(db, path, aside, server')
  BY <1>1, <1>2 DEF ServerOK, Present, Doomed
<1> QED BY <1>1, <1>2, <1>3, GoesOn

\* The process stops, with its log or without it.
LEMMA StopsKeep ==
  ASSUME OpeningInv, Opening!Close \/ Opening!Crash
  PROVE  OpeningInv'
<1>1. /\ server' = [server EXCEPT !.at = "down", !.salvage = None, !.library = None]
      /\ server \in Server /\ UNCHANGED <<db, aside, json, text, deleted>>
      /\ \/ path' = path
         \/ path' = [path EXCEPT !.log = None]
      /\ PathOK(db, server.at, path, aside)
  BY DEF OpeningInv, ServerOK, Opening!Close, Opening!Crash, Opening!At, PathOK
<1>2. server' \in Server /\ server'.at = "down" /\ server'.salvage = None
  BY <1>1 DEF Server, OpeningStages
<1>3. PathOK(db, server'.at, path', aside)
  BY <1>1, <1>2 DEF PathOK
<1>4. ServerOK(db, path', aside, server')
  BY <1>2 DEF ServerOK, Present, Doomed
<1> QED BY <1>1, <1>3, <1>4, QuietKeeps

-----------------------------------------------------------------------------
(* The steps that write the database at the path.                          *)

LEMMA StepKeeps ==
  ASSUME OpeningInv, DbsOK(db', aside'), PathOK(db', server'.at, path', aside'),
         ServerOK(db, path, aside, server)', UNCHANGED json,
         text' \in [Libraries \ {Primary} -> [Keys -> Texts]], \A x \in deleted' : ~x.usable
  PROVE  OpeningInv'
<1>1. JsonFits'
  BY DEF OpeningInv, JsonFits, Fits
<1> QED BY <1>1 DEF OpeningInv

LEMMA RewriteKeeps ==
  ASSUME OpeningInv, path.main # None, NEW r, Recorded(r, db, aside),
         db' = [db EXCEPT ![path.main] = r], UNCHANGED <<aside, json, text, deleted>>,
         path'.main = path.main, PathOK(db, server'.at, path', aside),
         (/\ db'[path.main] = r
          /\ \A x, e : Source(db, aside, x, e) => Source(db', aside, x, e))
         => ServerOK(db', path, aside, server')
  PROVE  OpeningInv'
<1>1. /\ DbsOK(db', aside) /\ db'[path.main] = r /\ r # None
      /\ \A x \in Opening!Dbs \ {path.main} : db'[x] = db[x]
      /\ \A x, e : Source(db, aside, x, e) => Source(db', aside, x, e)
  <2>1. path.main \in Opening!Dbs \ aside /\ DbsOK(db, aside) /\ aside \subseteq Opening!Dbs
    BY CurrentIs DEF OpeningInv, PathOK
  <2>2. Rewritten(db, aside, path.main, r, db')
    BY <2>1, WriteKeeps
  <2> QED BY <2>2 DEF Rewritten
<1>2. PathOK(db', server'.at, path', aside')
  BY <1>1 DEF PathOK
<1>3. ServerOK(db, path, aside, server)'
  <2>1. ServerOK(db', path, aside, server')
    BY <1>1
  <2> QED BY <2>1 DEF ServerOK, Source
<1>4. text' \in [Libraries \ {Primary} -> [Keys -> Texts]] /\ (\A x \in deleted' : ~x.usable)
  BY DEF OpeningInv
<1> QED BY <1>1, <1>2, <1>3, <1>4, StepKeeps

\* A record with another schema or in another condition says what it said.
LEMMA SameContent ==
  ASSUME NEW r, NEW t, Recorded(r, db, aside), t \in Opening!Database,
         t.rows = r.rows, t.embedder = r.embedder, t.pointer = r.pointer,
         t.pointerEmbedder = r.pointerEmbedder
  PROVE  Recorded(t, db, aside)
BY DEF Recorded, Fits

LEMMA MigrateKeeps ==
  ASSUME OpeningInv, Opening!Migrate
  PROVE  OpeningInv'
<1> DEFINE r == [Opening!Current EXCEPT !.schema = "current"]
<1>1. /\ server \in Server /\ server.at = "migrating" /\ server.embedder \in Embedders
      /\ path.main # None
      /\ server.salvage # None => Source(db, aside, server.salvage, server.embedder)
      /\ UNCHANGED <<path, aside, json, text, deleted>> /\ Opening!Goes("creating")
      /\ db' = [db EXCEPT ![path.main].schema = "current"]
      /\ PathOK(db, server.at, path, aside)
  BY DEF OpeningInv, ServerOK, Opening!Migrate, Opening!At, Present
<1>2. /\ r \in Opening!Database
      /\ r.rows = Opening!Current.rows /\ r.embedder = Opening!Current.embedder
      /\ r.pointer = Opening!Current.pointer /\ r.pointerEmbedder = Opening!Current.pointerEmbedder
  BY <1>1, CurrentIs DEF Opening!Database, Opening!Schemas
<1>3. db' = [db EXCEPT ![path.main] = r]
  BY <1>1, CurrentIs
<1> HIDE DEF r
<1>4. Recorded(r, db, aside)
  BY <1>1, <1>2, CurrentIs, SameContent
<1>5. /\ server' \in Server /\ server'.at = "creating" /\ server'.embedder = server.embedder
      /\ server'.salvage = server.salvage
  BY <1>1, StageChanges DEF OpeningStages
<1>6. PathOK(db, server'.at, path', aside)
  BY <1>1, <1>5 DEF PathOK
<1>7. (\A x, e : Source(db, aside, x, e) => Source(db', aside, x, e))
      => ServerOK(db', path, aside, server')
  BY <1>1, <1>5 DEF ServerOK, Present, Doomed
<1> QED BY <1>1, <1>3, <1>4, <1>6, <1>7, RewriteKeeps

LEMMA CreateSchemaKeeps ==
  ASSUME OpeningInv, Opening!CreateSchema
  PROVE  OpeningInv'
<1> DEFINE r == [Opening!Current EXCEPT !.schema = "current"]
           at == IF ~server.existed /\ json # None THEN "importing" ELSE "loading"
<1>1. /\ server \in Server /\ server.at = "created" /\ server.embedder \in Embedders
      /\ path.main # None
      /\ server.salvage # None => Source(db, aside, server.salvage, server.embedder)
      /\ UNCHANGED <<aside, json, text, deleted>> /\ Opening!Goes(at)
      /\ db' = [db EXCEPT ![path.main].schema = "current"]
      /\ path' = [path EXCEPT !.log = IF @ = None THEN path.main ELSE @]
      /\ PathOK(db, server.at, path, aside)
  BY DEF OpeningInv, ServerOK, Opening!CreateSchema, Opening!At, Present
<1>2. /\ r \in Opening!Database
      /\ r.rows = Opening!Current.rows /\ r.embedder = Opening!Current.embedder
      /\ r.pointer = Opening!Current.pointer /\ r.pointerEmbedder = Opening!Current.pointerEmbedder
  BY <1>1, CurrentIs DEF Opening!Database, Opening!Schemas
<1>3. db' = [db EXCEPT ![path.main] = r]
  BY <1>1, CurrentIs
<1>4. at \in {"importing", "loading"} /\ (at = "importing" => json # None)
  OBVIOUS
<1> HIDE DEF r, at
<1>5. Recorded(r, db, aside)
  BY <1>1, <1>2, CurrentIs, SameContent
<1>6. /\ server' \in Server /\ server'.at = at /\ server'.embedder = server.embedder
      /\ server'.salvage = server.salvage
  <2>1. at \in OpeningStages
    BY <1>4 DEF OpeningStages
  <2> QED BY <1>1, <2>1, StageChanges
<1>7. PathOK(db, server'.at, path', aside) /\ path'.main = path.main
  <2>1. path \in [main : Opening!Dbs \cup {None}, log : Opening!Dbs \cup {None}]
    BY <1>1 DEF PathOK
  <2>2. /\ path' \in [main : Opening!Dbs \cup {None}, log : Opening!Dbs \cup {None}]
        /\ path'.main = path.main
        /\ path'.log = IF path.log = None THEN path.main ELSE path.log
    BY <1>1, <2>1
  <2> QED BY <1>1, <1>4, <1>6, <2>2 DEF PathOK
<1>8. (\A x, e : Source(db, aside, x, e) => Source(db', aside, x, e))
      => ServerOK(db', path, aside, server')
  BY <1>1, <1>4, <1>6 DEF ServerOK, Present, Doomed
<1> QED BY <1>1, <1>3, <1>5, <1>7, <1>8, RewriteKeeps

\* The schema or the condition of the database at the path changes, and the server does not.
LEMMA MishapKeeps ==
  ASSUME OpeningInv, path.main # None, NEW r, r \in Opening!Database,
         r.rows = Opening!Current.rows, r.embedder = Opening!Current.embedder,
         r.pointer = Opening!Current.pointer, r.pointerEmbedder = Opening!Current.pointerEmbedder,
         db' = [db EXCEPT ![path.main] = r],
         ~Good(Opening!Current) => ~Good(r) \/ server.at = "down",
         UNCHANGED <<path, aside, json, text, server, deleted>>
  PROVE  OpeningInv'
<1>1. Recorded(r, db, aside)
  BY CurrentIs, SameContent
<1>2. PathOK(db, server'.at, path', aside) /\ ServerOK(db, path, aside, server)
      /\ Opening!Current = db[path.main]
  BY CurrentIs DEF OpeningInv
<1>3. ASSUME db'[path.main] = r, \A x, e : Source(db, aside, x, e) => Source(db', aside, x, e)
      PROVE  ServerOK(db', path, aside, server')
  BY <1>2, <1>3 DEF ServerOK, Doomed, Serves
<1> QED BY <1>1, <1>2, <1>3, RewriteKeeps

LEMMA SurroundingsKeep ==
  ASSUME OpeningInv, NEW s \in {"older", "newer"}, Opening!Damage \/ Opening!OtherBuild(s)
  PROVE  OpeningInv'
<1>1. CASE Opening!Damage
  <2> DEFINE r == [Opening!Current EXCEPT !.sound = FALSE]
  <2>1. path.main # None /\ db' = [db EXCEPT ![path.main].sound = FALSE]
        /\ UNCHANGED <<path, aside, json, text, server, deleted>>
    BY <1>1 DEF Opening!Damage
  <2>2. /\ r \in Opening!Database /\ ~r.sound
        /\ r.rows = Opening!Current.rows /\ r.embedder = Opening!Current.embedder
        /\ r.pointer = Opening!Current.pointer /\ r.pointerEmbedder = Opening!Current.pointerEmbedder
    BY <2>1, CurrentIs DEF Opening!Database
  <2>3. db' = [db EXCEPT ![path.main] = r]
    BY <2>1, CurrentIs
  <2> HIDE DEF r
  <2> QED BY <2>1, <2>2, <2>3, MishapKeeps DEF Good
<1>2. CASE Opening!OtherBuild(s)
  <2> DEFINE r == [Opening!Current EXCEPT !.schema = s]
  <2>1. path.main # None /\ db' = [db EXCEPT ![path.main].schema = s] /\ server.at = "down"
        /\ UNCHANGED <<path, aside, json, text, server, deleted>>
    BY <1>2 DEF Opening!OtherBuild, Opening!At
  <2>2. /\ r \in Opening!Database
        /\ r.rows = Opening!Current.rows /\ r.embedder = Opening!Current.embedder
        /\ r.pointer = Opening!Current.pointer /\ r.pointerEmbedder = Opening!Current.pointerEmbedder
    BY <2>1, CurrentIs DEF Opening!Database, Opening!Schemas
  <2>3. db' = [db EXCEPT ![path.main] = r]
    BY <2>1, CurrentIs
  <2> HIDE DEF r
  <2> QED BY <2>1, <2>2, <2>3, MishapKeeps
<1> QED BY <1>1, <1>2

LEMMA NewDbIs ==
  Opening!NewDb \in Opening!Database /\ \A gone : Recorded(Opening!NewDb, db, gone)
<1>1. Opening!NoRows \in [Keys -> Opening!Rows \cup {None}] /\ \A k \in Keys : Opening!NoRows[k] = None
  BY DEF Opening!NoRows
<1>2. Opening!NewDb \in Opening!Database /\ Opening!NewDb.pointer = None
      /\ Opening!NewDb.rows = Opening!NoRows
  BY <1>1 DEF Opening!NewDb, Opening!Database, Opening!Schemas
<1> QED BY <1>1, <1>2 DEF Recorded, Fits

LEMMA CreateKeeps ==
  ASSUME OpeningInv, Opening!Create
  PROVE  OpeningInv'
<1>1. /\ server \in Server /\ server.at = "creating" /\ server.embedder \in Embedders
      /\ server.salvage # None => Source(db, aside, server.salvage, server.embedder)
      /\ UNCHANGED <<aside, json, text, deleted>> /\ Opening!Goes("created")
      /\ PathOK(db, server.at, path, aside) /\ DbsOK(db, aside)
  BY DEF OpeningInv, ServerOK, Opening!Create, Opening!At
<1>2. /\ server' \in Server /\ server'.at = "created" /\ server'.embedder = server.embedder
      /\ server'.salvage = server.salvage
  BY <1>1, StageChanges DEF OpeningStages
<1>3. CASE path.main # None /\ UNCHANGED <<db, path>>
  <2>1. ServerOK(db, path, aside, server')
    BY <1>1, <1>2, <1>3 DEF ServerOK, Present, Doomed
  <2> QED BY <1>1, <1>2, <1>3, <2>1, GoesOn
<1>4. CASE path.main = None
  <2>1. PICK d \in Opening!Dbs \ Opening!Used :
          db' = [db EXCEPT ![d] = Opening!NewDb] /\ path' = [path EXCEPT !.main = d]
    BY <1>4 DEF Opening!Create
  <2>2. db[d] = None /\ d \in Opening!Dbs \ aside /\ aside \subseteq Opening!Dbs
    BY <1>1 DEF Opening!Used, PathOK
  <2>3. Rewritten(db, aside, d, Opening!NewDb, db')
    BY <1>1, <2>1, <2>2, NewDbIs, WriteKeeps
  <2>4. path \in [main : Opening!Dbs \cup {None}, log : Opening!Dbs \cup {None}]
        /\ path.log = None
    BY <1>1, <1>4 DEF PathOK
  <2>5. /\ path' \in [main : Opening!Dbs \cup {None}, log : Opening!Dbs \cup {None}]
        /\ path'.main = d /\ path'.log = None
    BY <2>1, <2>2, <2>4
  <2>6. PathOK(db', server'.at, path', aside)
    BY <1>1, <1>2, <2>2, <2>3, <2>5, OpeningFacts DEF PathOK, Rewritten
  <2>7. ServerOK(db', path', aside, server')
    BY <1>1, <1>2, <2>2, <2>3, <2>5, OpeningFacts DEF ServerOK, Rewritten, Present, Doomed
  <2>8. DbsOK(db', aside) /\ ServerOK(db, path, aside, server)'
    BY <1>1, <2>3, <2>7 DEF ServerOK, Rewritten, Source
  <2> QED BY <1>1, <2>6, <2>8, StepKeeps DEF OpeningInv
<1> QED BY <1>3, <1>4 DEF Opening!Create

LEMMA ImportJsonKeeps ==
  ASSUME OpeningInv, Opening!ImportJson
  PROVE  OpeningInv'
<1>1. /\ server \in Server /\ server.at = "importing" /\ server.embedder \in Embedders
      /\ path.main # None /\ json # None /\ JsonFits
      /\ server.salvage # None => Source(db, aside, server.salvage, server.embedder)
      /\ UNCHANGED <<path, aside, json, text, deleted>> /\ Opening!Goes("loading")
      /\ PathOK(db, server.at, path, aside)
  BY DEF OpeningInv, ServerOK, Opening!ImportJson, Opening!At, Present
<1>2. /\ server' \in Server /\ server'.at = "loading" /\ server'.embedder = server.embedder
      /\ server'.salvage = server.salvage
  BY <1>1, StageChanges DEF OpeningStages
<1>3. CASE UNCHANGED db
  <2>1. ServerOK(db, path, aside, server')
    BY <1>1, <1>2 DEF ServerOK, Present, Doomed
  <2> QED BY <1>1, <1>2, <1>3, <2>1, GoesOn
<1>4. CASE db' = [db EXCEPT ![path.main].rows = json.rows, ![path.main].embedder = json.embedder,
                            ![path.main].checkpoint = json.checkpoint]
  <2> DEFINE r == [Opening!Current EXCEPT !.rows = json.rows, !.embedder = json.embedder,
                                          !.checkpoint = json.checkpoint]
  <2>1. db' = [db EXCEPT ![path.main] = r]
    BY <1>1, <1>4, CurrentIs DEF OpeningInv, DbsOK
  <2>2. /\ r \in Opening!Database /\ r.rows = json.rows /\ r.embedder = json.embedder
        /\ r.pointer = Opening!Current.pointer /\ r.pointerEmbedder = Opening!Current.pointerEmbedder
    BY <1>1, CurrentIs DEF Opening!Database, JsonFits
  <2> HIDE DEF r
  <2>3. Recorded(r, db, aside)
    BY <1>1, <2>2, CurrentIs DEF Recorded, JsonFits, Fits
  <2>4. PathOK(db, server'.at, path', aside)
    BY <1>1, <1>2 DEF PathOK
  <2>5. ASSUME \A x, e : Source(db, aside, x, e) => Source(db', aside, x, e)
        PROVE  ServerOK(db', path, aside, server')
    BY <1>1, <1>2, <2>5 DEF ServerOK, Present, Doomed
  <2> QED BY <1>1, <2>1, <2>3, <2>4, <2>5, RewriteKeeps
<1> QED BY <1>3, <1>4 DEF Opening!ImportJson

LEMMA ReconciledIs ==
  ASSUME NEW r, Recorded(r, db, aside), NEW e \in Embedders
  PROVE  /\ Recorded(Opening!Reconciled(r, e), db, aside)
         /\ Opening!Reconciled(r, e).pointer = r.pointer
         /\ Opening!Reconciled(r, e).pointerEmbedder = r.pointerEmbedder
         /\ Serves(Opening!Reconciled(r, e), e)
<1>1. CASE r.embedder \in {None, e} \/ ~Opening!Embedded(r.rows)
  <2>1. Opening!Reconciled(r, e) = r
    BY <1>1 DEF Opening!Reconciled
  <2>2. ASSUME NEW k \in Keys, r.rows[k] # None, r.rows[k].vector # None
        PROVE  r.rows[k].vector.embedder \in Embedders
    <3>1. r.rows \in [Keys -> Opening!Rows \cup {None}]
      BY DEF Recorded, Opening!Database
    <3>2. r.rows[k] \in Opening!Rows
      BY <2>2, <3>1
    <3> QED BY <2>2, <3>2 DEF Opening!Rows
  <2>3. Serves(r, e)
    BY <1>1, <2>2, OpeningFacts DEF Serves, Recorded, Fits, Opening!Embedded
  <2> QED BY <2>1, <2>3
<1>2. CASE ~(r.embedder \in {None, e} \/ ~Opening!Embedded(r.rows))
  <2> DEFINE passages == [k \in Keys |-> IF r.rows[k] = None THEN None ELSE [r.rows[k] EXCEPT !.vector = None]]
             d == Opening!Reconciled(r, e)
  <2>1. r \in Opening!Database /\ r.rows \in [Keys -> Opening!Rows \cup {None}]
    BY DEF Recorded, Opening!Database
  <2>2. d = [r EXCEPT !.embedder = None, !.rows = passages]
    BY <1>2, <2>1 DEF Opening!Reconciled
  <2>3. passages \in [Keys -> Opening!Rows \cup {None}]
        /\ \A k \in Keys : passages[k] = None \/ passages[k].vector = None
    BY <2>1 DEF Opening!Rows
  <2> HIDE DEF passages
  <2>4. /\ d \in Opening!Database /\ d.rows = passages
        /\ d.pointer = r.pointer /\ d.pointerEmbedder = r.pointerEmbedder
    BY <2>1, <2>2, <2>3 DEF Opening!Database
  <2> HIDE DEF d
  <2>5. Fits(d) /\ Serves(d, e)
    BY <2>3, <2>4 DEF Fits, Serves
  <2> QED BY <2>4, <2>5 DEF Recorded, d
<1> QED BY <1>1, <1>2

LEMMA LoadKeeps ==
  ASSUME OpeningInv, Opening!Load
  PROVE  OpeningInv'
<1> DEFINE d == Opening!Reconciled(Opening!Current, server.embedder)
<1>1. /\ server \in Server /\ server.at = "loading" /\ server.embedder \in Embedders
      /\ path.main # None
      /\ server.salvage # None => Source(db, aside, server.salvage, server.embedder)
      /\ UNCHANGED <<path, aside, json, text, deleted>>
      /\ PathOK(db, server.at, path, aside)
  BY DEF OpeningInv, ServerOK, Opening!Load, Opening!At, Present
<1>2. Recorded(d, db, aside) /\ d \in Opening!Database /\ Serves(d, server.embedder)
  BY <1>1, CurrentIs, ReconciledIs DEF Recorded
<1>3. ASSUME server'.at = "ready"
      PROVE  PathOK(db, server'.at, path', aside)
  BY <1>1, <1>3 DEF PathOK
<1>4. CASE server.salvage # None
  <2> DEFINE r == [d EXCEPT !.pointer = server.salvage, !.pointerEmbedder = server.embedder]
  <2>1. db' = [db EXCEPT ![path.main] = r] /\ Opening!Goes("ready")
    BY <1>4 DEF Opening!Load
  <2> HIDE DEF d
  <2>2. /\ r \in Opening!Database /\ r.pointer = server.salvage /\ r.pointerEmbedder = server.embedder
        /\ r.rows = d.rows /\ r.embedder = d.embedder
    BY <1>1, <1>2 DEF Opening!Database, Server
  <2> HIDE DEF r
  <2>3. Recorded(r, db, aside)
    BY <1>1, <1>2, <2>2 DEF Recorded, Fits
  <2>4. /\ server' \in Server /\ server'.at = "ready" /\ server'.embedder = server.embedder
        /\ server'.salvage = server.salvage
    BY <1>1, <2>1, StageChanges DEF OpeningStages
  <2>5. ASSUME db'[path.main] = r, \A x, e : Source(db, aside, x, e) => Source(db', aside, x, e)
        PROVE  ServerOK(db', path, aside, server')
    BY <1>1, <1>2, <2>2, <2>4, <2>5 DEF ServerOK, Serves, Present, Doomed
  <2> QED BY <1>1, <1>3, <2>1, <2>3, <2>4, <2>5, RewriteKeeps
<1>5. CASE server.salvage = None
  <2> DEFINE source == IF Opening!Rearms(d) /\ ~Opening!Foreign(d.pointer, d.library)
                       THEN d.pointer ELSE None
  <2>1. /\ db' = [db EXCEPT ![path.main] = d]
        /\ server' = [server EXCEPT !.at = "ready", !.salvage = source]
    BY <1>5 DEF Opening!Load
  <2> HIDE DEF d
  <2>2. source # None => Source(db, aside, source, server.embedder)
    BY <1>2 DEF Recorded, Opening!Rearms
  <2>3. source \in Opening!Dbs \cup {None}
    BY <1>2 DEF Opening!Database
  <2> HIDE DEF source
  <2>4. /\ server' \in Server /\ server'.at = "ready" /\ server'.embedder = server.embedder
        /\ server'.salvage = source
    BY <1>1, <2>1, <2>3 DEF Server, OpeningStages
  <2>5. ASSUME db'[path.main] = d, \A x, e : Source(db, aside, x, e) => Source(db', aside, x, e)
        PROVE  ServerOK(db', path, aside, server')
    BY <1>1, <1>2, <2>2, <2>4, <2>5 DEF ServerOK, Present, Doomed
  <2> QED BY <1>1, <1>2, <1>3, <2>1, <2>4, <2>5, RewriteKeeps
<1> QED BY <1>4, <1>5

LEMMA StartBuildKeeps ==
  ASSUME OpeningInv, NEW l \in Libraries \ {Primary}, NEW fresh \in BOOLEAN,
         Opening!StartBuild(l, fresh)
  PROVE  OpeningInv'
<1> DEFINE passages == IF Opening!Resumes(fresh) THEN Opening!Current.rows ELSE Opening!NoRows
           r == [Opening!Current EXCEPT !.library = l, !.embedder = server.embedder,
                                        !.checkpoint = server.embedder, !.rows = passages]
<1>1. /\ server \in Server /\ server.at = "ready" /\ server.embedder \in Embedders
      /\ path.main # None
      /\ server.salvage # None => Source(db, aside, server.salvage, server.embedder)
      /\ UNCHANGED <<path, aside, json, text, deleted>>
      /\ PathOK(db, server.at, path, aside)
      /\ server' = [server EXCEPT !.at = "building", !.library = l]
      /\ db \in [Opening!Dbs -> Opening!Database \cup {None}]
      /\ Serves(db[path.main], server.embedder)
  BY DEF OpeningInv, ServerOK, DbsOK, Opening!StartBuild, Opening!At, Present
<1>2. /\ Opening!Current \in Opening!Database /\ Opening!Current = db[path.main]
      /\ path.main \in Opening!Dbs /\ Fits(Opening!Current)
      /\ Recorded(Opening!Current, db, aside)
  BY <1>1, CurrentIs DEF Recorded
<1>3. db' = [db EXCEPT ![path.main] = r]
  BY <1>1, <1>2 DEF Opening!StartBuild, Opening!Current
<1>4. /\ passages \in [Keys -> Opening!Rows \cup {None}]
      /\ \/ passages = Opening!Current.rows
         \/ \A k \in Keys : passages[k] = None
  BY <1>2 DEF Opening!Database, Opening!NoRows, Opening!Resumes
<1> HIDE DEF passages
<1>5. /\ r \in Opening!Database /\ r.rows = passages /\ r.embedder = server.embedder
      /\ r.pointer = Opening!Current.pointer /\ r.pointerEmbedder = Opening!Current.pointerEmbedder
  BY <1>1, <1>2, <1>4 DEF Opening!Database
<1> HIDE DEF r
<1>6. Recorded(r, db, aside)
  BY <1>1, <1>2, <1>4, <1>5 DEF Recorded, Fits, Serves
<1>7. /\ server' \in Server /\ server'.at = "building" /\ server'.embedder = server.embedder
      /\ server'.salvage = server.salvage /\ server'.library = l
  BY <1>1 DEF Server, OpeningStages
<1>8. PathOK(db, server'.at, path', aside)
  BY <1>1, <1>7 DEF PathOK
<1>9. ASSUME db'[path.main] = r, \A x, e : Source(db, aside, x, e) => Source(db', aside, x, e)
      PROVE  ServerOK(db', path, aside, server')
  BY <1>1, <1>5, <1>7, <1>9 DEF ServerOK, Present, Doomed
<1> QED BY <1>1, <1>3, <1>6, <1>8, <1>9, RewriteKeeps

LEMMA RowIs ==
  ASSUME NEW l \in Libraries \ {Primary}, NEW t \in Texts, NEW e \in Embedders
  PROVE  /\ Opening!Row(l, t, e) \in Opening!Rows
         /\ Opening!Row(l, t, e).text = t
         /\ Opening!Row(l, t, e).vector.text = t /\ Opening!Row(l, t, e).vector.embedder = e
BY DEF Opening!Row, Opening!Rows

\* A passage's vector, adopted or computed, is of its text and of the model in use.
LEMMA IndexPassageKeeps ==
  ASSUME OpeningInv, NEW k \in Keys, Opening!IndexPassage(k)
  PROVE  OpeningInv'
<1> DEFINE t == text[server.library][k]
           fresh == Opening!Row(server.library, t, server.embedder)
           row == IF Opening!Adopts(k, t) THEN [fresh EXCEPT !.vector = db[server.salvage].rows[k].vector]
                  ELSE fresh
           passages == [Opening!Current.rows EXCEPT ![k] = row]
           r == [Opening!Current EXCEPT !.rows = passages]
           source == IF server.salvage # None /\ Opening!Foreign(server.salvage, server.library)
                     THEN None ELSE server.salvage
<1>1. /\ server \in Server /\ server.at = "building" /\ server.embedder \in Embedders
      /\ server.library \in Libraries \ {Primary} /\ path.main # None
      /\ server.salvage # None => Source(db, aside, server.salvage, server.embedder)
      /\ UNCHANGED <<path, aside, json, text, deleted>>
      /\ PathOK(db, server.at, path, aside) /\ DbsOK(db, aside)
      /\ text \in [Libraries \ {Primary} -> [Keys -> Texts]]
      /\ db[path.main].embedder = server.embedder
      /\ server' = [server EXCEPT !.salvage = source]
  BY DEF OpeningInv, ServerOK, Opening!IndexPassage, Opening!At, Present
<1>2. /\ Opening!Current \in Opening!Database /\ Opening!Current = db[path.main]
      /\ path.main \in Opening!Dbs /\ Fits(Opening!Current)
      /\ Recorded(Opening!Current, db, aside)
      /\ Opening!Current.rows \in [Keys -> Opening!Rows \cup {None}]
      /\ db \in [Opening!Dbs -> Opening!Database \cup {None}]
  BY <1>1, CurrentIs DEF Recorded, DbsOK, Opening!Database
<1>3. db' = [db EXCEPT ![path.main] = r]
  BY <1>1, <1>2 DEF Opening!IndexPassage, Opening!Current
<1>4. t \in Texts
  BY <1>1
<1> HIDE DEF t
<1>5. /\ fresh \in Opening!Rows /\ fresh.text = t
      /\ fresh.vector.text = t /\ fresh.vector.embedder = server.embedder
  BY <1>1, <1>4 DEF Opening!Row, Opening!Rows
<1> HIDE DEF fresh
<1>6. row \in Opening!Rows
      /\ (row.vector # None => row.vector.text = row.text /\ row.vector.embedder = server.embedder)
  <2>1. CASE Opening!Adopts(k, t)
    <3> DEFINE old == db[server.salvage].rows[k]
    <3>1. /\ server.salvage # None /\ old # None /\ old.text = t /\ old.vector # None
      BY <2>1 DEF Opening!Adopts, Opening!Matches
    <3>2. /\ Source(db, aside, server.salvage, server.embedder) /\ server.salvage \in Opening!Dbs
      BY <1>1, <3>1 DEF PathOK, Source
    <3>3. /\ db[server.salvage] \in Opening!Database /\ db[server.salvage].embedder = server.embedder
          /\ Fits(db[server.salvage])
      BY <1>1, <1>2, <3>2 DEF Source, DbsOK
    <3>4. /\ old \in Opening!Rows /\ old.vector.text = t /\ old.vector.embedder = server.embedder
      BY <3>1, <3>3 DEF Fits, Opening!Database
    <3>5. row = [fresh EXCEPT !.vector = old.vector]
      BY <2>1
    <3> HIDE DEF old, row
    <3>6. row \in Opening!Rows /\ row.vector = old.vector /\ row.text = t
      BY <1>5, <3>4, <3>5 DEF Opening!Rows
    <3> QED BY <3>4, <3>6
  <2>2. CASE ~Opening!Adopts(k, t)
    BY <1>5, <2>2
  <2> QED BY <2>1, <2>2
<1> HIDE DEF row
<1>7. /\ passages \in [Keys -> Opening!Rows \cup {None}] /\ passages[k] = row
      /\ \A x \in Keys \ {k} : passages[x] = Opening!Current.rows[x]
  BY <1>2, <1>6
<1> HIDE DEF passages
<1>8. /\ r \in Opening!Database /\ r.rows = passages /\ r.embedder = Opening!Current.embedder
      /\ r.pointer = Opening!Current.pointer /\ r.pointerEmbedder = Opening!Current.pointerEmbedder
  BY <1>2, <1>7 DEF Opening!Database
<1> HIDE DEF r
<1>9. Fits(r)
  BY <1>1, <1>2, <1>6, <1>7, <1>8 DEF Fits
<1>10. Recorded(r, db, aside)
  BY <1>2, <1>8, <1>9 DEF Recorded
<1>11. /\ server' \in Server /\ server'.at = "building" /\ server'.embedder = server.embedder
       /\ server'.salvage = source /\ server'.library = server.library
       /\ source \in {None, server.salvage}
  BY <1>1 DEF Server
<1> HIDE DEF source
<1>12. PathOK(db, server'.at, path', aside)
  BY <1>1, <1>11 DEF PathOK
<1>13. ASSUME db'[path.main] = r, \A x, e : Source(db, aside, x, e) => Source(db', aside, x, e)
       PROVE  ServerOK(db', path, aside, server')
  BY <1>1, <1>2, <1>8, <1>11, <1>13 DEF ServerOK, Present, Doomed
<1> QED BY <1>1, <1>3, <1>10, <1>12, <1>13, RewriteKeeps

\* So is the vector of a passage that an interrupted build left without one.
LEMMA BackfillKeeps ==
  ASSUME OpeningInv, NEW k \in Keys, Opening!Backfill(k)
  PROVE  OpeningInv'
<1> DEFINE old == Opening!Current.rows[k]
           row == Opening!Row(old.library, old.text, server.embedder)
           passages == [Opening!Current.rows EXCEPT ![k] = row]
           r == [Opening!Current EXCEPT !.rows = passages]
<1>1. /\ server \in Server /\ server.at = "building" /\ server.embedder \in Embedders
      /\ path.main # None
      /\ server.salvage # None => Source(db, aside, server.salvage, server.embedder)
      /\ UNCHANGED <<path, aside, json, text, server, deleted>>
      /\ PathOK(db, server.at, path, aside) /\ DbsOK(db, aside)
      /\ db[path.main].embedder = server.embedder
      /\ server.library \in Libraries \ {Primary}
      /\ old # None
  BY DEF OpeningInv, ServerOK, Opening!Backfill, Opening!At, Present
<1>2. /\ Opening!Current \in Opening!Database /\ Opening!Current = db[path.main]
      /\ path.main \in Opening!Dbs /\ Fits(Opening!Current)
      /\ Recorded(Opening!Current, db, aside)
      /\ Opening!Current.rows \in [Keys -> Opening!Rows \cup {None}]
      /\ db \in [Opening!Dbs -> Opening!Database \cup {None}]
  BY <1>1, CurrentIs DEF Recorded, DbsOK, Opening!Database
<1>3. db' = [db EXCEPT ![path.main] = r]
  BY <1>1, <1>2 DEF Opening!Backfill, Opening!Current
<1>4. old.library \in Libraries \ {Primary} /\ old.text \in Texts
  BY <1>1, <1>2 DEF Opening!Rows
<1> HIDE DEF old
<1>5. /\ row \in Opening!Rows /\ row.vector.text = row.text
      /\ row.vector.embedder = server.embedder
  BY <1>1, <1>4, RowIs
<1> HIDE DEF row
<1>6. /\ passages \in [Keys -> Opening!Rows \cup {None}] /\ passages[k] = row
      /\ \A x \in Keys \ {k} : passages[x] = Opening!Current.rows[x]
  BY <1>2, <1>5
<1> HIDE DEF passages
<1>7. /\ r \in Opening!Database /\ r.rows = passages /\ r.embedder = Opening!Current.embedder
      /\ r.pointer = Opening!Current.pointer /\ r.pointerEmbedder = Opening!Current.pointerEmbedder
  BY <1>2, <1>6 DEF Opening!Database
<1> HIDE DEF r
<1>8. Fits(r)
  BY <1>1, <1>2, <1>5, <1>6, <1>7 DEF Fits
<1>9. Recorded(r, db, aside)
  BY <1>2, <1>7, <1>8 DEF Recorded
<1>10. PathOK(db, server'.at, path', aside)
  BY <1>1
<1>11. ASSUME db'[path.main] = r, \A x, e : Source(db, aside, x, e) => Source(db', aside, x, e)
       PROVE  ServerOK(db', path, aside, server')
  BY <1>1, <1>2, <1>7, <1>11 DEF ServerOK, Present, Doomed
<1> QED BY <1>1, <1>3, <1>9, <1>10, <1>11, RewriteKeeps

LEMMA EndBuildKeeps ==
  ASSUME OpeningInv, Opening!EndBuild
  PROVE  OpeningInv'
<1> DEFINE r == [Opening!Current EXCEPT !.checkpoint = None]
<1>1. /\ server \in Server /\ server.at = "building" /\ server.embedder \in Embedders
      /\ path.main # None
      /\ server.salvage # None => Source(db, aside, server.salvage, server.embedder)
      /\ UNCHANGED <<path, aside, json, text, deleted>> /\ Opening!Goes("ready")
      /\ db' = [db EXCEPT ![path.main].checkpoint = None]
      /\ PathOK(db, server.at, path, aside)
      /\ db[path.main].embedder = server.embedder
  BY DEF OpeningInv, ServerOK, Opening!EndBuild, Opening!At, Present
<1>2. /\ r \in Opening!Database
      /\ r.rows = Opening!Current.rows /\ r.embedder = Opening!Current.embedder
      /\ r.pointer = Opening!Current.pointer /\ r.pointerEmbedder = Opening!Current.pointerEmbedder
  BY <1>1, CurrentIs DEF Opening!Database
<1>3. db' = [db EXCEPT ![path.main] = r]
  BY <1>1, CurrentIs
<1> HIDE DEF r
<1>4. Recorded(r, db, aside)
  BY <1>1, <1>2, CurrentIs, SameContent
<1>5. /\ server' \in Server /\ server'.at = "ready" /\ server'.embedder = server.embedder
      /\ server'.salvage = server.salvage
  BY <1>1, StageChanges DEF OpeningStages
<1>6. PathOK(db, server'.at, path', aside)
  BY <1>1, <1>5 DEF PathOK
<1>7. Serves(r, server.embedder)
  <2>1. Opening!Current = db[path.main] /\ Fits(r)
    BY <1>1, <1>4, CurrentIs DEF Recorded
  <2> QED BY <1>1, <1>2, <2>1 DEF Serves, Fits
<1>8. (/\ db'[path.main] = r
       /\ \A x, e : Source(db, aside, x, e) => Source(db', aside, x, e))
      => ServerOK(db', path, aside, server')
  BY <1>1, <1>5, <1>7 DEF ServerOK, Present, Doomed
<1> QED BY <1>1, <1>3, <1>4, <1>6, <1>8, RewriteKeeps

-----------------------------------------------------------------------------
(* The steps that move and delete.                                         *)

LEMMA MoveFirstKeeps ==
  ASSUME OpeningInv, Opening!MoveFirst
  PROVE  OpeningInv'
<1>1. /\ ServerOK(db, path, aside, server) /\ server \in Server /\ server.at = "sidelining"
      /\ UNCHANGED <<db, json, text, deleted>> /\ Opening!Goes("moving")
      /\ path' = [path EXCEPT !.log = None] /\ aside' = aside
      /\ PathOK(db, server.at, path, aside)
  BY DEF OpeningInv, ServerOK, Opening!MoveFirst, Opening!At, Opening!Order
<1>2. /\ server' \in Server /\ server'.at = "moving" /\ server'.embedder = server.embedder
      /\ server'.salvage = server.salvage
  BY <1>1, StageChanges DEF OpeningStages
<1>3. /\ path' \in [main : Opening!Dbs \cup {None}, log : Opening!Dbs \cup {None}]
      /\ path'.main = path.main /\ path'.log = None
  BY <1>1 DEF PathOK
<1>4. PathOK(db, server'.at, path', aside)
  BY <1>1, <1>2, <1>3 DEF PathOK
<1>5. ServerOK(db, path', aside, server')
  BY <1>1, <1>2, <1>3 DEF ServerOK, Present, Doomed
<1> QED BY <1>1, <1>4, <1>5, QuietKeeps

LEMMA MoveSecondKeeps ==
  ASSUME OpeningInv, Opening!MoveSecond
  PROVE  OpeningInv'
<1> DEFINE source == IF path.main # None /\ Opening!Usable(path.main) THEN path.main ELSE None
<1>1. /\ server \in Server /\ server.at = "moving" /\ server.embedder \in Embedders
      /\ path.main # None
      /\ UNCHANGED <<db, json, text, deleted>>
      /\ path' = [path EXCEPT !.main = None] /\ aside' = aside \cup {path.main}
      /\ server' = [server EXCEPT !.at = "creating", !.salvage = source]
      /\ PathOK(db, server.at, path, aside) /\ DbsOK(db, aside)
  BY DEF OpeningInv, ServerOK, Opening!MoveSecond, Opening!At, Opening!Order, Present
<1>2. /\ path' \in [main : Opening!Dbs \cup {None}, log : Opening!Dbs \cup {None}]
      /\ path'.main = None /\ path'.log = None
      /\ path.main \in Opening!Dbs /\ db[path.main] # None /\ aside \subseteq Opening!Dbs
  BY <1>1 DEF PathOK
<1>3. source \in Opening!Dbs \cup {None}
      /\ (source # None => source = path.main /\ db[source].embedder = server.embedder)
  BY <1>2 DEF Opening!Usable
<1> HIDE DEF source
<1>4. /\ server' \in Server /\ server'.at = "creating" /\ server'.embedder = server.embedder
      /\ server'.salvage = source
  BY <1>1, <1>3 DEF Server, OpeningStages
<1>5. DbsOK(db', aside')
  BY <1>1, AsideKeeps
<1>6. PathOK(db', server'.at, path', aside')
  BY <1>1, <1>2, <1>4 DEF PathOK
<1>7. ServerOK(db, path, aside, server)'
  BY <1>1, <1>2, <1>3, <1>4 DEF ServerOK, Source, Present, Doomed
<1> QED BY <1>1, <1>5, <1>6, <1>7, StepKeeps DEF OpeningInv

LEMMA DeleteFirstKeeps ==
  ASSUME OpeningInv, Opening!Delete("deleting", 1, "deleted")
  PROVE  OpeningInv'
<1>1. /\ ServerOK(db, path, aside, server) /\ server \in Server /\ server.at = "deleting"
      /\ UNCHANGED <<db, aside, json, text, deleted>>
      /\ server' = [server EXCEPT !.at = "deleted"]
      /\ path' = [path EXCEPT !.log = None]
      /\ PathOK(db, server.at, path, aside)
  BY DEF OpeningInv, ServerOK, Opening!Delete, Opening!Gone, Opening!At, Opening!Order
<1>2. /\ server' \in Server /\ server'.at = "deleted" /\ server'.embedder = server.embedder
      /\ server'.salvage = server.salvage
  BY <1>1, StageChanges DEF OpeningStages, Opening!Goes
<1>3. /\ path' \in [main : Opening!Dbs \cup {None}, log : Opening!Dbs \cup {None}]
      /\ path'.main = path.main /\ path'.log = None
  BY <1>1 DEF PathOK
<1>4. PathOK(db, server'.at, path', aside)
  BY <1>1, <1>2, <1>3 DEF PathOK
<1>5. ServerOK(db, path', aside, server')
  BY <1>1, <1>2, <1>3 DEF ServerOK, Present, Doomed
<1> QED BY <1>1, <1>4, <1>5, QuietKeeps

\* What a repair deletes is a database that this build can do nothing with.
LEMMA DeleteSecondKeeps ==
  ASSUME OpeningInv, Opening!Delete("deleted", 2, "opening")
  PROVE  OpeningInv'
<1>1. /\ ServerOK(db, path, aside, server) /\ server \in Server /\ server.at = "deleted"
      /\ UNCHANGED <<db, aside, json, text>>
      /\ server' = [server EXCEPT !.at = "opening"]
      /\ path' = [path EXCEPT !.main = None] /\ Opening!Gone("main")
      /\ PathOK(db, server.at, path, aside) /\ DbsOK(db, aside)
  BY DEF OpeningInv, ServerOK, Opening!Delete, Opening!At, Opening!Order
<1>2. /\ server' \in Server /\ server'.at = "opening" /\ server'.embedder = server.embedder
      /\ server'.salvage = server.salvage
  BY <1>1, StageChanges DEF OpeningStages, Opening!Goes
<1>3. /\ path' \in [main : Opening!Dbs \cup {None}, log : Opening!Dbs \cup {None}]
      /\ path'.main = None /\ path'.log = None
  BY <1>1 DEF PathOK
<1>4. PathOK(db', server'.at, path', aside')
  BY <1>1, <1>2, <1>3 DEF PathOK
<1>5. ServerOK(db, path, aside, server)'
  BY <1>1, <1>2, <1>3 DEF ServerOK, Source, Present, Doomed
<1>6. ASSUME NEW x \in deleted'
      PROVE  ~x.usable
  <2>1. CASE x \in deleted
    BY <2>1 DEF OpeningInv
  <2>2. CASE path.main # None /\ x.usable = Good(db[path.main])
    BY <1>1, <2>2 DEF ServerOK, Doomed
  <2> QED BY <1>1, <1>6, <2>1, <2>2 DEF Opening!Gone, Good, Opening!Current
<1> QED BY <1>1, <1>4, <1>5, <1>6, StepKeeps DEF OpeningInv

LEMMA EditKeeps ==
  ASSUME OpeningInv, NEW l \in Libraries \ {Primary}, NEW k \in Keys, NEW t \in Texts,
         Opening!Edit(l, k, t)
  PROVE  OpeningInv'
<1>1. /\ UNCHANGED <<db, path, aside, json, server, deleted>>
      /\ text' = [text EXCEPT ![l][k] = t]
  BY DEF Opening!Edit
<1>2. text' \in [Libraries \ {Primary} -> [Keys -> Texts]]
  BY <1>1 DEF OpeningInv
<1>3. DbsOK(db', aside') /\ PathOK(db', server'.at, path', aside')
  BY <1>1 DEF OpeningInv
<1>4. ServerOK(db, path, aside, server)'
  BY <1>1 DEF OpeningInv, ServerOK, Source
<1> QED BY <1>1, <1>2, <1>3, <1>4, StepKeeps DEF OpeningInv

LEMMA OpeningInvStarts ==
  ASSUME Opening!Init
  PROVE  OpeningInv
<1> DEFINE Was(s, l, e, lg, ended) ==
             /\ db = [d \in Opening!Dbs |-> IF d # 1 THEN None
                        ELSE [Opening!NewDb EXCEPT !.schema = s, !.library = l, !.embedder = e,
                                !.checkpoint = IF ended THEN None ELSE e,
                                !.rows = [k \in Keys |-> Opening!Row(l, text[l][k], e)]]]
             /\ path = [main |-> 1, log |-> lg]
<1>1. text \in [Libraries \ {Primary} -> [Keys -> Texts]]
  BY OpeningFacts DEF Opening!Init
<1>2. JsonFits
  <2> DEFINE l == CHOOSE l \in Libraries \ {Primary} : TRUE
             e == CHOOSE e \in Embedders : TRUE
             t == CHOOSE t \in Texts : TRUE
             row == Opening!Row(l, t, e)
  <2>1. ASSUME json # None
        PROVE  json \in [readable : BOOLEAN, embedder : {e},
                         checkpoint : {IF Interrupted THEN e ELSE None},
                         rows : {[k \in Keys |-> row]}]
    BY <2>1 DEF Opening!Init, Opening!Snapshots
  <2>2. l \in Libraries \ {Primary} /\ e \in Embedders /\ t \in Texts
    BY OpeningFacts
  <2>3. /\ row \in Opening!Rows /\ row.text = t /\ row.vector.text = t /\ row.vector.embedder = e
    BY <2>2, RowIs
  <2> HIDE DEF l, t, row
  <2> QED BY <2>1, <2>2, <2>3, OpeningFacts DEF JsonFits, Fits
<1>3. /\ aside = {} /\ deleted = {}
      /\ server = [at |-> "down", embedder |-> None, existed |-> FALSE, faulted |-> FALSE,
                   files |-> {}, salvage |-> None, library |-> None]
  BY DEF Opening!Init
<1>4. server \in Server /\ server.at = "down" /\ server.salvage = None
  BY <1>3 DEF Server, OpeningStages
<1>5. ServerOK(db, path, aside, server)
  BY <1>4 DEF ServerOK, Present, Doomed
<1>6. CASE db = [d \in Opening!Dbs |-> None] /\ path = [main |-> None, log |-> None]
  <2>1. DbsOK(db, aside) /\ PathOK(db, server.at, path, aside)
    BY <1>3, <1>6 DEF DbsOK, PathOK
  <2> QED BY <1>1, <1>2, <1>3, <1>5, <2>1 DEF OpeningInv
<1>7. ASSUME NEW s \in Opening!Schemas \ {"fresh"}, NEW l \in Libraries \ {Primary}, NEW e \in Embedders,
             NEW lg \in {None, 1}, NEW ended \in BOOLEAN, Was(s, l, e, lg, ended)
      PROVE  OpeningInv
  <2> DEFINE passages == [k \in Keys |-> Opening!Row(l, text[l][k], e)]
             r == [Opening!NewDb EXCEPT !.schema = s, !.library = l, !.embedder = e,
                                     !.checkpoint = IF ended THEN None ELSE e, !.rows = passages]
  <2>1. \A k \in Keys :
          /\ passages[k] \in Opening!Rows /\ passages[k].vector.text = passages[k].text
          /\ passages[k].vector.embedder = e
    BY <1>1, RowIs
  <2>2. passages \in [Keys -> Opening!Rows \cup {None}]
    BY <2>1
  <2>3. db = [d \in Opening!Dbs |-> IF d # 1 THEN None ELSE r]
    BY <1>7
  <2> HIDE DEF passages
  <2>4. r \in Opening!Database /\ r.rows = passages /\ r.embedder = e /\ r.pointer = None
    <3>1. Opening!NewDb \in Opening!Database /\ Opening!NewDb.pointer = None
      BY NewDbIs DEF Opening!NewDb
    <3> QED BY <2>2, <3>1 DEF Opening!Database
  <2> HIDE DEF r
  <2>5. Fits(r)
    BY <2>1, <2>4 DEF Fits
  <2>6. DbsOK(db, aside)
    BY <2>3, <2>4, <2>5 DEF DbsOK
  <2>7. PathOK(db, server.at, path, aside)
    <3>1. db[1] = r /\ r # None
      BY <2>3, <2>4, OpeningFacts
    <3> QED BY <1>3, <1>4, <1>7, <3>1, OpeningFacts DEF PathOK
  <2> QED BY <1>1, <1>2, <1>3, <1>5, <2>6, <2>7 DEF OpeningInv
<1>8. CASE ~(db = [d \in Opening!Dbs |-> None] /\ path = [main |-> None, log |-> None])
  <2>1. \E s \in Opening!Schemas \ {"fresh"}, l \in Libraries \ {Primary}, e \in Embedders,
           lg \in {None, 1}, ended \in BOOLEAN : Was(s, l, e, lg, ended)
    BY <1>8 DEF Opening!Init
  <2> HIDE DEF Was
  <2> QED BY <1>7, <2>1
<1> QED BY <1>6, <1>8

LEMMA OpeningInvKept ==
  ASSUME OpeningInv, [Opening!Next]_openingVars
  PROVE  OpeningInv'
<1>1. CASE Opening!Next
  <2>1. ASSUME NEW e \in Embedders, Opening!Open(e)
        PROVE  OpeningInv'
    BY <2>1, OpenPathKeeps
  <2>2. CASE \/ Opening!Probe \/ Opening!Migrate \/ Opening!MigrationFails \/ Opening!MoveFirst
             \/ Opening!MoveSecond \/ Opening!MoveFails
    BY <2>2, ProbeKeeps, MigrateKeeps, MigrationFailsKeeps, MoveFirstKeeps, MoveSecondKeeps,
       MoveFailsKeeps
  <2>3. CASE \/ Opening!Create \/ Opening!CreateSchema \/ Opening!OpenFails \/ Opening!ImportJson
             \/ Opening!Load
    BY <2>3, CreateKeeps, CreateSchemaKeeps, FaultsKeep, ImportJsonKeeps, LoadKeeps
  <2>4. ASSUME NEW l \in Libraries \ {Primary}, NEW fresh \in BOOLEAN, Opening!StartBuild(l, fresh)
        PROVE  OpeningInv'
    BY <2>4, StartBuildKeeps
  <2>5. ASSUME NEW k \in Keys, Opening!IndexPassage(k) \/ Opening!Backfill(k)
        PROVE  OpeningInv'
    BY <2>5, IndexPassageKeeps, BackfillKeeps
  <2>6. CASE \/ Opening!EndBuild \/ Opening!NoteCorruption \/ Opening!Repair \/ Opening!DeleteFails
             \/ Opening!Close \/ Opening!Crash
    BY <2>6, EndBuildKeeps, FaultsKeep, RepairKeeps, DeleteFailsKeeps, StopsKeep
  <2>7. CASE Opening!Delete("deleting", 1, "deleted") \/ Opening!Delete("deleted", 2, "opening")
    BY <2>7, DeleteFirstKeeps, DeleteSecondKeeps
  <2>8. ASSUME NEW s \in {"older", "newer"}, Opening!Damage \/ Opening!OtherBuild(s)
        PROVE  OpeningInv'
    BY <2>8, SurroundingsKeep
  <2>9. ASSUME NEW l \in Libraries \ {Primary}, NEW k \in Keys, NEW t \in Texts, Opening!Edit(l, k, t)
        PROVE  OpeningInv'
    BY <2>9, EditKeeps
  <2> QED BY <1>1, <2>1, <2>2, <2>3, <2>4, <2>5, <2>6, <2>7, <2>8, <2>9 DEF Opening!Next
<1>2. CASE UNCHANGED openingVars
  <2>1. UNCHANGED <<db, path, aside, json, text, server, deleted>>
    BY <1>2 DEF openingVars
  <2>2. DbsOK(db', aside') /\ PathOK(db', server'.at, path', aside')
    BY <2>1 DEF OpeningInv
  <2>3. ServerOK(db, path, aside, server)'
    BY <2>1 DEF OpeningInv, ServerOK, Source
  <2> QED BY <2>1, <2>2, <2>3, StepKeeps DEF OpeningInv
<1> QED BY <1>1, <1>2

-----------------------------------------------------------------------------
(* The usage log.                                                          *)

Window == RetentionDays * DayLength

LEMMA UsageFacts ==
  /\ Window \in Nat /\ Window >= 1 /\ MaxRows \in Nat
  /\ DayLength \in Nat /\ RetentionDays \in Nat
<1>1. DayLength \in Nat \ {0} /\ RetentionDays \in Nat \ {0} /\ MaxRows \in Nat
  BY StoresAssumption DEF Usage!UsageAssumption
<1>2. Window \in Nat /\ Window >= 1
  BY <1>1 DEF Window
<1> QED BY <1>1, <1>2

Event == [n : Nat, at : Nat]
Young(e, t) == e.at + Window >= t

Worker == [at : {"closed", "opened", "open", "scanned", "reporting", "closing", "rolled"},
           pending : Seq(Event), scan : SUBSET Event]

\* Between its scan and its pruning.
Reading(s) == s.at \in {"scanned", "rolled"}

Buffer(s) == {s.pending[i] : i \in 1..Len(s.pending)}
Table(t) == {t[i] : i \in DOMAIN t}
Left(t, s) == {i \in DOMAIN t : t[i] \notin s.scan}

TableOK(t) ==
  /\ \A i \in DOMAIN t : t[i] \in Event
  /\ \E last \in Nat : DOMAIN t \subseteq 1..last

\* The rows that a scan has left are the last ones, young, and few enough to be kept.
LeftOK(t, s, at) ==
  /\ \A i \in Left(t, s) : Young(t[i], at)
  /\ \A i \in DOMAIN t \ Left(t, s), j \in Left(t, s) : i < j
  /\ Cardinality(Left(t, s)) <= MaxRows

\* What waits in a buffer is young, and has been written and read by nobody.
BufferOK(workers, t, p, at) ==
  /\ \A e \in Buffer(workers[p]) : Young(e, at)
  /\ Buffer(workers[p]) \cap Table(t) = {}
  /\ \A q \in Procs : /\ Buffer(workers[p]) \cap workers[q].scan = {}
                      /\ q # p => Buffer(workers[p]) \cap Buffer(workers[q]) = {}

\* The events so far: whose numbers are taken.
Past(events, number) == \A e \in events : e.n < number

UsageInv ==
  /\ now \in Nat /\ made \in Nat /\ log \in [Procs -> Worker]
  /\ TableOK(rows) /\ Past(Table(rows), made)
  /\ \A p \in Procs :
       /\ Past(Buffer(log[p]), made) /\ Past(log[p].scan, made)
       /\ BufferOK(log, rows, p, now)
       /\ Reading(log[p]) => LeftOK(rows, log[p], now)
       /\ log[p].at = "rolled" => log[p].scan \subseteq counted
       /\ ~readable => log[p].at = "closed"
  /\ readable \in BOOLEAN
  /\ pruned \subseteq counted

LEMMA NextIdIs ==
  ASSUME TableOK(rows)
  PROVE  Usage!NextId \in Nat \ {0} /\ \A j \in DOMAIN rows : j \in Nat \ {0} /\ j < Usage!NextId
<1>1. PICK last \in Nat : DOMAIN rows \subseteq 1..last
  BY DEF TableOK
<1> DEFINE bounds == {b \in Nat : \A j \in DOMAIN rows : j <= b}
<1>2. last \in bounds
  BY <1>1
<1>3. PICK b \in bounds : \A c \in bounds : b <= c
  <2>1. bounds \subseteq Nat /\ bounds # {}
    BY <1>2
  <2> HIDE DEF bounds
  <2>2. PICK b \in bounds : \A c \in bounds : ~(<<c, b>> \in OpToRel(<, Nat))
    BY <2>1, NatLessThanWellFounded, WFMin
  <2>3. \A c \in bounds : ~(c < b)
    BY <2>1, <2>2 DEF OpToRel
  <2> QED BY <2>1, <2>3
<1>4. DOMAIN rows = {} \/ b \in DOMAIN rows
  <2>1. SUFFICES ASSUME b \notin DOMAIN rows, DOMAIN rows # {}
                 PROVE  FALSE
    OBVIOUS
  <2>2. b >= 1 /\ b - 1 \in Nat
    BY <1>1, <2>1
  <2>3. b - 1 \in bounds
    BY <1>1, <2>1, <2>2
  <2> QED BY <1>3, <2>2, <2>3
<1> DEFINE next == IF DOMAIN rows = {} THEN 1 ELSE b + 1
           set == {1} \cup {j + 1 : j \in DOMAIN rows}
<1>5. next \in set /\ \A j \in DOMAIN rows : j < next
  BY <1>1, <1>3, <1>4
<1>6. Usage!NextId = CHOOSE i \in set : \A j \in DOMAIN rows : j < i
  BY DEF Usage!NextId
<1> HIDE DEF next, set
<1>7. Usage!NextId \in set /\ \A j \in DOMAIN rows : j < Usage!NextId
  BY <1>5, <1>6
<1> QED BY <1>1, <1>7 DEF set

Elements(b) == {b[i] : i \in 1..Len(b)}

LEMMA TableFinite ==
  ASSUME NEW t, TableOK(t), NEW S, S \subseteq DOMAIN t
  PROVE  IsFiniteSet(S) /\ Cardinality(S) \in Nat
<1>1. PICK last \in Nat : DOMAIN t \subseteq 1..last
  BY DEF TableOK
<1>2. IsFiniteSet(1..last)
  BY FS_Interval
<1> QED BY <1>1, <1>2, FS_Subset, FS_CardinalityType

\* What the table is once a buffer was written into it.
Grown(t, b) ==
  /\ TableOK(t)
  /\ DOMAIN rows \subseteq DOMAIN t /\ \A i \in DOMAIN rows : t[i] = rows[i]
  /\ \A i \in DOMAIN t \ DOMAIN rows : t[i] \in Elements(b) /\ \A j \in DOMAIN rows : j < i
  /\ Table(t) = Table(rows) \cup Elements(b)
  /\ Cardinality(DOMAIN t \ DOMAIN rows) <= Len(b)

LEMMA WriteGrows ==
  ASSUME TableOK(rows), NEW b \in Seq(Event), Usage!WriteBuffer(b, TRUE)
  PROVE  Grown(rows', b)
<1> DEFINE first == Usage!NextId
           new == first..(first + Len(b) - 1)
           t == [i \in DOMAIN rows \cup new |-> IF i \in DOMAIN rows THEN rows[i] ELSE b[i - first + 1]]
<1>1. rows' = t
  BY DEF Usage!WriteBuffer
<1>2. first \in Nat \ {0} /\ (\A j \in DOMAIN rows : j \in Nat \ {0} /\ j < first) /\ Len(b) \in Nat
  BY NextIdIs
<1> HIDE DEF first
<1>3. \A i \in new : i \in Nat \ {0} /\ i \notin DOMAIN rows /\ i - first + 1 \in 1..Len(b)
  BY <1>2
<1>4. \A i \in 1..Len(b) : first + i - 1 \in new /\ (first + i - 1) - first + 1 = i
  BY <1>2
<1>5. IsFiniteSet(new) /\ Cardinality(new) <= Len(b)
  <2>1. first \in Int /\ first + Len(b) - 1 \in Int
    BY <1>2
  <2>2. /\ IsFiniteSet(new)
        /\ Cardinality(new) = IF first > first + Len(b) - 1 THEN 0 ELSE (first + Len(b) - 1) - first + 1
    BY <2>1, FS_Interval
  <2> QED BY <1>2, <2>2
<1>6. \A i \in 1..Len(b) : b[i] \in Event
  OBVIOUS
<1>7. DOMAIN t = DOMAIN rows \cup new
  OBVIOUS
<1>8. \A i \in DOMAIN rows : t[i] = rows[i]
  OBVIOUS
<1>9. \A i \in new : t[i] = b[i - first + 1]
  BY <1>3
<1> HIDE DEF t
<1>10. TableOK(t)
  <2>1. PICK last \in Nat : DOMAIN rows \subseteq 1..last
    BY DEF TableOK
  <2>2. /\ last + first + Len(b) \in Nat
        /\ DOMAIN t \subseteq 1..(last + first + Len(b))
    BY <1>2, <1>7, <2>1
  <2>3. \A i \in DOMAIN t : t[i] \in Event
    BY <1>3, <1>6, <1>7, <1>8, <1>9 DEF TableOK
  <2> QED BY <2>2, <2>3 DEF TableOK
<1>11. DOMAIN t \ DOMAIN rows = new
  BY <1>3, <1>7
<1>12. ASSUME NEW i \in new
       PROVE  t[i] \in Elements(b) /\ \A j \in DOMAIN rows : j < i
  <2>1. \A j \in DOMAIN rows : j < i
    BY <1>2
  <2>2. PICK x \in 1..Len(b) : t[i] = b[x]
    BY <1>3, <1>9
  <2> QED BY <2>1, <2>2 DEF Elements
<1>13. Table(t) = Table(rows) \cup Elements(b)
  <2>1. ASSUME NEW i \in 1..Len(b)
        PROVE  b[i] \in Table(t)
    <3>1. first + i - 1 \in DOMAIN t /\ t[first + i - 1] = b[i]
      BY <1>4, <1>7, <1>9
    <3> QED BY <3>1 DEF Table
  <2>2. Table(rows) \subseteq Table(t)
    BY <1>7, <1>8 DEF Table
  <2>3. Table(t) \subseteq Table(rows) \cup Elements(b)
    BY <1>7, <1>8, <1>12 DEF Table
  <2> QED BY <2>1, <2>2, <2>3 DEF Elements
<1> HIDE DEF new
<1> QED BY <1>1, <1>5, <1>7, <1>8, <1>10, <1>11, <1>12, <1>13 DEF Grown

LEMMA LeftGrows ==
  ASSUME NEW t, NEW b \in Seq(Event), TableOK(rows), Grown(t, b), NEW s, NEW at,
         LeftOK(rows, s, at), Elements(b) \cap s.scan = {}, \A e \in Elements(b) : Young(e, at),
         Cardinality(Left(rows, s)) + Len(b) <= MaxRows
  PROVE  LeftOK(t, s, at)
<1> DEFINE new == DOMAIN t \ DOMAIN rows
           old == Left(rows, s)
<1>1. Left(t, s) = old \cup new /\ old \subseteq DOMAIN rows
  BY DEF Grown, Left
<1>2. \A i \in Left(t, s) : Young(t[i], at)
  BY <1>1 DEF Grown, LeftOK
<1>3. \A i \in DOMAIN t \ Left(t, s), j \in Left(t, s) : i < j
  BY <1>1 DEF Grown, LeftOK
<1>4. /\ IsFiniteSet(old) /\ Cardinality(old) \in Nat
      /\ IsFiniteSet(new) /\ Cardinality(new) \in Nat
      /\ Cardinality(old \cap new) \in Nat
  BY <1>1, TableFinite DEF Grown
<1>5. Cardinality(old \cup new) = Cardinality(old) + Cardinality(new) - Cardinality(old \cap new)
  BY <1>4, FS_Union
<1>6. Cardinality(new) <= Len(b) /\ Len(b) \in Nat
  BY DEF Grown
<1>7. Cardinality(Left(t, s)) <= MaxRows
  <2> HIDE DEF old, new
  <2>1. Cardinality(old) + Len(b) <= MaxRows
    BY DEF old
  <2> QED BY <1>1, <1>4, <1>5, <1>6, <2>1, UsageFacts
<1> QED BY <1>2, <1>3, <1>7 DEF LeftOK

-----------------------------------------------------------------------------
(* The steps of one process.                                               *)

LEMMA BufferIs ==
  ASSUME UsageInv, NEW p \in Procs
  PROVE  /\ log[p] \in Worker /\ log[p].pending \in Seq(Event)
         /\ Buffer(log[p]) = Elements(log[p].pending)
         /\ Buffer(log[p]) \subseteq Event
BY DEF UsageInv, Worker, Buffer, Elements

\* What the table t, the clock and the other processes ask of p's state s.
Beside(s, p, t) ==
  /\ \A e \in Buffer(s) : Young(e, now)
  /\ Buffer(s) \cap Table(t) = {} /\ Buffer(s) \cap s.scan = {}
  /\ Reading(s) => LeftOK(t, s, now)
  /\ \A q \in Procs \ {p} :
       /\ Buffer(s) \cap log[q].scan = {} /\ Buffer(s) \cap Buffer(log[q]) = {}
       /\ Buffer(log[q]) \cap Table(t) = {} /\ Buffer(log[q]) \cap s.scan = {}
       /\ Reading(log[q]) => LeftOK(t, log[q], now)

LEMMA ProcessKeeps ==
  ASSUME UsageInv, NEW p \in Procs, NEW s \in Worker, log' = [log EXCEPT ![p] = s],
         now' = now, made' \in Nat, made' >= made,
         TableOK(rows'), Past(Table(rows'), made'),
         Past(Buffer(s), made'), Past(s.scan, made'), Beside(s, p, rows'),
         s.at = "rolled" => s.scan \subseteq counted',
         \A q \in Procs \ {p} : log[q].at = "rolled" => log[q].scan \subseteq counted',
         readable' \in BOOLEAN, ~readable' => ~readable /\ s.at = "closed",
         pruned' \subseteq counted'
  PROVE  UsageInv'
<1>1. log' \in [Procs -> Worker] /\ log'[p] = s /\ \A q \in Procs \ {p} : log'[q] = log[q]
  BY DEF UsageInv
<1>2. ASSUME NEW q \in Procs
      PROVE  Past(Buffer(log'[q]), made') /\ Past(log'[q].scan, made')
  <2>1. CASE q = p
    BY <1>1, <2>1
  <2>2. CASE q # p
    <3>1. log'[q] = log[q] /\ log[q] \in Worker /\ Buffer(log[q]) \subseteq Event /\ made \in Nat
      BY <1>1, <2>2, BufferIs DEF UsageInv
    <3>2. Past(Buffer(log[q]), made) /\ Past(log[q].scan, made) /\ log[q].scan \subseteq Event
      BY <3>1 DEF UsageInv, Worker
    <3> QED BY <3>1, <3>2 DEF Past, Event
  <2> QED BY <2>1, <2>2
<1>3. ASSUME NEW q \in Procs
      PROVE  BufferOK(log', rows', q, now')
  <2>1. CASE q = p
    BY <1>1, <2>1 DEF Beside, BufferOK
  <2>2. CASE q # p
    <3>1. BufferOK(log, rows, q, now) /\ log'[q] = log[q]
      BY <1>1, <2>2 DEF UsageInv
    <3>2. \A e \in Buffer(log'[q]) : Young(e, now')
      BY <3>1 DEF BufferOK
    <3>3. Buffer(log'[q]) \cap Table(rows') = {}
      BY <2>2, <3>1 DEF Beside
    <3>4. ASSUME NEW x \in Procs
          PROVE  /\ Buffer(log'[q]) \cap log'[x].scan = {}
                 /\ x # q => Buffer(log'[q]) \cap Buffer(log'[x]) = {}
      BY <1>1, <2>2, <3>1 DEF Beside, BufferOK
    <3> QED BY <3>2, <3>3, <3>4 DEF BufferOK
  <2> QED BY <2>1, <2>2
<1>4. ASSUME NEW q \in Procs
      PROVE  /\ Reading(log'[q]) => LeftOK(rows', log'[q], now')
             /\ log'[q].at = "rolled" => log'[q].scan \subseteq counted'
             /\ ~readable' => log'[q].at = "closed"
  BY <1>1 DEF Beside, UsageInv
<1>5. now' \in Nat
  BY DEF UsageInv
<1> QED BY <1>1, <1>2, <1>3, <1>4, <1>5 DEF UsageInv

\* A process that writes no rows, waits with nothing new and reads nothing new.
LEMMA IdleKeeps ==
  ASSUME UsageInv, NEW p \in Procs, NEW s \in Worker, log' = [log EXCEPT ![p] = s],
         now' = now, made' \in Nat, made' >= made, rows' = rows,
         Buffer(s) \subseteq Buffer(log[p]), s.scan \subseteq log[p].scan,
         Reading(s) => Reading(log[p]) /\ s.scan = log[p].scan,
         s.at = "rolled" => s.scan \subseteq counted',
         counted \subseteq counted', readable' = readable, ~readable => s.at = "closed",
         pruned' = pruned
  PROVE  UsageInv'
<1>1. /\ BufferOK(log, rows, p, now) /\ Past(Buffer(log[p]), made) /\ Past(log[p].scan, made)
      /\ made \in Nat /\ TableOK(rows) /\ Past(Table(rows), made) /\ Buffer(log[p]) \subseteq Event
      /\ log[p].scan \subseteq Event /\ Table(rows) \subseteq Event
  <2>1. Table(rows) \subseteq Event
    BY DEF UsageInv, Table, TableOK
  <2> QED BY <2>1, BufferIs DEF UsageInv, Worker
<1>2. TableOK(rows') /\ Past(Table(rows'), made') /\ Past(Buffer(s), made') /\ Past(s.scan, made')
  BY <1>1 DEF Past, Event
<1>3. Reading(s) => LeftOK(rows', s, now)
  <2>1. Reading(s) => Left(rows, s) = Left(rows, log[p]) /\ LeftOK(rows, log[p], now)
    BY DEF UsageInv, Left
  <2> QED BY <2>1 DEF LeftOK
<1>4. ASSUME NEW q \in Procs \ {p}
      PROVE  /\ Buffer(s) \cap log[q].scan = {} /\ Buffer(s) \cap Buffer(log[q]) = {}
             /\ Buffer(log[q]) \cap Table(rows') = {} /\ Buffer(log[q]) \cap s.scan = {}
             /\ Reading(log[q]) => LeftOK(rows', log[q], now)
  BY <1>1 DEF UsageInv, BufferOK
<1>5. Beside(s, p, rows')
  BY <1>1, <1>3, <1>4 DEF Beside, BufferOK
<1>6. pruned' \subseteq counted' /\ readable' \in BOOLEAN
      /\ \A q \in Procs \ {p} : log[q].at = "rolled" => log[q].scan \subseteq counted'
  BY DEF UsageInv
<1> QED BY <1>2, <1>5, <1>6, ProcessKeeps

LEMMA CrashKeeps ==
  ASSUME UsageInv, NEW p \in Procs, Usage!Crash(p)
  PROVE  UsageInv'
<1> DEFINE s == Usage!Closed
<1>1. /\ log' = [log EXCEPT ![p] = s] /\ UNCHANGED <<now, rows, readable, made, counted, pruned>>
  BY DEF Usage!Crash
<1>2. s \in Worker /\ Buffer(s) = {} /\ s.scan = {} /\ s.at = "closed"
  BY DEF Usage!Closed, Worker, Buffer
<1> HIDE DEF s
<1>3. ~Reading(s) /\ s.at # "rolled"
  BY <1>2 DEF Reading
<1>4. /\ Buffer(s) \subseteq Buffer(log[p]) /\ s.scan \subseteq log[p].scan
      /\ made' \in Nat /\ made' >= made /\ counted \subseteq counted'
  BY <1>1, <1>2 DEF UsageInv
<1> QED BY <1>1, <1>2, <1>3, <1>4, IdleKeeps

LEMMA WriteRollupKeeps ==
  ASSUME UsageInv, NEW p \in Procs, Usage!WriteRollup(p)
  PROVE  UsageInv'
<1>1. PICK ok \in BOOLEAN :
        /\ counted' = IF ok THEN counted \cup log[p].scan ELSE counted
        /\ log' = [log EXCEPT ![p] =
                     IF log[p].at = "closing" THEN Usage!Closed
                     ELSE [log[p] EXCEPT !.at = Usage!AfterRollup(log[p].at, ok),
                             !.scan = IF Usage!AfterRollup(log[p].at, ok) = "rolled"
                                      THEN log[p].scan ELSE {}]]
  BY DEF Usage!WriteRollup
<1>2. /\ UNCHANGED <<now, rows, readable, made, pruned>>
      /\ log[p].at \in {"scanned", "reporting", "closing"} /\ log[p] \in Worker /\ made \in Nat
      /\ readable \in BOOLEAN /\ readable
  BY DEF Usage!WriteRollup, UsageInv
<1> DEFINE at == Usage!AfterRollup(log[p].at, ok)
<1>3. at \in {"open", "rolled"} /\ (at = "rolled" => ok /\ log[p].at = "scanned")
  BY DEF Usage!AfterRollup
<1>4. CASE log[p].at = "closing"
  <2>1. /\ Usage!Closed \in Worker /\ Buffer(Usage!Closed) = {} /\ Usage!Closed.scan = {}
        /\ Usage!Closed.at = "closed"
    BY DEF Usage!Closed, Worker, Buffer
  <2>2. log' = [log EXCEPT ![p] = Usage!Closed] /\ counted \subseteq counted' /\ made' >= made
        /\ ~Reading(Usage!Closed)
    BY <1>1, <1>2, <1>4, <2>1 DEF Reading
  <2> QED BY <1>2, <2>1, <2>2, IdleKeeps
<1>5. CASE log[p].at # "closing"
  <2> DEFINE scan == IF at = "rolled" THEN log[p].scan ELSE {}
             s == [log[p] EXCEPT !.at = at, !.scan = scan]
  <2>1. log' = [log EXCEPT ![p] = s]
    BY <1>1, <1>5
  <2> HIDE DEF at
  <2>2. scan \subseteq log[p].scan /\ (at = "rolled" => scan = log[p].scan)
    OBVIOUS
  <2> HIDE DEF scan
  <2>3. s \in Worker /\ s.at = at /\ s.scan = scan /\ s.pending = log[p].pending
    BY <1>2, <1>3, <2>2 DEF Worker
  <2> HIDE DEF s
  <2>4. Buffer(s) = Buffer(log[p])
    BY <2>3 DEF Buffer
  <2>5. counted \subseteq counted' /\ (s.at = "rolled" => s.scan \subseteq counted')
    BY <1>1, <1>3, <2>2, <2>3
  <2>6. Reading(s) => Reading(log[p]) /\ s.scan = log[p].scan
    BY <1>3, <2>2, <2>3 DEF Reading
  <2>7. Buffer(s) \subseteq Buffer(log[p]) /\ s.scan \subseteq log[p].scan /\ made' \in Nat /\ made' >= made
    BY <1>2, <2>2, <2>3, <2>4
  <2> QED BY <1>2, <2>1, <2>3, <2>5, <2>6, <2>7, IdleKeeps
<1> QED BY <1>4, <1>5

LEMMA OpenLogKeeps ==
  ASSUME UsageInv, NEW p \in Procs, Usage!Open(p)
  PROVE  UsageInv'
<1>1. PICK opens_ \in BOOLEAN :
        /\ readable => opens_
        /\ log' = [log EXCEPT ![p].at = IF opens_ THEN "opened" ELSE @]
        /\ IF ~readable /\ opens_
             THEN /\ readable' = TRUE /\ rows' = Usage!EmptyTable
                  /\ counted' = {} /\ pruned' = {}
             ELSE UNCHANGED <<readable, rows, counted, pruned>>
  BY DEF Usage!Open
<1>2. /\ UNCHANGED <<now, made>> /\ log[p].at = "closed" /\ log[p] \in Worker /\ made \in Nat
      /\ log \in [Procs -> Worker] /\ readable \in BOOLEAN
  BY DEF Usage!Open, UsageInv
<1> DEFINE at == IF opens_ THEN "opened" ELSE log[p].at
           s == [log[p] EXCEPT !.at = at]
<1>3. log' = [log EXCEPT ![p] = s]
  BY <1>1, <1>2
<1>4. at \in {"opened", "closed"} /\ (~opens_ => at = "closed")
  BY <1>2
<1> HIDE DEF at
<1>5. s \in Worker /\ s.at = at /\ s.scan = log[p].scan /\ Buffer(s) = Buffer(log[p])
  BY <1>2, <1>4 DEF Worker, Buffer
<1> HIDE DEF s
<1>6. CASE ~(~readable /\ opens_)
  <2>1. UNCHANGED <<readable, rows, counted, pruned>> /\ (~readable => s.at = "closed")
    BY <1>1, <1>4, <1>5, <1>6
  <2>2. ~Reading(s) /\ s.at # "rolled"
    BY <1>4, <1>5 DEF Reading
  <2>3. /\ Buffer(s) \subseteq Buffer(log[p]) /\ s.scan \subseteq log[p].scan /\ made' \in Nat /\ made' >= made
        /\ counted \subseteq counted'
    BY <1>2, <1>5, <2>1
  <2> QED BY <1>2, <1>3, <1>5, <2>1, <2>2, <2>3, IdleKeeps
<1>7. CASE ~readable /\ opens_
  <2>1. readable' = TRUE /\ rows' = Usage!EmptyTable /\ counted' = {} /\ pruned' = {}
    BY <1>1, <1>7
  <2>2. TableOK(rows') /\ Table(rows') = {}
    BY <2>1 DEF Usage!EmptyTable, TableOK, Table
  <2>3. \A q \in Procs : log[q].at = "closed" /\ BufferOK(log, rows, q, now)
    BY <1>7 DEF UsageInv
  <2>4. Beside(s, p, rows')
    BY <1>4, <1>5, <2>2, <2>3 DEF Beside, BufferOK, Reading
  <2>5. Past(Table(rows'), made') /\ Past(Buffer(s), made') /\ Past(s.scan, made')
    BY <1>2, <1>5, <2>2 DEF UsageInv, Past
  <2>6. s.at # "rolled" /\ \A q \in Procs \ {p} : log[q].at # "rolled"
    BY <1>4, <1>5, <2>3
  <2>7. made' \in Nat /\ made' >= made /\ readable' /\ readable' \in BOOLEAN /\ pruned' \subseteq counted'
    BY <1>2, <2>1
  <2> QED BY <1>2, <1>3, <1>5, <2>2, <2>4, <2>5, <2>6, <2>7, ProcessKeeps
<1> QED BY <1>6, <1>7

LEMMA RestKeeps ==
  ASSUME UsageInv, Usage!Tick \/ Usage!ClockSetBack \/ Usage!BecomesUnreadable
  PROVE  UsageInv'
<1>1. /\ UNCHANGED <<log, rows, made, counted, pruned>> /\ now \in Nat
  BY DEF UsageInv, Usage!Tick, Usage!ClockSetBack, Usage!BecomesUnreadable
<1>2. /\ now' \in Nat
      /\ readable' \in BOOLEAN
      /\ (~readable' => ~readable \/ \A p \in Procs : log[p].at = "closed")
  <2>1. now' \in {now, now + 1} \/ (now > 0 /\ now' = now - 1)
    BY DEF Usage!Tick, Usage!ClockSetBack, Usage!BecomesUnreadable
  <2>2. readable' = readable \/ (readable' = FALSE /\ \A p \in Procs : log[p].at = "closed")
    BY DEF Usage!Tick, Usage!ClockSetBack, Usage!BecomesUnreadable
  <2>3. readable \in BOOLEAN
    BY DEF UsageInv
  <2>4. now' \in Nat
    BY <1>1, <2>1
  <2>5. readable' \in BOOLEAN
    BY <2>2, <2>3
  <2>6. ~readable' => ~readable \/ \A p \in Procs : log[p].at = "closed"
    BY <2>2, Zenon
  <2> QED BY <2>4, <2>5, <2>6, Zenon
<1>3. ASSUME NEW p \in Procs
      PROVE  /\ \A e \in Buffer(log[p]) : Young(e, now')
             /\ Reading(log[p]) => LeftOK(rows, log[p], now')
  <2>1. /\ BufferOK(log, rows, p, now) /\ (Reading(log[p]) => LeftOK(rows, log[p], now))
        /\ Buffer(log[p]) \subseteq Event /\ TableOK(rows)
    BY BufferIs DEF UsageInv
  <2>2. CASE Usage!Tick
    <3>1. log[p].at \in {"closed", "open"} /\ ~Reading(log[p])
      BY <2>2 DEF Usage!Tick, Reading
    <3>2. ASSUME NEW e \in Buffer(log[p])
          PROVE  e.at + RetentionDays * DayLength > now'
      <4>1. PICK i \in 1..Len(log[p].pending) : e = log[p].pending[i]
        BY DEF Buffer
      <4>2. e \in Usage!Range(log[p].pending)
        BY <4>1, BufferIs DEF Usage!Range
      <4> QED BY <2>2, <4>2 DEF Usage!Tick
    <3>3. \A e \in Buffer(log[p]) : Young(e, now')
      BY <1>2, <2>1, <3>2, UsageFacts DEF Young, Window, Event
    <3> QED BY <3>1, <3>3
  <2>3. CASE now' <= now
    <3>1. \A e \in Event : Young(e, now) => Young(e, now')
      BY <1>1, <1>2, <2>3, UsageFacts DEF Young, Event
    <3>2. \A i \in Left(rows, log[p]) : rows[i] \in Event
      BY <2>1 DEF TableOK, Left
    <3> QED BY <2>1, <3>1, <3>2 DEF BufferOK, LeftOK
  <2> QED BY <1>1, <2>2, <2>3 DEF Usage!ClockSetBack, Usage!BecomesUnreadable
<1>4. ASSUME NEW p \in Procs
      PROVE  BufferOK(log, rows, p, now')
  BY <1>3 DEF UsageInv, BufferOK
<1>5. ASSUME NEW p \in Procs
      PROVE  ~readable' => log[p].at = "closed"
  BY <1>2 DEF UsageInv
<1>6. ASSUME NEW p \in Procs
      PROVE  /\ Past(Buffer(log'[p]), made') /\ Past(log'[p].scan, made')
             /\ BufferOK(log', rows', p, now')
             /\ Reading(log'[p]) => LeftOK(rows', log'[p], now')
             /\ log'[p].at = "rolled" => log'[p].scan \subseteq counted'
             /\ ~readable' => log'[p].at = "closed"
  BY <1>1, <1>3, <1>4, <1>5 DEF UsageInv
<1>7. /\ made' \in Nat /\ log' \in [Procs -> Worker] /\ TableOK(rows') /\ Past(Table(rows'), made')
      /\ pruned' \subseteq counted'
  BY <1>1 DEF UsageInv
<1> QED BY <1>2, <1>6, <1>7 DEF UsageInv

LEMMA SameCount == \A S : Usage!Cardinality(S) = Cardinality(S)
BY DEF Cardinality, Usage!Cardinality

\* A write leaves the other processes' rollups room.
LEMMA KeepsUp ==
  ASSUME UsageInv, NEW p \in Procs, Usage!ScanKeepsUp(p), NEW q \in Procs \ {p}, Reading(log[q])
  PROVE  Cardinality(Left(rows, log[q])) + Len(log[p].pending) < MaxRows
<1>1. Usage!Cardinality(Usage!Unscanned(q)) + Len(log[p].pending) < MaxRows
  BY DEF Usage!ScanKeepsUp, Reading
<1>2. Usage!Unscanned(q) = Left(rows, log[q])
  BY DEF Usage!Unscanned, Left
<1> QED BY <1>1, <1>2, SameCount

LEMMA Appended ==
  ASSUME NEW b \in Seq(Event), NEW e \in Event
  PROVE  /\ Append(b, e) \in Seq(Event) /\ Len(Append(b, e)) = Len(b) + 1
         /\ Elements(Append(b, e)) = Elements(b) \cup {e}
<1> DEFINE c == Append(b, e)
<1>1. c \in Seq(Event) /\ Len(c) = Len(b) + 1 /\ Len(b) \in Nat
  OBVIOUS
<1>2. \A i \in 1..Len(c) : c[i] = IF i = Len(b) + 1 THEN e ELSE b[i]
  OBVIOUS
<1> HIDE DEF c
<1>3. Elements(c) = Elements(b) \cup {e}
  <2>1. ASSUME NEW x \in Elements(c)
        PROVE  x \in Elements(b) \cup {e}
    <3>1. PICK i \in 1..Len(c) : x = c[i]
      BY DEF Elements
    <3> QED BY <1>1, <1>2, <3>1 DEF Elements
  <2>2. ASSUME NEW i \in 1..Len(b)
        PROVE  b[i] \in Elements(c)
    <3>1. i \in 1..Len(c) /\ c[i] = b[i]
      BY <1>1, <1>2
    <3> QED BY <3>1 DEF Elements
  <2>3. e \in Elements(c)
    <3>1. Len(c) \in 1..Len(c) /\ c[Len(c)] = e
      BY <1>1, <1>2
    <3> QED BY <3>1 DEF Elements
  <2> QED BY <2>1, <2>2, <2>3 DEF Elements
<1> QED BY <1>1, <1>3 DEF c

\* What p writes, of its buffer and just recorded, the others have not read, and have room for.
LEMMA WrittenBeside ==
  ASSUME UsageInv, NEW p \in Procs, NEW b \in Seq(Event), NEW t, Grown(t, b),
         \A e \in Elements(b) : Young(e, now),
         NEW q \in Procs \ {p},
         Elements(b) \cap log[q].scan = {}, Elements(b) \cap Buffer(log[q]) = {},
         Reading(log[q]) => Cardinality(Left(rows, log[q])) + Len(b) <= MaxRows
  PROVE  /\ Buffer(log[q]) \cap Table(t) = {}
         /\ Reading(log[q]) => LeftOK(t, log[q], now)
<1>1. BufferOK(log, rows, q, now) /\ TableOK(rows) /\ (Reading(log[q]) => LeftOK(rows, log[q], now))
  BY DEF UsageInv
<1>2. Buffer(log[q]) \cap Table(t) = {}
  BY <1>1 DEF BufferOK, Grown
<1>3. ASSUME Reading(log[q])
      PROVE  LeftOK(t, log[q], now)
  BY <1>1, <1>3, LeftGrows
<1> QED BY <1>2, <1>3

LEMMA RecordKeeps ==
  ASSUME UsageInv, NEW p \in Procs, Usage!Record(p)
  PROVE  UsageInv'
<1>1. PICK at \in {now} \cup (IF now > 0 THEN {now - 1} ELSE {}), ok \in BOOLEAN :
        LET pending == Append(log[p].pending, [n |-> made, at |-> at])
            full == Len(pending) >= FlushEvery
        IN  /\ full => Usage!ScanKeepsUp(p)
            /\ log' = [log EXCEPT ![p].pending = IF full THEN <<>> ELSE pending]
            /\ Usage!WriteBuffer(pending, full /\ ok)
  BY DEF Usage!Record
<1> DEFINE e == [n |-> made, at |-> at]
           pending == Append(log[p].pending, e)
           full == Len(pending) >= FlushEvery
           waits == IF full THEN <<>> ELSE pending
           s == [log[p] EXCEPT !.pending = waits]
<1>2. /\ UNCHANGED <<now, readable, counted, pruned>> /\ log[p].at = "open" /\ made' = made + 1
      /\ log[p] \in Worker /\ made \in Nat /\ now \in Nat /\ log[p].pending \in Seq(Event)
      /\ Buffer(log[p]) = Elements(log[p].pending) /\ BufferOK(log, rows, p, now)
      /\ TableOK(rows) /\ Past(Table(rows), made) /\ Past(Buffer(log[p]), made)
      /\ Past(log[p].scan, made) /\ log[p].scan \subseteq Event /\ Table(rows) \subseteq Event
      /\ Buffer(log[p]) \subseteq Event /\ readable /\ readable \in BOOLEAN /\ pruned \subseteq counted
  <2>1. UNCHANGED <<now, readable, counted, pruned>> /\ log[p].at = "open" /\ made' = made + 1
    BY DEF Usage!Record
  <2>2. Table(rows) \subseteq Event
    BY DEF UsageInv, Table, TableOK
  <2>3. readable /\ readable \in BOOLEAN
    BY <2>1 DEF UsageInv
  <2> QED BY <2>1, <2>2, <2>3, BufferIs DEF UsageInv, Worker
<1>3. e \in Event /\ Young(e, now)
  BY <1>2, UsageFacts DEF Event, Young
<1>4. e.n = made
  OBVIOUS
<1>5. log' = [log EXCEPT ![p] = s]
  <2>1. log' = [log EXCEPT ![p].pending = waits]
    BY <1>1
  <2>2. log \in [Procs -> Worker]
    BY DEF UsageInv
  <2> HIDE DEF waits
  <2> QED BY <2>1, <2>2
<1>6. (full => Usage!ScanKeepsUp(p)) /\ Usage!WriteBuffer(pending, full /\ ok)
  BY <1>1
<1> HIDE DEF e
<1>7. /\ pending \in Seq(Event) /\ Len(pending) = Len(log[p].pending) + 1
      /\ Elements(pending) = Buffer(log[p]) \cup {e}
  BY <1>2, <1>3, Appended
<1> HIDE DEF pending
<1>8. /\ e \notin Table(rows) /\ e \notin log[p].scan
      /\ \A q \in Procs \ {p} : e \notin log[q].scan /\ e \notin Buffer(log[q])
  <2>1. ASSUME NEW S, Past(S, made)
        PROVE  e \notin S
    BY <1>2, <1>4, <2>1 DEF Past
  <2> QED BY <1>2, <2>1 DEF UsageInv
<1>9. \A x \in Elements(pending) : Young(x, now)
  BY <1>2, <1>3, <1>7 DEF BufferOK
<1>10. Past(Elements(pending), made') /\ Past(Table(rows), made') /\ Past(log[p].scan, made')
  BY <1>2, <1>3, <1>4, <1>7 DEF Past, Event
<1>11. \A q \in Procs \ {p} :
         Elements(pending) \cap log[q].scan = {} /\ Elements(pending) \cap Buffer(log[q]) = {}
  BY <1>2, <1>7, <1>8 DEF BufferOK
<1>12. waits \in Seq(Event) /\ Elements(waits) \subseteq Elements(pending) /\ (full => Elements(waits) = {})
  <2>1. Elements(<<>>) = {} /\ <<>> \in Seq(Event)
    BY DEF Elements
  <2> QED BY <1>7, <2>1
<1> HIDE DEF waits
<1>13. /\ s \in Worker /\ s.at = "open" /\ s.scan = log[p].scan /\ s.pending = waits
       /\ Buffer(s) = Elements(waits)
  BY <1>2, <1>12 DEF Worker, Buffer, Elements
<1> HIDE DEF s
<1>14. ~Reading(s) /\ s.at # "rolled"
  BY <1>13 DEF Reading
<1>15. made' \in Nat /\ made' >= made /\ Past(Buffer(s), made') /\ Past(s.scan, made')
  BY <1>2, <1>10, <1>12, <1>13 DEF Past
<1>16. Buffer(s) \cap s.scan = {} /\ \A x \in Buffer(s) : Young(x, now)
  BY <1>2, <1>7, <1>8, <1>9, <1>12, <1>13 DEF BufferOK
<1>17. ASSUME NEW q \in Procs \ {p}
       PROVE  /\ Buffer(s) \cap log[q].scan = {} /\ Buffer(s) \cap Buffer(log[q]) = {}
              /\ Buffer(log[q]) \cap s.scan = {} /\ Buffer(log[q]) \cap Table(rows) = {}
              /\ Reading(log[q]) => LeftOK(rows, log[q], now)
  BY <1>11, <1>12, <1>13 DEF UsageInv, BufferOK
<1>18. /\ \A q \in Procs \ {p} : log[q].at = "rolled" => log[q].scan \subseteq counted'
       /\ readable' \in BOOLEAN /\ readable' /\ pruned' \subseteq counted'
  BY <1>2 DEF UsageInv
<1>19. CASE full /\ ok
  <2>1. Grown(rows', pending)
    <3>1. (full /\ ok) = TRUE
      BY <1>19
    <3>2. Usage!WriteBuffer(pending, TRUE)
      BY <1>6, <3>1
    <3> QED BY <1>2, <1>7, <3>2, WriteGrows
  <2>2. Buffer(s) = {}
    BY <1>12, <1>13, <1>19
  <2>3. ASSUME NEW q \in Procs \ {p}
        PROVE  /\ Buffer(log[q]) \cap Table(rows') = {}
               /\ Reading(log[q]) => LeftOK(rows', log[q], now)
    <3>1. Reading(log[q]) => Cardinality(Left(rows, log[q])) + Len(pending) <= MaxRows
      <4>1. Left(rows, log[q]) \subseteq DOMAIN rows
        BY DEF Left
      <4>2. Cardinality(Left(rows, log[q])) \in Nat /\ Len(log[p].pending) \in Nat
        BY <1>2, <4>1, TableFinite
      <4>3. Reading(log[q]) => Cardinality(Left(rows, log[q])) + Len(log[p].pending) < MaxRows
        BY <1>6, <1>19, KeepsUp
      <4> QED BY <1>7, <4>2, <4>3, UsageFacts
    <3> QED BY <1>7, <1>9, <1>11, <2>1, <3>1, WrittenBeside
  <2>4. Beside(s, p, rows')
    BY <1>14, <1>16, <1>17, <2>2, <2>3 DEF Beside
  <2>5. TableOK(rows') /\ Past(Table(rows'), made')
    BY <1>10, <2>1 DEF Grown, Past
  <2> QED BY <1>2, <1>5, <1>13, <1>14, <1>15, <1>18, <2>4, <2>5, ProcessKeeps
<1>20. CASE ~(full /\ ok)
  <2>1. rows' = rows
    <3>1. (full /\ ok) = FALSE
      BY <1>20
    <3> QED BY <1>6, <3>1 DEF Usage!WriteBuffer
  <2>2. Elements(pending) \cap Table(rows) = {}
    BY <1>2, <1>7, <1>8 DEF BufferOK
  <2>3. Beside(s, p, rows')
    BY <1>12, <1>13, <1>14, <1>16, <1>17, <2>1, <2>2 DEF Beside
  <2>4. TableOK(rows') /\ Past(Table(rows'), made')
    BY <1>2, <1>10, <2>1
  <2> QED BY <1>2, <1>5, <1>13, <1>14, <1>15, <1>18, <2>3, <2>4, ProcessKeeps
<1> QED BY <1>19, <1>20

LEMMA ScanKeeps ==
  ASSUME UsageInv, NEW p \in Procs, Usage!Scan(p)
  PROVE  UsageInv'
<1>1. PICK what \in DOMAIN Usage!Scanned, ok \in BOOLEAN :
        /\ Usage!WriteBuffer(log[p].pending, ok)
        /\ log' = [log EXCEPT ![p] = [at |-> Usage!Scanned[what], pending |-> <<>>,
                     scan |-> {e \in Usage!Range(rows') : e.at >= Usage!RollupFrom(what)}]]
  BY DEF Usage!Scan
<1> DEFINE b == log[p].pending
           scan == {e \in Table(rows') : e.at >= Usage!RollupFrom(what)}
           s == [at |-> Usage!Scanned[what], pending |-> <<>>, scan |-> scan]
<1>2. /\ UNCHANGED <<now, readable, made, counted, pruned>> /\ Usage!ScanKeepsUp(p)
      /\ log[p].at \in {"opened", "open"} /\ made \in Nat /\ now \in Nat /\ b \in Seq(Event)
      /\ Buffer(log[p]) = Elements(b) /\ BufferOK(log, rows, p, now)
      /\ TableOK(rows) /\ Past(Table(rows), made) /\ Past(Buffer(log[p]), made)
      /\ readable /\ readable \in BOOLEAN /\ pruned \subseteq counted
  <2>1. UNCHANGED <<now, readable, made, counted, pruned>> /\ Usage!ScanKeepsUp(p)
        /\ log[p].at \in {"opened", "open"}
    BY DEF Usage!Scan
  <2>2. readable /\ readable \in BOOLEAN
    BY <2>1 DEF UsageInv
  <2> QED BY <2>1, <2>2, BufferIs DEF UsageInv
<1>3. /\ TableOK(rows') /\ Table(rows') \subseteq Table(rows) \cup Elements(b)
      /\ \/ rows' = rows
         \/ Grown(rows', b)
  <2>1. CASE ok
    <3>1. ok = TRUE
      BY <2>1
    <3>2. Usage!WriteBuffer(b, TRUE)
      BY <1>1, <3>1
    <3>3. Grown(rows', b)
      BY <1>2, <3>2, WriteGrows
    <3> QED BY <3>3 DEF Grown
  <2>2. CASE ~ok
    <3>1. rows' = rows
      BY <1>1, <2>2 DEF Usage!WriteBuffer
    <3> QED BY <1>2, <3>1
  <2> QED BY <2>1, <2>2
<1>4. log' = [log EXCEPT ![p] = s]
  <2>1. Usage!Range(rows') = Table(rows')
    BY DEF Usage!Range, Table
  <2> QED BY <1>1, <2>1
<1>5. Table(rows') \subseteq Event /\ scan \subseteq Table(rows')
  BY <1>3 DEF TableOK, Table
<1>6. Past(Table(rows'), made')
  BY <1>2, <1>3 DEF Past
<1>7. s.at = "scanned" => scan = Table(rows')
  <2>1. ASSUME s.at = "scanned"
        PROVE  Usage!RollupFrom(what) = 0
    <3>1. what = "maintain"
      BY <2>1 DEF Usage!Scanned
    <3> QED BY <3>1 DEF Usage!RollupFrom
  <2> QED BY <1>5, <2>1 DEF Event
<1>8. s.at \in {"scanned", "reporting", "closing"}
  BY DEF Usage!Scanned
<1> HIDE DEF scan
<1>9. s \in Worker /\ s.scan = scan /\ s.pending = <<>>
  BY <1>5, <1>8 DEF Worker
<1> HIDE DEF s
<1>10. Buffer(s) = {}
  BY <1>9 DEF Buffer
<1>11. ASSUME Reading(s)
       PROVE  LeftOK(rows', s, now)
  <2>1. s.at = "scanned"
    BY <1>8, <1>11 DEF Reading
  <2>2. Left(rows', s) = {}
    BY <1>7, <1>9, <2>1 DEF Left, Table
  <2> QED BY <2>2, FS_EmptySet, UsageFacts DEF LeftOK
<1>12. ASSUME NEW q \in Procs \ {p}
       PROVE  /\ Buffer(log[q]) \cap Table(rows') = {}
              /\ Reading(log[q]) => LeftOK(rows', log[q], now)
  <2>1. BufferOK(log, rows, q, now) /\ (Reading(log[q]) => LeftOK(rows, log[q], now))
        /\ \A x \in Elements(b) : Young(x, now)
        /\ Elements(b) \cap log[q].scan = {} /\ Elements(b) \cap Buffer(log[q]) = {}
    BY <1>2 DEF UsageInv, BufferOK
  <2>2. CASE rows' = rows
    BY <2>1, <2>2 DEF BufferOK
  <2>3. CASE Grown(rows', b)
    <3>1. Reading(log[q]) => Cardinality(Left(rows, log[q])) + Len(b) <= MaxRows
      <4>1. Left(rows, log[q]) \subseteq DOMAIN rows
        BY DEF Left
      <4>2. Cardinality(Left(rows, log[q])) \in Nat /\ Len(b) \in Nat
        BY <1>2, <4>1, TableFinite
      <4>3. Reading(log[q]) => Cardinality(Left(rows, log[q])) + Len(b) < MaxRows
        BY <1>2, KeepsUp
      <4> QED BY <4>2, <4>3, UsageFacts
    <3> QED BY <1>2, <2>1, <2>3, <3>1, WrittenBeside
  <2> QED BY <1>3, <2>2, <2>3
<1>13. ASSUME NEW q \in Procs \ {p}
       PROVE  Buffer(log[q]) \cap s.scan = {}
  BY <1>5, <1>9, <1>12
<1>14. Beside(s, p, rows')
  BY <1>10, <1>11, <1>12, <1>13 DEF Beside
<1>15. s.at # "rolled" /\ made' \in Nat /\ made' >= made
  BY <1>2, <1>8
<1>16. Past(Buffer(s), made') /\ Past(s.scan, made')
  BY <1>5, <1>6, <1>9, <1>10 DEF Past
<1>17. /\ \A q \in Procs \ {p} : log[q].at = "rolled" => log[q].scan \subseteq counted'
       /\ readable' \in BOOLEAN /\ readable' /\ pruned' \subseteq counted'
  BY <1>2 DEF UsageInv
<1> QED BY <1>2, <1>3, <1>4, <1>6, <1>9, <1>14, <1>15, <1>16, <1>17, ProcessKeeps

\* What pruning drops is old, or has as many later rows as the table may hold; a row that
\* the rollup before it has not read is neither.
LEMMA PrunesRead ==
  ASSUME UsageInv, NEW p \in Procs, Reading(log[p]), NEW i \in DOMAIN rows \ Usage!Kept
  PROVE  rows[i] \in log[p].scan
<1> DEFINE young == {j \in DOMAIN rows : rows[j].at + RetentionDays * DayLength >= now}
           later == {j \in young : i < j}
           left == Left(rows, log[p])
<1>1. TableOK(rows) /\ LeftOK(rows, log[p], now)
  BY DEF UsageInv
<1>2. SUFFICES ASSUME i \in left
               PROVE  FALSE
  BY DEF Left
<1>3. i \in young
  <2>1. i \in DOMAIN rows /\ Young(rows[i], now)
    BY <1>1, <1>2 DEF LeftOK
  <2> QED BY <2>1 DEF Young, Window
<1>4. Cardinality(later) >= MaxRows
  <2>1. later \subseteq DOMAIN rows
    OBVIOUS
  <2>2. ~(Usage!Cardinality(later) < MaxRows)
    BY <1>3 DEF Usage!Kept
  <2>3. Cardinality(later) \in Nat
    BY <1>1, <2>1, TableFinite
  <2> QED BY <2>2, <2>3, SameCount, UsageFacts
<1>5. later \subseteq left /\ i \notin later
  <2>1. ASSUME NEW j \in later
        PROVE  j \in left
    <3>1. j \in DOMAIN rows /\ i < j /\ i \in Nat /\ j \in Nat
      BY <1>1 DEF TableOK
    <3>2. j \notin left => j < i
      BY <1>1, <1>2, <3>1 DEF LeftOK
    <3> QED BY <3>1, <3>2
  <2>2. i \notin later
    BY <1>1 DEF TableOK
  <2> QED BY <2>1, <2>2
<1> HIDE DEF later, young
<1>6. left \subseteq DOMAIN rows /\ Cardinality(left) <= MaxRows
  BY <1>1 DEF Left, LeftOK
<1> HIDE DEF left
<1>7. /\ IsFiniteSet(left) /\ Cardinality(left) \in Nat
      /\ IsFiniteSet(later) /\ Cardinality(later) \in Nat
  BY <1>1, <1>5, <1>6, TableFinite
<1>8. Cardinality(later \cup {i}) = Cardinality(later) + 1
  BY <1>5, <1>7, FS_AddElement
<1>9. Cardinality(later \cup {i}) <= Cardinality(left)
  <2>1. later \cup {i} \in SUBSET left
    BY <1>2, <1>5
  <2> QED BY <1>7, <2>1, FS_Subset
<1> QED BY <1>4, <1>6, <1>7, <1>8, <1>9, UsageFacts

LEMMA PruneKeeps ==
  ASSUME UsageInv, NEW p \in Procs, Usage!Prune(p)
  PROVE  UsageInv'
<1> DEFINE s == [log[p] EXCEPT !.at = "open", !.scan = {}]
<1>1. /\ UNCHANGED <<now, readable, made, counted>> /\ log[p].at = "rolled" /\ log[p] \in Worker
      /\ rows' = [i \in Usage!Kept |-> rows[i]]
      /\ pruned' = pruned \cup {rows[i] : i \in DOMAIN rows \ Usage!Kept}
      /\ log' = [log EXCEPT ![p].at = "open", ![p].scan = {}]
      /\ made \in Nat /\ TableOK(rows) /\ Past(Table(rows), made) /\ Past(Buffer(log[p]), made)
      /\ BufferOK(log, rows, p, now) /\ log \in [Procs -> Worker] /\ pruned \subseteq counted
      /\ log[p].scan \subseteq counted
  BY DEF Usage!Prune, Usage!Restrict, UsageInv
<1>2. readable /\ readable \in BOOLEAN
  BY <1>1 DEF UsageInv
<1>3. log' = [log EXCEPT ![p] = s]
  BY <1>1
<1>4. /\ s \in Worker /\ s.at = "open" /\ s.scan = {} /\ Buffer(s) = Buffer(log[p])
  BY <1>1 DEF Worker, Buffer
<1> HIDE DEF s
<1>5. /\ DOMAIN rows' \subseteq DOMAIN rows /\ \A i \in DOMAIN rows' : rows'[i] = rows[i]
  BY <1>1 DEF Usage!Kept
<1>6. TableOK(rows') /\ Table(rows') \subseteq Table(rows)
  BY <1>1, <1>5 DEF TableOK, Table
<1>7. pruned' \subseteq counted'
  <2>1. \A i \in DOMAIN rows \ Usage!Kept : rows[i] \in log[p].scan
    BY <1>1, PrunesRead DEF Reading
  <2> QED BY <1>1, <2>1
<1>8. ASSUME NEW q \in Procs \ {p}, Reading(log[q])
      PROVE  LeftOK(rows', log[q], now)
  <2>1. LeftOK(rows, log[q], now)
    BY <1>8 DEF UsageInv
  <2>2. Left(rows', log[q]) \subseteq Left(rows, log[q])
        /\ DOMAIN rows' \ Left(rows', log[q]) \subseteq DOMAIN rows \ Left(rows, log[q])
    BY <1>5 DEF Left
  <2>3. Left(rows, log[q]) \subseteq DOMAIN rows
    BY DEF Left
  <2>4. /\ IsFiniteSet(Left(rows, log[q])) /\ Cardinality(Left(rows, log[q])) \in Nat
        /\ Cardinality(Left(rows', log[q])) \in Nat
    BY <1>1, <2>2, <2>3, TableFinite
  <2>5. Cardinality(Left(rows', log[q])) <= Cardinality(Left(rows, log[q]))
    BY <2>2, <2>4, FS_Subset
  <2>6. Cardinality(Left(rows', log[q])) <= MaxRows
    BY <2>1, <2>4, <2>5, UsageFacts DEF LeftOK
  <2>7. \A i \in Left(rows', log[q]) : i \in DOMAIN rows'
    BY DEF Left
  <2> QED BY <1>5, <2>1, <2>2, <2>6, <2>7 DEF LeftOK
<1>9. ASSUME NEW q \in Procs \ {p}
      PROVE  /\ Buffer(s) \cap log[q].scan = {} /\ Buffer(s) \cap Buffer(log[q]) = {}
             /\ Buffer(log[q]) \cap Table(rows') = {}
  BY <1>1, <1>4, <1>6 DEF UsageInv, BufferOK
<1>10. ~Reading(s) /\ s.at # "rolled"
  BY <1>4 DEF Reading
<1>11. Beside(s, p, rows')
  BY <1>1, <1>4, <1>6, <1>8, <1>9, <1>10 DEF Beside, BufferOK
<1>12. /\ made' \in Nat /\ made' >= made /\ Past(Table(rows'), made') /\ Past(Buffer(s), made')
       /\ Past(s.scan, made')
  BY <1>1, <1>4, <1>6 DEF Past
<1>13. /\ \A q \in Procs \ {p} : log[q].at = "rolled" => log[q].scan \subseteq counted'
       /\ readable' \in BOOLEAN /\ readable'
  BY <1>1, <1>2 DEF UsageInv
<1> QED BY <1>1, <1>3, <1>4, <1>6, <1>7, <1>10, <1>11, <1>12, <1>13, ProcessKeeps

LEMMA UsageInvStarts ==
  ASSUME Usage!UsageInit
  PROVE  UsageInv
<1>1. /\ now = 0 /\ log = [p \in Procs |-> Usage!Closed] /\ rows = Usage!EmptyTable
      /\ readable = TRUE /\ made = 0 /\ counted = {} /\ pruned = {}
  BY DEF Usage!UsageInit
<1>2. /\ Usage!Closed \in Worker /\ Buffer(Usage!Closed) = {} /\ Usage!Closed.scan = {}
      /\ Usage!Closed.at = "closed"
  BY DEF Usage!Closed, Worker, Buffer
<1>3. TableOK(rows) /\ Table(rows) = {}
  BY <1>1 DEF Usage!EmptyTable, TableOK, Table
<1>4. \A p \in Procs : log[p] = Usage!Closed
  BY <1>1
<1>5. log \in [Procs -> Worker] /\ now \in Nat /\ made \in Nat /\ Past(Table(rows), made)
  BY <1>1, <1>2, <1>3 DEF Past
<1>6. readable /\ readable \in BOOLEAN /\ pruned \subseteq counted
  BY <1>1
<1>7. ASSUME NEW p \in Procs
      PROVE  /\ Past(Buffer(log[p]), made) /\ Past(log[p].scan, made)
             /\ BufferOK(log, rows, p, now)
             /\ ~Reading(log[p]) /\ log[p].at # "rolled"
  BY <1>2, <1>4 DEF Past, BufferOK, Reading
<1> QED BY <1>3, <1>5, <1>6, <1>7 DEF UsageInv

LEMMA UsageInvKept ==
  ASSUME UsageInv, [Usage!UsageNext]_usageVars
  PROVE  UsageInv'
<1>1. CASE Usage!UsageNext
  <2>1. ASSUME NEW p \in Procs, \/ Usage!Open(p) \/ Usage!Record(p) \/ Usage!Scan(p)
                                \/ Usage!WriteRollup(p) \/ Usage!Prune(p) \/ Usage!Crash(p)
        PROVE  UsageInv'
    BY <2>1, OpenLogKeeps, RecordKeeps, ScanKeeps, WriteRollupKeeps, PruneKeeps, CrashKeeps
  <2>2. CASE Usage!Tick \/ Usage!ClockSetBack \/ Usage!BecomesUnreadable
    BY <2>2, RestKeeps
  <2> QED BY <1>1, <2>1, <2>2 DEF Usage!UsageNext
<1>2. CASE UNCHANGED usageVars
  <2>1. UNCHANGED <<now, log, rows, readable, made, counted, pruned>>
    BY <1>2 DEF usageVars
  <2> QED BY <2>1 DEF UsageInv, BufferOK, LeftOK, Left, TableOK, Table, Past
<1> QED BY <1>1, <1>2

-----------------------------------------------------------------------------

\* Through crashes, damage, other versions, moves and repairs cut short, no index's database
\* meets another one's log, no usable one is deleted, and every vector fits the text beside it
\* and the model of its index; and through faults, crashes, clocks set back and other
\* processes, no usage event is pruned before a rollup has counted it (sqlite-index.ts:868,
\* :745, :1022, lib/usage/store.ts:213, :287).
THEOREM PathsSafeHolds == StoresSpec => []PathsSafe
<1>1. StoresInit => OpeningInv /\ UsageInv
  BY OpeningInvStarts, UsageInvStarts DEF StoresInit
<1>2. (OpeningInv /\ UsageInv) /\ [StoresNext]_storesVars => (OpeningInv /\ UsageInv)'
  <2>1. [StoresNext]_storesVars => [Opening!Next]_openingVars /\ [Usage!UsageNext]_usageVars
    BY DEF StoresNext, storesVars
  <2> QED BY <2>1, OpeningInvKept, UsageInvKept
<1>3. OpeningInv /\ UsageInv => PathsSafe
  BY OpeningInvShows DEF PathsSafe, UsageInv, Usage!CountedBeforePruned
<1> QED BY <1>1, <1>2, <1>3, PTL DEF StoresSpec
=============================================================================
