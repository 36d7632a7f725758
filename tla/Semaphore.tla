----------------------------- MODULE Semaphore -----------------------------
(***************************************************************************)
(* lib/semaphore.ts: the counting semaphore that bounds concurrent HTTP    *)
(* requests (api/http.ts) and concurrent full-text reads                   *)
(* (features/search/index-manager.ts), whose ceiling can change while it   *)
(* is in use: a crawl lowers it when the desktop app stops answering.      *)
(*                                                                         *)
(* Every operation is one synchronous stretch of JavaScript.  Every caller *)
(* goes through run(), so a permit is released exactly once.               *)
(***************************************************************************)
EXTENDS Integers, Sequences, FiniteSets

CONSTANTS
  Clients,  \* the calls that may be in flight
  Ceilings  \* the values the ceiling is ever asked to take

ASSUME SemaphoreAssumption ==
  /\ IsFiniteSet(Clients)
  /\ Ceilings \subseteq Int

VARIABLES
  max,        \* the ceiling in force
  available,  \* permits left; negative after a ceiling was lowered under load
  queue,      \* the parked calls, oldest first
  holders     \* the calls that hold a permit

vars == <<max, available, queue, holders>>

Waiting == {queue[i] : i \in DOMAIN queue}

SemaphoreTypeOK ==
  /\ max \in Nat \ {0}
  /\ available \in Int
  /\ queue \in Seq(Clients)
  /\ holders \in SUBSET Clients

\* Both the constructor and setMax throw on less than one permit.
Accepts(m) == m >= 1

Init ==
  /\ max \in Ceilings /\ Accepts(max)
  /\ available = max
  /\ queue = <<>>
  /\ holders = {}

\* acquire(): a free permit is granted at once, otherwise the call is parked.
Acquire(c) ==
  /\ c \notin holders \cup Waiting
  /\ \/ /\ available > 0
        /\ available' = available - 1
        /\ holders' = holders \cup {c}
        /\ UNCHANGED queue
     \/ /\ available <= 0
        /\ queue' = Append(queue, c)
        /\ UNCHANGED <<available, holders>>
  /\ UNCHANGED max

\* Seeded faults: a release always passes its permit on; it looks before it
\* gives its own back; it does not look at the queue.
HandsOn_Unguarded == queue # <<>>
HandsOn_OneShort == available > 0 /\ queue # <<>>
HandsOn_Never == FALSE

\* A release passes its permit on only if it freed one under today's ceiling.
HandsOn == available + 1 > 0 /\ queue # <<>>

\* The queue once its n oldest calls were granted.
Left(n) == SubSeq(queue, n + 1, Len(queue))

\* The function acquire() resolved with.
Release(c) ==
  /\ c \in holders
  /\ \/ /\ HandsOn
        /\ holders' = (holders \ {c}) \cup {Head(queue)}
        /\ queue' = Left(1)
        /\ UNCHANGED available
     \/ /\ ~HandsOn
        /\ holders' = holders \ {c}
        /\ available' = available + 1
        /\ UNCHANGED queue
  /\ UNCHANGED max

\* Seeded fault: the permits out are forgotten.
Room_Reset(m) == m

\* The permits left under a ceiling of m.
Room(m) == available + m - max

\* How many parked calls a ceiling that leaves this much room lets go.
Woken(room) ==
  IF room <= 0 THEN 0 ELSE IF room <= Len(queue) THEN room ELSE Len(queue)

\* setMax(): permits in hand are honoured; new ones go to the parked calls.
SetMax(m) ==
  LET n == Woken(Room(m)) IN
     /\ Accepts(m)
     /\ m # max
     /\ max' = m
     /\ available' = Room(m) - n
     /\ holders' = holders \cup {queue[i] : i \in 1..n}
     /\ queue' = Left(n)

Next ==
  \/ \E c \in Clients : Acquire(c) \/ Release(c)
  \/ \E m \in Ceilings : SetMax(m)

Spec == Init /\ [][Next]_vars

\* Work that holds a permit ends: run() releases in a finally, and the request
\* under it is bounded by a deadline.  Nothing else is fair.
FairSpec == Spec /\ \A c \in Clients : WF_vars(Release(c))

-----------------------------------------------------------------------------
(* Properties.                                                             *)

\* Each call is in one place: parked once, or holding, or neither.
Parked ==
  /\ Waiting \cap holders = {}
  /\ \A i, j \in DOMAIN queue : queue[i] = queue[j] => i = j

\* The count is the truth: permits left are the ceiling in force minus the
\* calls holding one, however the ceiling moved while they were out.
Accounting == available = max - Cardinality(holders)

\* No permit lies idle while a call is parked: a raised ceiling is handed out
\* at once, because no later release would do it.
NoIdlePermit == available > 0 => queue = <<>>

\* The three together are inductive.
SemaphoreInv == SemaphoreTypeOK /\ Parked /\ Accounting /\ NoIdlePermit

\* A permit is only ever granted under the ceiling in force: after a ceiling
\* was lowered the calls out are honoured, and nobody joins them until their
\* number is below the new one (a crawl can back off without restarting).
GrantsUnderCeiling ==
  [][\A c \in Clients : c \notin holders /\ c \in holders'
       => Cardinality(holders') <= max']_vars

P == INSTANCE Permits WITH waiting <- Waiting

\* The counter and the queue implement the permits they stand for: whatever a
\* call or a moved ceiling does, permits are granted under the ceiling it
\* leaves, and none stays unused while a call is parked.
ImplementsPermits == P!PermitsSpec

\* Every parked call gets its permit, under ceilings that keep changing.
EveryCallServed == \A c \in Clients : c \in Waiting ~> c \in holders
=============================================================================
