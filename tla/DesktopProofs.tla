---------------------------- MODULE DesktopProofs ----------------------------
(***************************************************************************)
(* Theorems about the desktop app as the server reads it: the counting     *)
(* semaphore, for any finite set of calls and any ceilings asked for; the  *)
(* probe of the app (LocalStatus), for any groups and any times to live;   *)
(* the crawl that is throttled by both (FulltextCrawl); and, for any       *)
(* objects, readers and bounds, read your writes: while the desktop lacks  *)
(* a write this server has reported, the router's entry stands             *)
(* (LocalRouting).                                                         *)
(***************************************************************************)
EXTENDS MCDesktop, FiniteSetTheorems, FunctionTheorems, SequenceTheorems, TLAPS

-----------------------------------------------------------------------------
(* Semaphore.                                                              *)

Elems(q) == {q[i] : i \in DOMAIN q}
First(q, n) == {q[i] : i \in 1..n}
Rest(q, n) == SubSeq(q, n + 1, Len(q))
Distinct(q) == \A i, j \in DOMAIN q : q[i] = q[j] => i = j

Served(q, H, n, q2, H2) ==
  /\ q2 \in Seq(Clients)
  /\ Len(q2) = Len(q) - n
  /\ H2 \in SUBSET Clients
  /\ Cardinality(H2) = Cardinality(H) + n
  /\ Elems(q2) \cap H2 = {}
  /\ Distinct(q2)

\* The first n elements of an injective sequence are n elements.
LEMMA FrontCardinality ==
  ASSUME NEW q \in Seq(Clients), NEW n \in 0..Len(q), Distinct(q)
  PROVE  IsFiniteSet(First(q, n)) /\ Cardinality(First(q, n)) = n
<1> USE DEF First, Distinct
<1> DEFINE Front == {q[i] : i \in 1..n}
           f     == [i \in 1..n |-> q[i]]
<1>1. DOMAIN q = 1..Len(q) /\ n \in Nat /\ Len(q) \in Nat
  BY LenProperties
<1>2. 1..n \subseteq DOMAIN q
  BY <1>1
<1>3. f \in Bijection(1..n, Front)
  <2>1. f \in [1..n -> Front]
    OBVIOUS
  <2>2. IsInjective(f)
    BY <1>2 DEF IsInjective
  <2>3. f \in Surjection(1..n, Front)
    BY <2>1 DEF Surjection
  <2> QED BY <2>1, <2>2, <2>3 DEF Injection, Bijection
<1>4. IsFiniteSet(1..n) /\ Cardinality(1..n) = n
  BY <1>1, FS_Interval
<1>5. ExistsBijection(1..n, Front)
  BY <1>3 DEF ExistsBijection
<1> QED BY <1>4, <1>5, FS_Bijection

\* Serving the n oldest parked calls: nobody is lost, nobody is served twice,
\* and exactly n calls join the holders.
LEMMA ServeFront ==
  ASSUME NEW q \in Seq(Clients), NEW H \in SUBSET Clients, NEW n \in 0..Len(q),
         Distinct(q), Elems(q) \cap H = {}
  PROVE  Served(q, H, n, Rest(q, n), H \cup First(q, n))
<1> DEFINE q2 == Rest(q, n)
           H2 == H \cup First(q, n)
<1> SUFFICES Served(q, H, n, q2, H2)
  OBVIOUS
<1>0. q2 = SubSeq(q, n + 1, Len(q)) /\ H2 = H \cup First(q, n)
  BY DEF Rest
<1> HIDE DEF q2, H2
<1> USE DEF Elems, First, Distinct
<1>1. DOMAIN q = 1..Len(q) /\ n \in Nat /\ Len(q) \in Nat /\ n <= Len(q)
  BY LenProperties
<1>2. \A i \in DOMAIN q : q[i] \in Clients
  BY <1>1, ElementOfSeq
<1>3. /\ q2 \in Seq(Clients)
      /\ Len(q2) = Len(q) - n
      /\ \A i \in 1..(Len(q) - n) : q2[i] = q[n + i]
  <2>1. \A i \in (n + 1)..Len(q) : q[i] \in Clients
    BY <1>1, <1>2
  <2>2. /\ q2 \in Seq(Clients)
        /\ Len(q2) = IF n + 1 <= Len(q) THEN Len(q) - (n + 1) + 1 ELSE 0
        /\ \A i \in 1..(Len(q) - (n + 1) + 1) : q2[i] = q[(n + 1) + i - 1]
    BY <1>0, <1>1, <2>1, SubSeqProperties
  <2>3. Len(q2) = Len(q) - n
    <3>1. Len(q2) = IF n + 1 <= Len(q) THEN Len(q) - (n + 1) + 1 ELSE 0
      BY <2>2
    <3>2. \A l, k, r : l \in Nat /\ k \in Nat /\ k <= l
                     /\ r = (IF k + 1 <= l THEN l - (k + 1) + 1 ELSE 0) => r = l - k
      OBVIOUS
    <3>3. n \in Nat /\ Len(q) \in Nat /\ n <= Len(q)
      BY <1>1
    <3> QED BY ONLY <3>1, <3>2, <3>3, Zenon
  <2>4. \A i \in 1..(Len(q) - n) : q2[i] = q[n + i]
    <3> TAKE i \in 1..(Len(q) - n)
    <3>1. (n + 1) + i - 1 = n + i /\ i \in 1..(Len(q) - (n + 1) + 1)
      BY <1>1
    <3>2. q2[i] = q[(n + 1) + i - 1]
      BY <2>2, <3>1
    <3> QED BY ONLY <3>1, <3>2
  <2> QED BY <2>2, <2>3, <2>4
<1>4. DOMAIN q2 = 1..(Len(q) - n)
  BY <1>3, LenProperties
<1>5. \A i \in DOMAIN q2 : n + i \in DOMAIN q /\ q2[i] = q[n + i]
  <2> TAKE i \in DOMAIN q2
  <2>1. i \in 1..(Len(q) - n)
    BY <1>4
  <2>2. n + i \in 1..Len(q)
    BY <1>1, <2>1
  <2> QED BY <1>1, <1>3, <2>1, <2>2
<1>6. H2 \in SUBSET Clients
  BY <1>0, <1>1, <1>2
<1>7. Cardinality(H2) = Cardinality(H) + n
  <2> DEFINE Front == {q[i] : i \in 1..n}
  <2>1. IsFiniteSet(Front) /\ Cardinality(Front) = n
    BY FrontCardinality
  <2>2. IsFiniteSet(H)
    BY SemaphoreAssumption, FS_Subset
  <2>3. H \cap Front = {}
    BY <1>1
  <2>4. Cardinality(H) \in Nat
    BY <2>2, FS_CardinalityType
  <2>5. Cardinality(H \cup Front) = Cardinality(H) + Cardinality(Front) - Cardinality({})
    BY <2>1, <2>2, <2>3, FS_Union
  <2> QED BY <1>0, <1>1, <2>1, <2>4, <2>5, FS_EmptySet
<1>8. \A i \in DOMAIN q2 : q2[i] \notin H2
  <2> SUFFICES ASSUME NEW i \in DOMAIN q2 PROVE q2[i] \notin H2
    OBVIOUS
  <2>1. q[n + i] \notin H
    BY <1>5
  <2>2. ASSUME NEW k \in 1..n PROVE q[n + i] # q[k]
    <3>1. k \in DOMAIN q /\ n + i \in DOMAIN q /\ k # n + i
      BY <1>1, <1>4, <1>5
    <3> QED BY <3>1
  <2> QED BY <1>0, <1>5, <2>1, <2>2
<1>9. ASSUME NEW i \in DOMAIN q2, NEW j \in DOMAIN q2, q2[i] = q2[j] PROVE i = j
  <2>1. n + i = n + j
    BY <1>5, <1>9
  <2> QED BY <1>1, <1>4, <2>1
<1> QED BY <1>3, <1>6, <1>7, <1>8, <1>9 DEF Served

-----------------------------------------------------------------------------

LEMMA InitInv == Init => SemaphoreInv
<1> SUFFICES ASSUME Init PROVE SemaphoreInv
  OBVIOUS
<1>1. SemaphoreTypeOK
  BY SemaphoreAssumption, EmptySeq DEF Init, SemaphoreTypeOK, Accepts
<1>2. Parked
  BY DEF Init, Parked, Waiting
<1>3. Accounting
  BY SemaphoreAssumption, FS_EmptySet DEF Init, Accounting, Accepts
<1> QED BY <1>1, <1>2, <1>3 DEF Init, SemaphoreInv, NoIdlePermit

\* acquire() parks a call only where no permit is left.
LEMMA AcquireInv ==
  ASSUME SemaphoreInv, NEW c \in Clients, Acquire(c)
  PROVE  SemaphoreInv'
<1> USE DEF SemaphoreInv, SemaphoreTypeOK
<1>1. CASE available > 0
  <2>1. /\ available' = available - 1 /\ holders' = holders \cup {c}
        /\ UNCHANGED <<queue, max>> /\ c \notin holders /\ queue = <<>>
    BY <1>1 DEF Acquire, NoIdlePermit
  <2>2. Cardinality(holders') = Cardinality(holders) + 1
    BY <2>1, SemaphoreAssumption, FS_Subset, FS_AddElement
  <2>3. Cardinality(holders) \in Nat
    BY SemaphoreAssumption, FS_Subset, FS_CardinalityType
  <2>4. Accounting'
    BY <2>1, <2>2, <2>3, SemaphoreAssumption DEF Accounting
  <2>5. Parked'
    BY <2>1 DEF Parked, Waiting
  <2> QED BY <2>1, <2>4, <2>5 DEF NoIdlePermit
<1>2. CASE available <= 0
  <2>1. /\ queue' = Append(queue, c) /\ UNCHANGED <<available, holders, max>>
        /\ c \notin holders /\ c \notin Waiting
    BY <1>2 DEF Acquire
  <2>2. /\ queue' \in Seq(Clients) /\ Len(queue) \in Nat
        /\ DOMAIN queue = 1..Len(queue) /\ DOMAIN queue' = 1..(Len(queue) + 1)
        /\ \A i \in 1..Len(queue) : queue'[i] = queue[i]
        /\ queue'[Len(queue) + 1] = c
    BY <2>1
  <2>3. ASSUME NEW i \in DOMAIN queue', NEW j \in DOMAIN queue', queue'[i] = queue'[j]
        PROVE  i = j
    BY <2>1, <2>2, <2>3 DEF Parked, Waiting
  <2>4. \A i \in DOMAIN queue' : queue'[i] \notin holders'
    BY <2>1, <2>2 DEF Parked, Waiting
  <2>5. Parked'
    BY <2>3, <2>4 DEF Parked, Waiting
  <2> QED BY <1>2, <2>1, <2>2, <2>5 DEF Accounting, NoIdlePermit
<1> QED BY <1>1, <1>2

\* A release frees its permit or hands it to the oldest parked call.
LEMMA ReleaseInv ==
  ASSUME SemaphoreInv, NEW c \in Clients, Release(c)
  PROVE  SemaphoreInv'
<1> USE DEF SemaphoreInv, SemaphoreTypeOK
<1>1. /\ IsFiniteSet(holders) /\ Cardinality(holders) \in Nat
      /\ Cardinality(holders \ {c}) = Cardinality(holders) - 1
  BY SemaphoreAssumption, FS_Subset, FS_RemoveElement, FS_CardinalityType DEF Release
<1>2. CASE HandsOn
  <2>1. /\ holders' = (holders \ {c}) \cup {Head(queue)} /\ queue' = Left(1)
        /\ UNCHANGED <<available, max>> /\ queue # <<>> /\ available + 1 > 0
    BY <1>2 DEF Release, HandsOn
  <2>2. 1 \in 0..Len(queue) /\ Len(queue) \in Nat
    BY <2>1, EmptySeq
  <2>3. queue' = SubSeq(queue, 1 + 1, Len(queue))
    BY <2>1 DEF Left
  <2>4. holders' = (holders \ {c}) \cup First(queue, 1)
    BY <2>1 DEF First
  <2>5. Distinct(queue) /\ Elems(queue) \cap (holders \ {c}) = {}
    BY DEF Parked, Waiting, Elems, Distinct
  <2>6. /\ queue' \in Seq(Clients)
        /\ holders' \in SUBSET Clients
        /\ Cardinality(holders') = Cardinality(holders \ {c}) + 1
        /\ Elems(queue') \cap holders' = {}
        /\ Distinct(queue')
    <3>1. holders \ {c} \in SUBSET Clients
      OBVIOUS
    <3>2. Served(queue, holders \ {c}, 1, Rest(queue, 1), (holders \ {c}) \cup First(queue, 1))
      BY <2>2, <2>5, <3>1, ServeFront
    <3>3. Served(queue, holders \ {c}, 1, queue', holders')
      BY <2>3, <2>4, <3>2 DEF Rest
    <3> QED BY <3>3 DEF Served
  <2>7. Accounting'
    BY <1>1, <2>1, <2>6, SemaphoreAssumption DEF Accounting
  <2>8. available <= 0
    BY <2>1 DEF NoIdlePermit
  <2>9. Parked'
    BY <2>6 DEF Parked, Waiting, Elems, Distinct
  <2> QED BY <2>1, <2>6, <2>7, <2>8, <2>9 DEF NoIdlePermit
<1>3. CASE ~HandsOn
  <2>1. /\ holders' = holders \ {c} /\ available' = available + 1
        /\ UNCHANGED <<queue, max>>
    BY <1>3 DEF Release
  <2>2. Accounting'
    BY <1>1, <2>1, SemaphoreAssumption DEF Accounting
  <2>3. NoIdlePermit'
    BY <1>3, <2>1 DEF HandsOn, NoIdlePermit
  <2> QED BY <2>1, <2>2, <2>3 DEF Parked, Waiting
<1> QED BY <1>2, <1>3

\* setMax() serves as many of the oldest parked calls as the new ceiling has
\* room for.
LEMMA SetMaxInv ==
  ASSUME SemaphoreInv, NEW m \in Ceilings, SetMax(m)
  PROVE  SemaphoreInv'
<1> DEFINE room == Room(m)
           n    == Woken(room)
<1>1. /\ max' = m /\ available' = room - n
      /\ holders' = holders \cup {queue[i] : i \in 1..n}
      /\ queue' = SubSeq(queue, n + 1, Len(queue))
  BY DEF SetMax, Left
<1>2. m \in Nat \ {0} /\ m \in Int /\ max \in Int /\ available \in Int /\ Len(queue) \in Nat
  BY SemaphoreAssumption, LenProperties DEF SemaphoreInv, SemaphoreTypeOK, SetMax, Accepts
<1>3. n \in 0..Len(queue)
  BY <1>2 DEF Woken, Room
<1>4. /\ queue' \in Seq(Clients)
      /\ Len(queue') = Len(queue) - n
      /\ holders' \in SUBSET Clients
      /\ Cardinality(holders') = Cardinality(holders) + n
      /\ Elems(queue') \cap holders' = {}
      /\ Distinct(queue')
  <2>1. queue \in Seq(Clients) /\ holders \in SUBSET Clients
    BY DEF SemaphoreInv, SemaphoreTypeOK
  <2>2. Distinct(queue) /\ Elems(queue) \cap holders = {}
    BY DEF SemaphoreInv, Parked, Waiting, Elems, Distinct
  <2>3. /\ queue' = SubSeq(queue, n + 1, Len(queue))
        /\ holders' = holders \cup First(queue, n)
    BY <1>1 DEF First
  <2> HIDE DEF n
  <2>4. Served(queue, holders, n, Rest(queue, n), holders \cup First(queue, n))
    BY <1>3, <2>1, <2>2, ServeFront
  <2>5. Served(queue, holders, n, queue', holders')
    BY <2>3, <2>4 DEF Rest
  <2> QED BY <2>5 DEF Served
<1>5. Cardinality(holders) \in Nat
  BY SemaphoreAssumption, FS_Subset, FS_CardinalityType DEF SemaphoreInv, SemaphoreTypeOK
<1>6. SemaphoreTypeOK'
  BY <1>1, <1>2, <1>3, <1>4 DEF SemaphoreTypeOK, Room
<1>7. Accounting'
  <2>1. available = max - Cardinality(holders)
    BY DEF SemaphoreInv, Accounting
  <2>2. available' = available + m - max - n /\ n \in Int
    BY <1>1, <1>3, <1>2 DEF Room
  <2>3. Cardinality(holders') = Cardinality(holders) + n /\ max' = m
    BY <1>1, <1>4
  <2> HIDE DEF n
  <2> QED BY <1>2, <1>5, <2>1, <2>2, <2>3 DEF Accounting
<1>8. NoIdlePermit'
  <2> SUFFICES ASSUME available' > 0 PROVE queue' = <<>>
    BY DEF NoIdlePermit
  <2>1. room \in Int /\ n \in Nat /\ room - n > 0
    BY <1>1, <1>2, <1>3 DEF Room
  <2> HIDE DEF room
  <2>2. ~(room <= 0) /\ ~(room <= Len(queue))
    BY <1>2, <2>1 DEF Woken
  <2>3. n = Len(queue)
    BY <2>2 DEF Woken
  <2>4. Len(queue') = 0
    BY <1>2, <1>4, <2>3
  <2> QED BY <1>4, <2>4, EmptySeq
<1>9. Parked'
  BY <1>4 DEF Parked, Waiting, Elems, Distinct
<1> QED BY <1>6, <1>7, <1>8, <1>9 DEF SemaphoreInv

\* The inductive step.
LEMMA NextInv == SemaphoreInv /\ [Next]_vars => SemaphoreInv'
<1> SUFFICES ASSUME SemaphoreInv, [Next]_vars PROVE SemaphoreInv'
  OBVIOUS
<1>1. ASSUME NEW c \in Clients, Acquire(c) PROVE SemaphoreInv'
  BY <1>1, AcquireInv
<1>2. ASSUME NEW c \in Clients, Release(c) PROVE SemaphoreInv'
  BY <1>2, ReleaseInv
<1>3. ASSUME NEW m \in Ceilings, SetMax(m) PROVE SemaphoreInv'
  BY <1>3, SetMaxInv
<1>4. CASE UNCHANGED vars
  BY <1>4 DEF vars, SemaphoreInv, SemaphoreTypeOK, Parked, Waiting, Accounting, NoIdlePermit
<1> QED BY <1>1, <1>2, <1>3, <1>4 DEF Next

\* Every call is in one place and the permits are accounted for, whatever the
\* ceilings: the inductive invariant holds in every reachable state.
THEOREM Invariance == Spec => []SemaphoreInv
<1>1. Init => SemaphoreInv
  BY InitInv
<1>2. SemaphoreInv /\ [Next]_vars => SemaphoreInv'
  BY NextInv
<1> QED BY <1>1, <1>2, PTL DEF Spec

\* The variables keep their types (lib/semaphore.ts holds plain numbers).
THEOREM TypeCorrect == Spec => []SemaphoreTypeOK
<1>1. SemaphoreInv => SemaphoreTypeOK
  BY DEF SemaphoreInv
<1> QED BY <1>1, Invariance, PTL

\* The permits left are the ceiling in force minus the calls that hold one.
THEOREM AccountingHolds == Spec => []Accounting
<1>1. SemaphoreInv => Accounting
  BY DEF SemaphoreInv
<1> QED BY <1>1, Invariance, PTL

\* No permit lies idle while a call is parked.
THEOREM NoIdlePermitHolds == Spec => []NoIdlePermit
<1>1. SemaphoreInv => NoIdlePermit
  BY DEF SemaphoreInv
<1> QED BY <1>1, Invariance, PTL

-----------------------------------------------------------------------------

\* A step that grants a permit leaves no debt under the ceiling in force.
LEMMA GrantLeavesNoDebt ==
  ASSUME SemaphoreInv, [Next]_vars, NEW c \in Clients, c \notin holders, c \in holders'
  PROVE  available' >= 0
<1> USE DEF SemaphoreInv, SemaphoreTypeOK
<1>1. ASSUME NEW d \in Clients, Acquire(d) PROVE available' >= 0
  BY <1>1 DEF Acquire
<1>2. ASSUME NEW d \in Clients, Release(d) PROVE available' >= 0
  BY <1>2 DEF Release, HandsOn
<1>3. ASSUME NEW m \in Ceilings, SetMax(m) PROVE available' >= 0
  <2> DEFINE room == Room(m)
             n    == Woken(room)
  <2>1. available' = room - n /\ holders' = holders \cup {queue[i] : i \in 1..n}
    BY <1>3 DEF SetMax
  <2>2. room \in Int /\ Len(queue) \in Nat
    BY SemaphoreAssumption, LenProperties DEF Room
  <2>3. 1..n # {}
    BY <2>1
  <2> HIDE DEF room
  <2>4. room > 0
    BY <2>2, <2>3 DEF Woken
  <2>5. n <= room /\ n \in Int
    BY <2>2, <2>4 DEF Woken
  <2> HIDE DEF n
  <2> QED BY <2>1, <2>2, <2>5
<1>4. ~ UNCHANGED vars
  BY DEF vars
<1> QED BY <1>1, <1>2, <1>3, <1>4 DEF Next

\* A permit is only ever granted under the ceiling in force, however it moved.
THEOREM GrantsUnderCeilingHolds == Spec => GrantsUnderCeiling
<1> DEFINE Grants == \A c \in Clients :
                       c \notin holders /\ c \in holders' => Cardinality(holders') <= max'
<1>1. SemaphoreInv /\ SemaphoreInv' /\ [Next]_vars => [Grants]_vars
  <2> SUFFICES ASSUME SemaphoreInv, SemaphoreInv', [Next]_vars,
                      NEW c \in Clients, c \notin holders, c \in holders'
               PROVE  Cardinality(holders') <= max'
    OBVIOUS
  <2>1. available' >= 0
    BY GrantLeavesNoDebt
  <2>2. available' = max' - Cardinality(holders')
    BY DEF SemaphoreInv, Accounting
  <2>3. max' \in Int /\ Cardinality(holders') \in Int /\ available' \in Int
    BY SemaphoreAssumption, FS_Subset, FS_CardinalityType DEF SemaphoreInv, SemaphoreTypeOK
  <2> QED BY <2>1, <2>2, <2>3
<1>2. Spec => [][Grants]_vars
  <2>1. Spec => [][Next]_vars
    BY DEF Spec
  <2> HIDE DEF Grants
  <2> QED BY <1>1, <2>1, Invariance, PTL
<1> QED BY <1>2 DEF GrantsUnderCeiling

-----------------------------------------------------------------------------

\* Those served are those who stop waiting: the n oldest, and nobody else.
LEMMA ServedLeave ==
  ASSUME NEW q \in Seq(Clients), NEW n \in 0..Len(q), Distinct(q)
  PROVE  /\ Elems(Rest(q, n)) \subseteq Elems(q)
         /\ Elems(q) \ Elems(Rest(q, n)) = First(q, n)
<1> DEFINE q2 == Rest(q, n)
<1>1. DOMAIN q = 1..Len(q) /\ n \in Nat /\ Len(q) \in Nat /\ n <= Len(q)
  BY LenProperties
<1>2. \A i \in (n + 1)..Len(q) : q[i] \in Clients
  BY <1>1, ElementOfSeq
<1>3. /\ q2 \in Seq(Clients)
      /\ Len(q2) = IF n + 1 <= Len(q) THEN Len(q) - (n + 1) + 1 ELSE 0
      /\ \A i \in 1..(Len(q) - (n + 1) + 1) : q2[i] = q[(n + 1) + i - 1]
  BY <1>1, <1>2, SubSeqProperties DEF Rest
<1> HIDE DEF q2
<1>4. DOMAIN q2 = 1..(Len(q) - n)
  <2>1. DOMAIN q2 = 1..Len(q2)
    BY <1>3, LenProperties
  <2>2. \A l, k, r : l \in Nat /\ k \in Nat /\ k <= l
                   /\ r = (IF k + 1 <= l THEN l - (k + 1) + 1 ELSE 0) => r = l - k
    OBVIOUS
  <2>3. Len(q2) = Len(q) - n
    <3>1. Len(q2) = IF n + 1 <= Len(q) THEN Len(q) - (n + 1) + 1 ELSE 0
      BY <1>3
    <3>2. n \in Nat /\ Len(q) \in Nat /\ n <= Len(q)
      BY <1>1
    <3> QED BY ONLY <2>2, <3>1, <3>2, Zenon
  <2> QED BY <2>1, <2>3
<1>5. \A i \in 1..(Len(q) - n) : q2[i] = q[n + i] /\ n + i \in DOMAIN q
  <2> TAKE i \in 1..(Len(q) - n)
  <2>1. i \in 1..(Len(q) - (n + 1) + 1) /\ (n + 1) + i - 1 = n + i
    BY <1>1
  <2>2. q2[i] = q[(n + 1) + i - 1]
    BY <1>3, <2>1
  <2>3. q2[i] = q[n + i]
    BY ONLY <2>1, <2>2
  <2> QED BY <1>1, <2>3
<1>6. Elems(q2) \subseteq Elems(q)
  BY <1>4, <1>5 DEF Elems
<1>7. ASSUME NEW k \in 1..n PROVE q[k] \in Elems(q) /\ q[k] \notin Elems(q2)
  <2>1. k \in DOMAIN q
    BY <1>1
  <2>2. ASSUME NEW i \in 1..(Len(q) - n) PROVE q2[i] # q[k]
    <3>1. n + i # k /\ n + i \in DOMAIN q
      BY <1>1, <1>5
    <3> QED BY <1>5, <2>1, <3>1 DEF Distinct
  <2> QED BY <1>4, <2>1, <2>2 DEF Elems
<1>8. ASSUME NEW k \in DOMAIN q, q[k] \notin Elems(q2) PROVE q[k] \in First(q, n)
  <2>1. CASE k \in 1..n
    BY <2>1 DEF First
  <2>2. CASE k \notin 1..n
    <3>1. k - n \in 1..(Len(q) - n) /\ n + (k - n) = k
      BY <1>1, <2>2
    <3>2. q2[k - n] = q[k]
      BY <1>5, <3>1
    <3> QED BY <1>4, <1>8, <3>1, <3>2 DEF Elems
  <2> QED BY <2>1, <2>2
<1>9. Elems(q) \ Elems(q2) = First(q, n)
  BY <1>7, <1>8 DEF Elems, First
<1> QED BY <1>6, <1>9 DEF q2

\* Both modules count with the same operator.
LEMMA SameCardinality == \A S : P!Cardinality(S) = Cardinality(S)
  BY DEF P!Cardinality, Cardinality

\* No step grants over its ceiling, and none leaves a call waiting under it.
LEMMA StepsAreOrderly ==
  ASSUME SemaphoreInv, SemaphoreInv', Next
  PROVE  P!Orderly
<1>1. /\ holders \subseteq Clients /\ holders' \subseteq Clients
      /\ max' \in Int /\ available' \in Int /\ Cardinality(holders') \in Int
  BY SemaphoreAssumption, FS_Subset, FS_CardinalityType DEF SemaphoreInv, SemaphoreTypeOK
<1>2. available' = max' - Cardinality(holders')
  BY DEF SemaphoreInv, Accounting
<1>3. ASSUME holders' \ holders # {} PROVE Cardinality(holders') <= max'
  <2>1. PICK c \in Clients : c \notin holders /\ c \in holders'
    BY <1>1, <1>3
  <2>2. available' >= 0
    BY <2>1, GrantLeavesNoDebt
  <2> QED BY <1>1, <1>2, <2>2
<1>4. ASSUME Waiting' # {} PROVE Cardinality(holders') >= max'
  <2>1. queue' # <<>>
    BY <1>4 DEF Waiting
  <2>2. ~(available' > 0)
    BY <2>1 DEF SemaphoreInv, NoIdlePermit
  <2> QED BY <1>1, <1>2, <2>2
<1> QED BY <1>3, <1>4, SameCardinality DEF P!Orderly

\* Each operation is one of the permits' own: the queue's order is all that is
\* forgotten.
LEMMA StepsAreSteps ==
  ASSUME SemaphoreInv, SemaphoreInv', [Next]_vars
  PROVE  [P!PermitsNext]_(P!permitVars)
<1> USE DEF SemaphoreInv, SemaphoreTypeOK
<1>0. Distinct(queue) /\ Elems(queue) = Waiting /\ Elems(queue)' = Waiting'
  BY DEF Parked, Distinct, Elems, Waiting
<1>1. ASSUME NEW c \in Clients, Acquire(c) PROVE P!Ask(c)
  <2>1. c \notin Waiting \cup holders /\ max' = max
    BY <1>1 DEF Acquire
  <2>2. CASE available > 0
    BY <1>1, <2>1, <2>2 DEF Acquire, P!Ask, Waiting
  <2>3. CASE ~(available > 0)
    <3>1. queue' = Append(queue, c) /\ holders' = holders
      BY <1>1, <2>3 DEF Acquire
    <3>2. /\ DOMAIN queue = 1..Len(queue) /\ DOMAIN queue' = 1..(Len(queue) + 1)
          /\ Len(queue) \in Nat
          /\ \A i \in 1..Len(queue) : queue'[i] = queue[i]
          /\ queue'[Len(queue) + 1] = c
      BY <3>1
    <3>3. Waiting' \subseteq Waiting \cup {c}
      BY <3>2 DEF Waiting
    <3>4. Waiting \cup {c} \subseteq Waiting'
      BY <3>2 DEF Waiting
    <3> QED BY <2>1, <3>1, <3>3, <3>4 DEF P!Ask
  <2> QED BY <2>2, <2>3
<1>2. ASSUME NEW c \in Clients, Release(c) PROVE P!GiveBack(c)
  <2>1. c \in holders /\ max' = max
    BY <1>2 DEF Release
  <2>2. CASE HandsOn
    <3>1. /\ holders' = (holders \ {c}) \cup {Head(queue)} /\ queue' = Rest(queue, 1)
          /\ queue # <<>>
      BY <1>2, <2>2 DEF Release, HandsOn, Left, Rest
    <3>2. 1 \in 0..Len(queue)
      BY <3>1, EmptySeq, LenProperties
    <3>3. Waiting' \subseteq Waiting /\ Waiting \ Waiting' = First(queue, 1)
      BY <1>0, <3>1, <3>2, ServedLeave DEF Elems
    <3>4. First(queue, 1) = {Head(queue)}
      BY <3>1 DEF First
    <3> QED BY <2>1, <3>1, <3>3, <3>4 DEF P!GiveBack, P!Granted
  <2>3. CASE ~HandsOn
    BY <1>2, <2>1, <2>3 DEF Release, P!GiveBack, P!Granted, Waiting
  <2> QED BY <2>2, <2>3
<1>3. ASSUME NEW m \in Ceilings, SetMax(m) PROVE P!Move
  <2> DEFINE n == Woken(Room(m))
  <2>1. /\ max' = m /\ Accepts(m)
        /\ holders' = holders \cup First(queue, n)
        /\ queue' = Rest(queue, n)
    BY <1>3 DEF SetMax, Left, First, Rest
  <2>2. m \in Nat \ {0}
    BY <2>1, SemaphoreAssumption DEF Accepts
  <2>3. Room(m) \in Int /\ Len(queue) \in Nat
    BY <2>2, LenProperties DEF Room
  <2>4. n \in 0..Len(queue)
    BY <2>3 DEF Woken
  <2> HIDE DEF n
  <2>5. /\ Elems(Rest(queue, n)) \subseteq Elems(queue)
        /\ Elems(queue) \ Elems(Rest(queue, n)) = First(queue, n)
    BY <1>0, <2>4, ServedLeave
  <2>6. Elems(Rest(queue, n)) = Waiting'
    BY <1>0, <2>1 DEF Elems
  <2>7. Waiting' \subseteq Waiting /\ Waiting \ Waiting' = First(queue, n)
    BY <1>0, <2>5, <2>6
  <2> QED BY <2>1, <2>2, <2>7 DEF P!Move, P!Granted
<1>4. CASE UNCHANGED vars
  BY <1>4 DEF vars, Waiting, P!permitVars
<1>5. CASE Next
  <2>1. P!Orderly
    BY <1>5, StepsAreOrderly
  <2>2. P!Move \/ \E c \in Clients : P!Ask(c) \/ P!GiveBack(c)
    BY <1>1, <1>2, <1>3, <1>5 DEF Next
  <2> QED BY <2>1, <2>2 DEF P!PermitsNext
<1> QED BY <1>4, <1>5

\* The counter and the queue of lib/semaphore.ts implement the permits they
\* stand for: every behaviour of acquire, release and setMax, for any calls and
\* ceilings, is one of Permits once the order of the parked calls is forgotten.
THEOREM PermitsImplemented == Spec => ImplementsPermits
<1>1. Init => P!PermitsInit
  BY SemaphoreAssumption DEF Init, Accepts, P!PermitsInit, Waiting
<1>2. SemaphoreInv /\ SemaphoreInv' /\ [Next]_vars => [P!PermitsNext]_(P!permitVars)
  BY StepsAreSteps
<1> QED BY <1>1, <1>2, Invariance, PTL DEF Spec, ImplementsPermits, P!PermitsSpec

-----------------------------------------------------------------------------
(* LocalStatus.                                                            *)

(* What the probe relies on between its two awaits, and what the count of  *)
(* failures says of the last answer.                                       *)
ProbeInv ==
  /\ localApi \in BOOLEAN
  /\ was \in BOOLEAN
  /\ history \in [last : BOOLEAN, before : BOOLEAN]
  /\ failures \in Nat
  /\ inflight \in {"none", "asking", "listing"}
  /\ inflight # "none" => was = localApi
  /\ failures > 0 => ~history.last

LEMMA SmallerIsNat ==
  ASSUME NEW a \in Nat, NEW b \in Nat
  PROVE  Smaller(a, b) \in Nat
BY DEF Smaller

LEMMA SmallerIsPositive ==
  ASSUME NEW a \in Nat, NEW b \in Nat, Smaller(a, b) > 0
  PROVE  a > 0
BY DEF Smaller

LEMMA InitEstablishes == StatusInit => ProbeInv /\ GroupsOnlyWhileUp
BY DEF StatusInit, ProbeInv, GroupsOnlyWhileUp

LEMMA StepPreserves ==
  ASSUME ProbeInv, GroupsOnlyWhileUp, [StatusNext]_statusVars
  PROVE  ProbeInv' /\ GroupsOnlyWhileUp'
<1> USE DEF ProbeInv, GroupsOnlyWhileUp
<1>1. CASE DesktopChanges
  BY <1>1 DEF DesktopChanges, answer
<1>2. CASE Tick
  BY <1>2 DEF Tick, answer
<1>3. ASSUME NEW force \in BOOLEAN, Ensure(force)
      PROVE  ProbeInv' /\ GroupsOnlyWhileUp'
  BY <1>3 DEF Ensure, answer
<1>4. CASE ProbeUp
  <2>1. /\ failures' = 0
        /\ history' = [last |-> TRUE, before |-> history.last]
        /\ was' = was /\ localGroupIds' = localGroupIds
        /\ inflight = "asking"
    BY <1>4 DEF ProbeUp, FailuresAfterAnswer, Remembered
  <2>2. \/ localApi' = TRUE /\ inflight' = "none"
        \/ localApi' = localApi /\ inflight' = "listing"
    BY <1>4 DEF ProbeUp
  <2>3. failures' \in Nat /\ (failures' > 0 => ~history'.last)
    BY <2>1
  <2>4. history' \in [last : BOOLEAN, before : BOOLEAN]
    BY <2>1
  <2>5. localApi' \in BOOLEAN /\ was' \in BOOLEAN /\ GroupsOnlyWhileUp'
    BY <2>1, <2>2
  <2>6. inflight' \in {"none", "asking", "listing"} /\ (inflight' # "none" => was' = localApi')
    BY <2>1, <2>2
  <2> QED  BY <2>3, <2>4, <2>5, <2>6
<1>5. CASE GroupsListed
  BY <1>5 DEF GroupsListed
<1>6. CASE ProbeDown
  <2>1. failures' \in Nat
    BY <1>6, StatusAssumption, SmallerIsNat DEF ProbeDown
  <2>2. history' = [last |-> FALSE, before |-> history.last]
    BY <1>6 DEF ProbeDown, Remembered
  <2>3. /\ localApi' \in BOOLEAN
        /\ was' \in BOOLEAN
        /\ inflight' = "none"
    BY <1>6 DEF ProbeDown, answer
  <2>4. GroupsOnlyWhileUp'
    <3>1. CASE ~GivesUp
      BY <1>6, <3>1 DEF ProbeDown, answer
    <3>2. CASE GivesUp
      BY <1>6, <3>2 DEF ProbeDown, GroupsWhenDown
    <3> QED  BY <3>1, <3>2
  <2> QED  BY <2>1, <2>2, <2>3, <2>4
<1>7. CASE UNCHANGED statusVars
  BY <1>7 DEF statusVars, answer
<1> QED  BY <1>1, <1>2, <1>3, <1>4, <1>5, <1>6, <1>7 DEF StatusNext, Probe

(* Every reachable state satisfies the probe's invariant.                  *)
THEOREM ProbeInvariance == StatusSpec => [](ProbeInv /\ GroupsOnlyWhileUp)
<1>1. ProbeInv /\ GroupsOnlyWhileUp /\ [StatusNext]_statusVars => (ProbeInv /\ GroupsOnlyWhileUp)'
  BY StepPreserves
<1> QED  BY InitEstablishes, <1>1, PTL DEF StatusSpec

(* Group libraries are published only while the desktop app is believed up *)
(* (local-status.ts:230-233).                                              *)
THEOREM GroupsOnlyWhileUpHolds == StatusSpec => []GroupsOnlyWhileUp
BY ProbeInvariance, PTL

(* Only the probe gives the desktop app up, and only after a failure the   *)
(* one before it had already counted.                                      *)
LEMMA GivenUpAfterTwo ==
  ASSUME ProbeInv, [StatusNext]_statusVars
  PROVE  [(localApi /\ ~localApi') => ~history'.last /\ ~history'.before]_statusVars
<1> SUFFICES ASSUME localApi, ~localApi', StatusNext
             PROVE  ~history'.last /\ ~history'.before
  BY DEF statusVars, answer
<1>1. ProbeDown
  BY DEF StatusNext, Probe, DesktopChanges, Tick, Ensure, ProbeUp, GroupsListed, answer
<1>2. GivesUp /\ inflight = "asking"
  BY <1>1 DEF ProbeDown, answer
<1>3. failures > 0
  BY <1>2, StatusAssumption DEF GivesUp, ProbeInv
<1>4. history' = [last |-> FALSE, before |-> history.last]
  BY <1>1 DEF ProbeDown, Remembered
<1> QED  BY <1>3, <1>4 DEF ProbeInv

(* A desktop app known to answer is given up only after two unanswered     *)
(* probes in a row (local-status.ts:222-229).                              *)
THEOREM TwoStrikesHolds == StatusSpec => TwoStrikes
<1>1. ProbeInv /\ [StatusNext]_statusVars => [(localApi /\ ~localApi') => ~history'.last /\ ~history'.before]_statusVars
  BY GivenUpAfterTwo
<1> QED  BY ProbeInvariance, <1>1, PTL DEF StatusSpec, TwoStrikes

-----------------------------------------------------------------------------
(* The probe's types.                                                      *)

LEMMA LongestIsLongest ==
  /\ Oldest \in Nat
  /\ PositiveTtl <= Oldest /\ NegativeCeiling <= Oldest /\ TimeoutTtl <= Oldest
<1> DEFINE ttls == {PositiveTtl, NegativeCeiling, TimeoutTtl}
<1>1. PositiveTtl \in Nat /\ NegativeCeiling \in Nat /\ TimeoutTtl \in Nat
  BY StatusAssumption
<1>2. \E t \in ttls : \A u \in ttls : u <= t
  BY <1>1
<1>3. Oldest \in ttls /\ \A u \in ttls : u <= Oldest
  BY <1>2 DEF Oldest
<1> QED BY <1>1, <1>3

LEMMA StatusInitTypes == StatusInit => StatusTypeOK
<1> SUFFICES ASSUME StatusInit PROVE StatusTypeOK
  OBVIOUS
<1>1. age \in 0..Oldest /\ negativeTtl \in NegativeFloor..Oldest /\ failures \in 0..FailuresBeforeDown
  BY StatusAssumption, LongestIsLongest DEF StatusInit
<1> QED BY <1>1 DEF StatusInit, StatusTypeOK

\* What an unanswered probe sets stays a time to live the program knows.
LEMMA NextTtlInRange ==
  ASSUME negativeTtl \in NegativeFloor..Oldest
  PROVE  NextTtl \in NegativeFloor..Oldest
BY StatusAssumption, LongestIsLongest DEF NextTtl, Smaller

LEMMA StatusStepTypes ==
  ASSUME StatusTypeOK, [StatusNext]_statusVars
  PROVE  StatusTypeOK'
<1> USE DEF StatusTypeOK
<1>0. /\ Oldest \in Nat /\ NegativeFloor \in Nat /\ FailuresBeforeDown \in Nat
      /\ NegativeFloor <= Oldest
  BY StatusAssumption, LongestIsLongest
<1>1. CASE DesktopChanges
  BY <1>1 DEF DesktopChanges, answer
<1>2. CASE Tick
  <2>1. age' \in 0..Oldest
    BY <1>0, <1>2 DEF Tick, Smaller
  <2> QED BY <1>2, <2>1 DEF Tick, answer
<1>3. ASSUME NEW force \in BOOLEAN, Ensure(force)
      PROVE  StatusTypeOK'
  BY <1>3 DEF Ensure, answer
<1>4. CASE ProbeUp
  <2>1. /\ age' \in 0..Oldest
        /\ negativeTtl' \in NegativeFloor..Oldest
        /\ failures' \in 0..FailuresBeforeDown
    BY <1>0, <1>4 DEF ProbeUp, FailuresAfterAnswer
  <2>2. history' \in [last : BOOLEAN, before : BOOLEAN]
    BY <1>4 DEF ProbeUp, Remembered
  <2>3. /\ localApi' \in BOOLEAN
        /\ inflight' \in {"none", "asking", "listing"}
    BY <1>4 DEF ProbeUp
  <2> QED BY <1>4, <2>1, <2>2, <2>3 DEF ProbeUp
<1>5. CASE GroupsListed
  BY <1>5 DEF GroupsListed, Listed
<1>6. CASE ProbeDown
  <2>1. age' \in 0..Oldest
    BY <1>0, <1>6 DEF ProbeDown
  <2>2. negativeTtl' \in NegativeFloor..Oldest
    BY <1>6, NextTtlInRange DEF ProbeDown
  <2>3. failures' \in 0..FailuresBeforeDown
    BY <1>0, <1>6 DEF ProbeDown, Smaller
  <2>4. history' \in [last : BOOLEAN, before : BOOLEAN]
    BY <1>6 DEF ProbeDown, Remembered
  <2>5. /\ localApi' \in BOOLEAN /\ groupsKnown' \in BOOLEAN /\ degraded' \in BOOLEAN
        /\ localGroupIds' \in SUBSET Groups
    <3>1. CASE ~GivesUp
      BY <1>6, <3>1 DEF ProbeDown, answer
    <3>2. CASE GivesUp
      BY <1>6, <3>2 DEF ProbeDown, GroupsWhenDown
    <3> QED BY <3>1, <3>2
  <2>6. desktop' = desktop /\ was' = was /\ inflight' = "none"
    BY <1>6 DEF ProbeDown
  <2> QED BY <2>1, <2>2, <2>3, <2>4, <2>5, <2>6
<1>7. CASE UNCHANGED statusVars
  BY <1>7 DEF statusVars, answer
<1> QED BY <1>1, <1>2, <1>3, <1>4, <1>5, <1>6, <1>7 DEF StatusNext, Probe

-----------------------------------------------------------------------------
(* The crawl.                                                              *)

(* Between crawls the semaphore is empty; while a crawl runs over an app   *)
(* that was given up, it has been told, and once told it keeps the ceiling *)
(* it was told to take until it ends.                                      *)
ThrottleInv ==
  /\ SemaphoreInv
  /\ crawling \in BOOLEAN /\ noted \in BOOLEAN
  /\ ~crawling => holders = {} /\ queue = <<>>
  /\ crawling /\ noted => max = SaturatedConcurrency
  /\ crawling /\ ~localApi => noted

CrawlInv == ThrottleInv /\ StatusTypeOK /\ ProbeInv /\ GroupsOnlyWhileUp

\* The semaphore of a crawl that has not read yet.
Fresh == max = FulltextConcurrency /\ available = max /\ queue = <<>> /\ holders = {}

LEMMA FreshInv == Fresh => SemaphoreInv
<1> SUFFICES ASSUME Fresh PROVE SemaphoreInv
  OBVIOUS
<1>1. max \in Nat \ {0} /\ queue = <<>> /\ holders = {} /\ available = max
  BY CrawlAssumption DEF Fresh
<1>2. SemaphoreTypeOK
  BY <1>1 DEF SemaphoreTypeOK
<1>3. Accounting
  BY <1>1, FS_EmptySet DEF Accounting
<1> QED BY <1>1, <1>2, <1>3 DEF SemaphoreInv, Parked, NoIdlePermit, Waiting

LEMMA CrawlInitInv == CrawlInit => CrawlInv
<1> SUFFICES ASSUME CrawlInit PROVE CrawlInv
  OBVIOUS
<1>1. Fresh /\ StatusInit /\ crawling = FALSE /\ noted = FALSE
  BY DEF CrawlInit, Fresh
<1> QED
  BY <1>1, FreshInv, InitEstablishes, StatusInitTypes DEF CrawlInv, ThrottleInv, Fresh

(* What a step is to each of the two parts.  A crawl that starts finds an  *)
(* empty semaphore and leaves a fresh one; every other step is one of the  *)
(* semaphore's own, or none.                                               *)
LEMMA StepOfTheProbe ==
  ASSUME [CrawlNext]_crawlVars
  PROVE  [StatusNext]_statusVars
BY DEF CrawlNext, crawlVars, StartCrawl, StartRead, EndRead, EndCrawl, Moves

LEMMA StepOfTheSemaphore ==
  ASSUME [CrawlNext]_crawlVars
  PROVE  StartCrawl \/ [Next]_vars
<1>1. semaphoreVars = vars
  BY DEF semaphoreVars, vars
<1>2. ASSUME NEW c \in Clients, StartRead(c) \/ EndRead(c) PROVE Next
  BY <1>2 DEF StartRead, EndRead, Next
<1>3. CASE EndCrawl
  BY <1>1, <1>3 DEF EndCrawl, semaphoreVars, vars
<1>4. CASE Moves(StatusNext)
  <2>1. CASE UNCHANGED semaphoreVars
    BY <2>1 DEF semaphoreVars, vars
  <2>2. CASE SetMax(SaturatedConcurrency)
    BY <2>2, CrawlAssumption DEF Next
  <2> QED BY <1>4, <2>1, <2>2 DEF Moves, NoteLocalApiDegraded
<1>5. CASE UNCHANGED crawlVars
  BY <1>5 DEF crawlVars, semaphoreVars, vars
<1> QED BY <1>2, <1>3, <1>4, <1>5 DEF CrawlNext

LEMMA StartedFresh ==
  ASSUME StartCrawl
  PROVE  Fresh' /\ crawling' = TRUE /\ noted' = FALSE /\ localApi' = localApi /\ localApi
BY DEF StartCrawl, NotedAtStart, Fresh, statusVars, answer

LEMMA CrawlStepKeepsSemaphore ==
  ASSUME ThrottleInv, [CrawlNext]_crawlVars
  PROVE  SemaphoreInv'
<1>1. CASE StartCrawl
  <2>1. Fresh'
    BY <1>1, StartedFresh
  <2>2. /\ max' \in Nat \ {0} /\ queue' = <<>> /\ holders' = {} /\ available' = max'
    BY <2>1, CrawlAssumption DEF Fresh
  <2>3. SemaphoreTypeOK'
    BY <2>2 DEF SemaphoreTypeOK
  <2>4. Accounting'
    BY <2>2, FS_EmptySet DEF Accounting
  <2> QED BY <2>2, <2>3, <2>4 DEF SemaphoreInv, Parked, NoIdlePermit, Waiting
<1>2. CASE [Next]_vars
  BY <1>2, NextInv DEF ThrottleInv
<1> QED BY <1>1, <1>2, StepOfTheSemaphore

LEMMA CrawlStepThrottles ==
  ASSUME ThrottleInv, StatusTypeOK, [CrawlNext]_crawlVars
  PROVE  ThrottleInv'
<1>0. SemaphoreInv'
  BY CrawlStepKeepsSemaphore
<1> USE DEF ThrottleInv
<1>1. CASE StartCrawl
  BY <1>0, <1>1, StartedFresh
<1>2. ASSUME NEW c \in Clients, StartRead(c) \/ EndRead(c) PROVE ThrottleInv'
  <2>1. crawling /\ crawling' = crawling /\ noted' = noted /\ localApi' = localApi
    BY <1>2 DEF StartRead, EndRead, statusVars, answer
  <2>2. max' = max
    BY <1>2 DEF StartRead, EndRead, Acquire, Release
  <2> QED BY <1>0, <2>1, <2>2
<1>3. CASE EndCrawl
  <2>1. /\ holders = {} /\ Waiting = {} /\ crawling' = FALSE
        /\ holders' = holders /\ queue' = queue /\ noted' = noted
    BY <1>3 DEF EndCrawl, semaphoreVars
  <2>2. queue = <<>>
    <3>1. queue \in Seq(Clients) /\ DOMAIN queue = {}
      BY <2>1 DEF Waiting, SemaphoreInv, SemaphoreTypeOK
    <3>2. Len(queue) = 0
      BY <3>1, LenProperties
    <3> QED BY <3>1, <3>2, EmptySeq
  <2> QED BY <1>0, <2>1, <2>2
<1>4. CASE Moves(StatusNext)
  <2>1. crawling' = crawling
    BY <1>4 DEF Moves
  <2>2. CASE Degrades /\ NoteLocalApiDegraded
    <3>1. crawling /\ noted' = TRUE
      BY <2>2 DEF NoteLocalApiDegraded
    <3>2. max' = SaturatedConcurrency
      BY <2>2 DEF NoteLocalApiDegraded, SetMax, semaphoreVars
    <3> QED BY <1>0, <2>1, <3>1, <3>2
  <2>3. CASE ~(Degrades /\ crawling /\ ~noted) /\ UNCHANGED <<semaphoreVars, noted>>
    <3>1. /\ noted' = noted /\ max' = max /\ holders' = holders /\ queue' = queue
          /\ ~(localApi /\ ~localApi' /\ crawling /\ ~noted)
      BY <2>3 DEF semaphoreVars, Degrades
    <3>2. crawling /\ ~localApi' => noted
      BY <3>1
    <3> QED BY <1>0, <2>1, <3>1, <3>2
  <2> QED BY <1>4, <2>2, <2>3 DEF Moves
<1>5. CASE UNCHANGED crawlVars
  BY <1>0, <1>5 DEF crawlVars, semaphoreVars, statusVars, answer
<1> QED BY <1>1, <1>2, <1>3, <1>4, <1>5 DEF CrawlNext

(* Every reachable state of a crawl and its app satisfies the invariant.   *)
THEOREM CrawlInvariance == CrawlSpec => []CrawlInv
<1>1. CrawlInv /\ [CrawlNext]_crawlVars => CrawlInv'
  BY CrawlStepThrottles, StepOfTheProbe, StatusStepTypes, StepPreserves DEF CrawlInv
<1> QED BY CrawlInitInv, <1>1, PTL DEF CrawlSpec

(* The variables of the semaphore and of the probe keep their types, the   *)
(* counts and times to live within their bounds.                           *)
THEOREM CrawlTypes == CrawlSpec => []CrawlTypeOK
<1>1. CrawlInv => CrawlTypeOK
  BY DEF CrawlInv, ThrottleInv, SemaphoreInv, CrawlTypeOK
<1> QED BY <1>1, CrawlInvariance, PTL

(* The permits of a crawl add up through every outage and every new crawl  *)
(* (lib/semaphore.ts:20, index-manager.ts:822).                            *)
THEOREM CrawlAccounts == CrawlSpec => []Accounting
<1>1. CrawlInv => Accounting
  BY DEF CrawlInv, ThrottleInv, SemaphoreInv
<1> QED BY <1>1, CrawlInvariance, PTL

(* Groups are published only while the app is believed up, also while a    *)
(* crawl loads it (local-status.ts:230-233).                               *)
THEOREM CrawlGroups == CrawlSpec => []GroupsOnlyWhileUp
<1>1. CrawlInv => GroupsOnlyWhileUp
  BY DEF CrawlInv
<1> QED BY <1>1, CrawlInvariance, PTL

(* A crawl and what is known of its app are sound in every reachable       *)
(* state: types, permits and published groups.                             *)
THEOREM CrawlIsSound == CrawlSpec => []CrawlSound
<1> QED BY CrawlTypes, CrawlAccounts, CrawlGroups, PTL DEF CrawlSound

(* A crawl does not make the app be given up any sooner                    *)
(* (local-status.ts:222-229).                                              *)
THEOREM CrawlTwoStrikes == CrawlSpec => TwoStrikes
<1>1. CrawlInv /\ [CrawlNext]_crawlVars
        => [(localApi /\ ~localApi') => ~history'.last /\ ~history'.before]_statusVars
  BY StepOfTheProbe, GivenUpAfterTwo DEF CrawlInv
<1> QED BY CrawlInvariance, <1>1, PTL DEF CrawlSpec, TwoStrikes

-----------------------------------------------------------------------------
(* Reads while the app is given up.                                        *)

\* A step that grants permits leaves no more out than its ceiling.
LEMMA GrantsUnderTheCeiling ==
  ASSUME SemaphoreInv, SemaphoreInv', [Next]_vars, holders' \ holders # {}
  PROVE  Cardinality(holders') <= max'
<1>1. Next
  BY DEF vars
<1>2. P!Orderly
  BY <1>1, StepsAreOrderly
<1> QED BY <1>2, SameCardinality DEF P!Orderly

(* While the app is given up, a crawl that set out on it starts no more    *)
(* than the saturated number of reads at a time, however many were out and *)
(* whichever job this is (index-manager.ts:812-818).                       *)
THEOREM CrawlQuietWhileDown == CrawlSpec => QuietWhileDown
<1> DEFINE Quiet == crawling /\ ~localApi' /\ holders' \ holders # {}
                     => Cardinality(holders') <= SaturatedConcurrency
<1>1. CrawlInv /\ CrawlInv' /\ [CrawlNext]_crawlVars => [Quiet]_crawlVars
  <2> SUFFICES ASSUME CrawlInv, CrawlInv', [CrawlNext]_crawlVars,
                      crawling, ~localApi', holders' \ holders # {}
               PROVE  Cardinality(holders') <= SaturatedConcurrency
    OBVIOUS
  <2>1. ~StartCrawl
    BY DEF StartCrawl
  <2>2. [Next]_vars
    BY <2>1, StepOfTheSemaphore
  <2>3. Cardinality(holders') <= max'
    BY <2>2, GrantsUnderTheCeiling DEF CrawlInv, ThrottleInv
  <2>4. crawling'
    <3>1. ~EndCrawl
      BY DEF EndCrawl, semaphoreVars
    <3> QED
      BY <2>1, <3>1 DEF CrawlNext, StartRead, EndRead, Moves, crawlVars
  <2>5. max' = SaturatedConcurrency
    BY <2>4 DEF CrawlInv, ThrottleInv
  <2> QED BY <2>3, <2>5
<1>2. CrawlSpec => [][Quiet]_crawlVars
  <2>1. CrawlSpec => [][CrawlNext]_crawlVars
    BY DEF CrawlSpec
  <2> HIDE DEF Quiet
  <2> QED BY <1>1, <2>1, CrawlInvariance, PTL
<1> QED BY <1>2 DEF QuietWhileDown

(* The semaphores of successive crawls, each in its turn, implement the    *)
(* permits: a crawl starts when nobody holds or waits, so its new ceiling  *)
(* is one that was moved.                                                  *)
THEOREM CrawlImplementsPermits == CrawlSpec => ImplementsPermits
<1>1. CrawlInit => P!PermitsInit
  BY CrawlAssumption DEF CrawlInit, P!PermitsInit, Waiting
<1>2. CrawlInv /\ CrawlInv' /\ [CrawlNext]_crawlVars => [P!PermitsNext]_(P!permitVars)
  <2> SUFFICES ASSUME CrawlInv, CrawlInv', [CrawlNext]_crawlVars
               PROVE  [P!PermitsNext]_(P!permitVars)
    OBVIOUS
  <2>1. CASE [Next]_vars
    BY <2>1, StepsAreSteps DEF CrawlInv, ThrottleInv
  <2>2. CASE StartCrawl
    <3>1. Waiting = {} /\ holders = {}
      BY <2>2 DEF StartCrawl, CrawlInv, ThrottleInv, Waiting
    <3>2. Waiting' = {} /\ holders' = {} /\ max' \in Nat \ {0}
      BY <2>2, StartedFresh, CrawlAssumption DEF Fresh, Waiting
    <3>3. P!Move
      BY <3>1, <3>2 DEF P!Move, P!Granted
    <3>4. P!Orderly
      BY <3>1, <3>2 DEF P!Orderly
    <3> QED BY <3>3, <3>4 DEF P!PermitsNext
  <2> QED BY <2>1, <2>2, StepOfTheSemaphore
<1> QED BY <1>1, <1>2, CrawlInvariance, PTL DEF CrawlSpec, ImplementsPermits, P!PermitsSpec

-----------------------------------------------------------------------------
(* Read your writes.  A sync carries the whole library, so the desktop's   *)
(* copy is the cloud's as of some write d: whatever was written up to d it *)
(* has, and of what was written since it has nothing.  Whoever waits for a *)
(* later write than d still finds the object as it was when its baseline   *)
(* was measured, and a removed object still there; so a check that         *)
(* succeeds speaks of a write up to d, and of every earlier one.           *)

\* What the argument takes from the surroundings: the app's user does not edit,
\* and this server does not delete, what the desktop has yet to receive; writes
\* and their answers do not overlap one another, nor a sync in progress.
InTurn == ~EditsUnsynced /\ ~SyncOverlaps /\ ~ReportsOverlap /\ ~RemovesUnsynced

RoutingTypes ==
  /\ writes \in Nat /\ seq \in Nat
  /\ cloud \in [Keys -> Copy]
  /\ copy \in [Keys -> [write : Nat, there : BOOLEAN, version : Nat]]
  /\ syncing \in {None, cloud}
  /\ inFlight \subseteq Write
  /\ reported \in [Keys -> Nat]
  /\ pending \in Entry \cup {None}
  /\ probes \subseteq [id : Nat, key : Keys, answer : Version \cup {None}]
  /\ \A r \in Readers : reading[r] # None => reading[r] \in [entry : Entry, answer : Version \cup {None}]
  /\ DOMAIN reading = Readers

\* The desktop's copy is the cloud's as of write d.
AsOf(d) ==
  \A k \in Keys :
    /\ cloud[k].write <= writes /\ reported[k] <= cloud[k].write
    /\ cloud[k].write <= d => copy[k].write = cloud[k].write /\ copy[k].there = cloud[k].there
    /\ cloud[k].write > d => copy[k].write <= d /\ (cloud[k].there \/ copy[k].there)
    /\ reported[k] <= d => reported[k] <= copy[k].write

\* The cloud's copy holds this write, or a later one of the same object.
Written(id, key, removed) ==
  /\ 0 < id /\ id <= cloud[key].write
  /\ removed => cloud[key].write = id /\ ~cloud[key].there

\* An answer of the desktop about an object whose write it has yet to receive.
StillTrue(d, id, key, said) == d < id => said = ObjectVersion(key)

\* One write at a time is answered, and it is the latest.
FlightInv ==
  \A w \in inFlight :
    w.id = writes /\ Written(w.id, w.key, w.removed) /\ inFlight = {w}

PendingInv(d) ==
  pending # None =>
    /\ Written(pending.id, pending.key, pending.removed)
    /\ pending.before # Unknown => StillTrue(d, pending.id, pending.key, pending.before)

ProbesInv(d) ==
  \A p \in probes :
    /\ Written(p.id, p.key, FALSE)
    /\ inFlight # {} => p.id < writes
    /\ p.answer # None => StillTrue(d, p.id, p.key, p.answer)
    /\ pending # None /\ pending.id = p.id => pending.key = p.key

ReadingInv(d) ==
  \A r \in Readers : reading[r] # None =>
    /\ Written(reading[r].entry.id, reading[r].entry.key, reading[r].entry.removed)
    /\ WorthAsking(reading[r].entry)
    /\ reading[r].entry.before # Unknown =>
         StillTrue(d, reading[r].entry.id, reading[r].entry.key, reading[r].entry.before)
    /\ reading[r].answer # None =>
         StillTrue(d, reading[r].entry.id, reading[r].entry.key, reading[r].answer)

EntriesInv(d) == FlightInv /\ PendingInv(d) /\ ProbesInv(d) /\ ReadingInv(d)

\* What was reported is on the desktop, or the entry is about it or what follows it.
Awaited(d) ==
  \A k \in Keys : IF pending = None THEN reported[k] <= d ELSE reported[k] <= pending.id

SyncedTo(d) == AsOf(d) /\ EntriesInv(d) /\ Awaited(d)
RoutingInv == RoutingTypes /\ \E d \in 0..writes : SyncedTo(d)

-----------------------------------------------------------------------------

LEMMA InitRoutingInv ==
  ASSUME RoutingAssumption, RoutingInit
  PROVE  RoutingInv
<1>1. RoutingTypes
  BY DEF RoutingInit, RoutingTypes, Copy
<1>2. AsOf(0) /\ Awaited(0)
  BY DEF RoutingInit, AsOf, Awaited
<1>3. EntriesInv(0)
  BY DEF RoutingInit, EntriesInv, FlightInv, PendingInv, ProbesInv, ReadingInv
<1>4. 0 \in 0..writes
  BY DEF RoutingInit
<1> QED BY <1>1, <1>2, <1>3, <1>4 DEF RoutingInv, SyncedTo

\* What the app says of an object whose write it has yet to receive is not the
\* user's to change.
LEMMA BehindOn ==
  ASSUME RoutingTypes, NEW d \in 0..writes, AsOf(d), NEW k \in Keys, cloud[k].write > d
  PROVE  Behind(k)
BY DEF RoutingTypes, AsOf, Behind, Copy

\* A check that succeeds speaks of a write the desktop has.
LEMMA CaughtUpIsSynced ==
  ASSUME RoutingAssumption, RoutingTypes, NEW d \in 0..writes, SyncedTo(d), NEW r \in Readers,
         reading[r] # None, reading[r].answer # None, CaughtUp(reading[r].entry, reading[r].answer)
  PROVE  reading[r].entry.id <= d
<1> DEFINE e == reading[r].entry
           now == reading[r].answer
<1>1. e \in Entry /\ now \in Version
  BY DEF RoutingTypes
<1>2. /\ Written(e.id, e.key, e.removed) /\ WorthAsking(e)
      /\ e.before # Unknown => StillTrue(d, e.id, e.key, e.before)
      /\ StillTrue(d, e.id, e.key, now)
  BY DEF SyncedTo, EntriesInv, ReadingInv
<1>3. CaughtUp(e, now)
  OBVIOUS
<1> HIDE DEF e, now
<1> SUFFICES ASSUME d < e.id PROVE FALSE
  BY <1>1 DEF Entry, e
<1>4. now = ObjectVersion(e.key) /\ e.key \in Keys
  BY <1>1, <1>2 DEF StillTrue, Entry
<1>5. CASE e.removed
  <2>1. copy[e.key].there /\ copy[e.key].version \in Nat
    BY <1>1, <1>2, <1>4, <1>5 DEF Written, SyncedTo, AsOf, RoutingTypes, Copy, Entry
  <2> QED BY <1>3, <1>4, <1>5, <2>1 DEF CaughtUp, ObjectVersion, RoutingAssumption
<1>6. CASE ~e.removed
  <2>1. e.before = now
    BY <1>2, <1>4, <1>6 DEF WorthAsking, StillTrue
  <2> QED BY <1>1, <1>3, <1>6, <2>1 DEF CaughtUp, Version
<1> QED BY <1>5, <1>6

-----------------------------------------------------------------------------
(* One lemma for each step.                                                *)

\* A write is the latest of all; the desktop knows nothing of it.
LEMMA CloudWriteKeeps ==
  ASSUME RoutingAssumption, InTurn, RoutingTypes, NEW d \in 0..writes, SyncedTo(d),
         NEW k \in Keys, NEW removed \in BOOLEAN, CloudWrite(k, removed)
  PROVE  RoutingTypes' /\ d \in 0..writes' /\ SyncedTo(d)'
<1> SUFFICES ASSUME NEW w, w = [id |-> writes + 1, key |-> k, removed |-> removed]
             PROVE  RoutingTypes' /\ d \in 0..writes' /\ SyncedTo(d)'
  OBVIOUS
<1>1. /\ writes' = writes + 1 /\ writes \in Nat
      /\ cloud' = [cloud EXCEPT ![k] = [write |-> writes + 1, there |-> ~removed]]
      /\ inFlight' = {w} /\ inFlight = {} /\ syncing = None
      /\ removed => copy[k].there
      /\ cloud[k].there \/ cloud[k].write = 0
      /\ UNCHANGED <<copy, seq, served, syncing, reported, pending, probes, reading>>
  BY DEF CloudWrite, InTurn, RoutingTypes
<1>2. RoutingTypes'
  BY <1>1 DEF RoutingTypes, Copy, Write
<1>. d \in Nat /\ d <= writes
  BY <1>1
<1>w. writes \in Nat /\ writes' = writes + 1
  BY <1>1
<1>a. /\ cloud'[k].write = writes + 1
      /\ removed => ~cloud'[k].there
      /\ ~removed => cloud'[k].there
      /\ \A j \in Keys : j # k => cloud'[j] = cloud[j]
  BY <1>1 DEF RoutingTypes
<1>b. \A j \in Keys : /\ cloud[j].write \in Nat /\ cloud[j].there \in BOOLEAN
                      /\ copy[j].write \in Nat /\ reported[j] \in Nat
  BY DEF RoutingTypes, Copy
<1>c. AsOf(d)
  BY DEF SyncedTo
<1>3. AsOf(d)'
  <2> SUFFICES ASSUME NEW j \in Keys
               PROVE  /\ cloud'[j].write <= writes' /\ reported'[j] <= cloud'[j].write
                      /\ cloud'[j].write <= d => copy'[j].write = cloud'[j].write /\ copy'[j].there = cloud'[j].there
                      /\ cloud'[j].write > d => copy'[j].write <= d /\ (cloud'[j].there \/ copy'[j].there)
                      /\ reported'[j] <= d => reported'[j] <= copy'[j].write
    BY DEF AsOf
  <2>0. /\ cloud[j].write <= writes /\ reported[j] <= cloud[j].write
        /\ cloud[j].write <= d => copy[j].write = cloud[j].write /\ copy[j].there = cloud[j].there
        /\ cloud[j].write > d => copy[j].write <= d
        /\ cloud[j].write > d => (cloud[j].there \/ copy[j].there)
        /\ reported[j] <= d => reported[j] <= copy[j].write
    BY <1>c DEF AsOf
  <2>1. CASE j # k
    BY <1>1, <1>a, <1>b, <2>0, <2>1
  <2>2. CASE j = k
    <3>1. copy[k].write <= d
      BY <1>b, <2>0, <2>2
    <3>2. cloud'[k].write > d /\ reported[k] <= cloud'[k].write /\ cloud'[k].write <= writes'
      BY <1>w, <1>a, <1>b, <2>0, <2>2
    <3> QED BY <1>1, <1>a, <1>b, <2>0, <2>2, <3>1, <3>2
  <2> QED BY <2>1, <2>2
<1>4. ASSUME NEW id \in Nat, NEW key \in Keys, NEW rem \in BOOLEAN, Written(id, key, rem)
      PROVE  Written(id, key, rem)'
  <2>1. 0 < id /\ id <= cloud[key].write /\ cloud[key].write <= writes
    BY <1>4, <1>c DEF Written, AsOf
  <2>2. CASE key # k
    BY <1>4, <1>a, <2>2 DEF Written
  <2>3. CASE key = k
    <3>1. ~rem
      BY <1>1, <1>4, <2>1, <2>3 DEF Written
    <3> QED BY <1>a, <1>b, <2>1, <2>3, <3>1, <1>1 DEF Written
  <2> QED BY <2>2, <2>3
<1>5. ASSUME NEW id, NEW key, NEW said, StillTrue(d, id, key, said)
      PROVE  StillTrue(d, id, key, said)'
  BY <1>1, <1>5 DEF StillTrue, ObjectVersion
<1>6. EntriesInv(d)'
  <2>1. \A o \in inFlight' : o.id = writes' /\ Written(o.id, o.key, o.removed)'
    <3>1. w.id = writes + 1 /\ w.key = k /\ w.removed = removed /\ 0 < writes + 1
      BY <1>1
    <3>2. Written(w.id, w.key, w.removed)'
      <4>1. writes + 1 <= cloud'[k].write
        BY <1>w, <1>a
      <4>2. removed => cloud'[k].write = writes + 1 /\ ~cloud'[k].there
        BY <1>a
      <4> QED BY <3>1, <4>1, <4>2, Zenon DEF Written
    <3> QED BY <1>1, <3>1, <3>2
  <2>2. pending # None =>
          /\ Written(pending.id, pending.key, pending.removed)'
          /\ pending.before # Unknown => StillTrue(d, pending.id, pending.key, pending.before)'
    <3>1. /\ pending # None => pending \in Entry /\ Written(pending.id, pending.key, pending.removed)
          /\ pending # None /\ pending.before # Unknown => StillTrue(d, pending.id, pending.key, pending.before)
      BY DEF SyncedTo, EntriesInv, PendingInv, ProbesInv, ReadingInv, RoutingTypes
    <3> QED BY <1>1, <1>4, <1>5, <3>1 DEF Entry
  <2>3. ASSUME NEW p \in probes
        PROVE  /\ Written(p.id, p.key, FALSE)'
               /\ p.id < writes'
               /\ p.answer # None => StillTrue(d, p.id, p.key, p.answer)'
               /\ pending # None /\ pending.id = p.id => pending.key = p.key
    <3>1. /\ p.id \in Nat /\ p.key \in Keys /\ Written(p.id, p.key, FALSE)
          /\ p.answer # None => StillTrue(d, p.id, p.key, p.answer)
          /\ pending # None /\ pending.id = p.id => pending.key = p.key
      BY DEF SyncedTo, EntriesInv, PendingInv, ProbesInv, ReadingInv, RoutingTypes
    <3>2. p.id <= writes
      BY <3>1 DEF Written, SyncedTo, AsOf, RoutingTypes, Copy
    <3>3. p.id < writes'
      BY <1>w, <3>1, <3>2
    <3>4. Written(p.id, p.key, FALSE)'
      BY <1>4, <3>1
    <3>5. p.answer # None => StillTrue(d, p.id, p.key, p.answer)'
      BY <1>5, <3>1
    <3> QED BY <3>1, <3>3, <3>4, <3>5
  <2>4. ASSUME NEW r \in Readers, reading[r] # None
        PROVE  LET e == reading[r].entry IN
               /\ Written(e.id, e.key, e.removed)'
               /\ WorthAsking(e)
               /\ e.before # Unknown => StillTrue(d, e.id, e.key, e.before)'
               /\ reading[r].answer # None => StillTrue(d, e.id, e.key, reading[r].answer)'
    <3> DEFINE e == reading[r].entry
    <3>1. /\ e \in Entry /\ Written(e.id, e.key, e.removed) /\ WorthAsking(e)
          /\ e.before # Unknown => StillTrue(d, e.id, e.key, e.before)
          /\ reading[r].answer # None => StillTrue(d, e.id, e.key, reading[r].answer)
      BY <2>4 DEF SyncedTo, EntriesInv, PendingInv, ProbesInv, ReadingInv, RoutingTypes
    <3> QED BY <1>1, <1>4, <1>5, <3>1 DEF Entry
  <2>5. FlightInv' /\ PendingInv(d)' /\ ProbesInv(d)'
    BY <1>1, <2>1, <2>2, <2>3 DEF FlightInv, PendingInv, ProbesInv
  <2>6. ReadingInv(d)'
    BY <1>1, <2>4 DEF ReadingInv, WorthAsking
  <2> QED BY <2>5, <2>6 DEF EntriesInv
<1>7. Awaited(d)'
  BY <1>1 DEF SyncedTo, Awaited
<1> QED BY <1>1, <1>2, <1>3, <1>6, <1>7 DEF SyncedTo

\* Nothing of the desktop's copy moves: what is known of it stays true.
LEMMA SameCopies ==
  ASSUME UNCHANGED <<writes, cloud, copy>>,
         NEW d, NEW id, NEW key, NEW removed, NEW said
  PROVE  /\ Written(id, key, removed)' <=> Written(id, key, removed)
         /\ StillTrue(d, id, key, said)' <=> StillTrue(d, id, key, said)
BY DEF Written, StillTrue, ObjectVersion

LEMMA SyncApplyKeeps ==
  ASSUME RoutingAssumption, RoutingTypes, NEW d \in 0..writes, SyncedTo(d), SyncApply
  PROVE  RoutingTypes' /\ writes \in 0..writes' /\ (\E e \in 0..writes' : SyncedTo(e)')
<1>1. /\ copy' = [k \in Keys |->
                       IF ~Arrives(k) THEN copy[k]
                       ELSE [write |-> cloud[k].write, there |-> cloud[k].there, version |-> seq + 1]]
      /\ syncing = cloud /\ syncing' = None /\ seq' = seq + 1
      /\ UNCHANGED <<writes, cloud, served, inFlight, reported, pending, probes, reading>>
  BY DEF SyncApply, RoutingTypes, router
<1>2. RoutingTypes'
  BY <1>1 DEF RoutingTypes, Copy
<1>3. \A k \in Keys : copy'[k].write = cloud[k].write /\ copy'[k].there = cloud[k].there
  BY <1>1 DEF Arrives
<1>4. \A k \in Keys : /\ cloud[k].write \in Nat /\ cloud[k].write <= writes
                      /\ reported[k] \in Nat /\ reported[k] <= cloud[k].write
  BY DEF SyncedTo, AsOf, RoutingTypes, Copy
<1> SUFFICES ASSUME NEW e, e = writes PROVE e \in 0..writes' /\ SyncedTo(e)'
  BY <1>1, <1>2 DEF RoutingTypes
<1>5. e \in 0..writes' /\ e \in Nat
  BY <1>1 DEF RoutingTypes
<1>6. AsOf(e)'
  <2> SUFFICES ASSUME NEW k \in Keys
               PROVE  /\ cloud[k].write <= e /\ reported[k] <= cloud[k].write /\ ~(cloud[k].write > e)
                      /\ copy'[k].write = cloud[k].write /\ copy'[k].there = cloud[k].there
    BY <1>1 DEF AsOf
  <2> QED BY <1>3, <1>4, <1>5, <1>1
<1>7. ASSUME NEW id \in Nat, NEW key \in Keys, NEW removed, Written(id, key, removed)
      PROVE  /\ Written(id, key, removed)'
             /\ \A said : StillTrue(e, id, key, said)'
  <2>1. ~(e < id)
    BY <1>4, <1>5, <1>7 DEF Written
  <2> QED BY <1>1, <1>7, <2>1 DEF Written, StillTrue
<1>8. FlightInv'
  BY <1>1, <1>7 DEF FlightInv, SyncedTo, EntriesInv, RoutingTypes, Write
<1>9. PendingInv(e)'
  BY <1>1, <1>7 DEF PendingInv, SyncedTo, EntriesInv, RoutingTypes, Entry
<1>10. ProbesInv(e)'
  BY <1>1, <1>7 DEF ProbesInv, SyncedTo, EntriesInv, RoutingTypes
<1>11. ReadingInv(e)'
  BY <1>1, <1>7 DEF ReadingInv, SyncedTo, EntriesInv, RoutingTypes, Entry, WorthAsking
<1>12. Awaited(e)'
  BY <1>1, <1>4 DEF Awaited, SyncedTo, RoutingTypes
<1> QED BY <1>5, <1>6, <1>8, <1>9, <1>10, <1>11, <1>12 DEF SyncedTo, EntriesInv

\* The user only edits what the desktop is up to date on.
LEMMA EditKeeps ==
  ASSUME RoutingAssumption, InTurn, RoutingTypes, NEW d \in 0..writes, SyncedTo(d),
         NEW k \in Keys, EditOnDesktop(k)
  PROVE  RoutingTypes' /\ d \in 0..writes' /\ SyncedTo(d)'
<1>1. /\ copy' = [copy EXCEPT ![k].version = seq + 1] /\ seq' = seq + 1 /\ ~Behind(k)
      /\ UNCHANGED <<writes, cloud, served, syncing, inFlight, reported, pending, probes, reading>>
  BY DEF EditOnDesktop, InTurn, router
<1>2. RoutingTypes'
  BY <1>1 DEF RoutingTypes
<1>3. \A j \in Keys : /\ copy'[j].write = copy[j].write /\ copy'[j].there = copy[j].there
                      /\ j # k => copy'[j] = copy[j]
  BY <1>1 DEF RoutingTypes
<1>4. AsOf(d)'
  BY <1>1, <1>3 DEF AsOf, SyncedTo
<1>5. cloud[k].write <= d
  BY <1>1, BehindOn DEF SyncedTo, RoutingTypes, Copy
<1>6. ASSUME NEW id \in Nat, NEW key \in Keys, NEW removed, Written(id, key, removed)
      PROVE  /\ Written(id, key, removed)'
             /\ \A said : StillTrue(d, id, key, said) => StillTrue(d, id, key, said)'
  <2>1. key = k => id <= d
    BY <1>5, <1>6 DEF Written, RoutingTypes, Copy
  <2> QED BY <1>1, <1>3, <1>6, <2>1 DEF Written, StillTrue, ObjectVersion
<1>7. FlightInv'
  BY <1>1, <1>6 DEF FlightInv, SyncedTo, EntriesInv, RoutingTypes, Write
<1>8. PendingInv(d)'
  BY <1>1, <1>6 DEF PendingInv, SyncedTo, EntriesInv, RoutingTypes, Entry
<1>9. ProbesInv(d)'
  BY <1>1, <1>6 DEF ProbesInv, SyncedTo, EntriesInv, RoutingTypes
<1>10. ReadingInv(d)'
  BY <1>1, <1>6 DEF ReadingInv, SyncedTo, EntriesInv, RoutingTypes, Entry, WorthAsking
<1>11. Awaited(d)' /\ d \in 0..writes'
  BY <1>1 DEF Awaited, SyncedTo
<1> QED BY <1>2, <1>4, <1>7, <1>8, <1>9, <1>10, <1>11 DEF SyncedTo, EntriesInv

\* The last write's answer arrives: the entry is about it.
LEMMA NoteKeeps ==
  ASSUME RoutingAssumption, RoutingTypes, NEW d \in 0..writes, SyncedTo(d),
         NEW w \in inFlight, NoteCloudWrite(w)
  PROVE  RoutingTypes' /\ d \in 0..writes' /\ SyncedTo(d)'
<1> SUFFICES ASSUME NEW e, e = [id |-> w.id, key |-> w.key, removed |-> w.removed, before |-> Unknown],
                    NEW p, p = [id |-> w.id, key |-> w.key, answer |-> None]
             PROVE  RoutingTypes' /\ d \in 0..writes' /\ SyncedTo(d)'
  OBVIOUS
<1>1. /\ inFlight' = inFlight \ {w} /\ pending' = e
      /\ reported' = [reported EXCEPT ![w.key] = IF w.id > reported[w.key] THEN w.id ELSE reported[w.key]]
      /\ probes' = probes \/ (probes' = probes \cup {p} /\ ~w.removed)
      /\ UNCHANGED <<writes, cloud, copy, seq, served, syncing, reading>>
  BY DEF NoteCloudWrite, copies
<1>2. /\ w.id \in Nat /\ w.key \in Keys /\ w.removed \in BOOLEAN /\ w.id = writes
      /\ Written(w.id, w.key, w.removed) /\ inFlight = {w}
  BY DEF RoutingTypes, Write, SyncedTo, EntriesInv, FlightInv
<1>3. e \in Entry /\ e # None
  BY <1>2 DEF Entry, RoutingAssumption
<1>4. \A k \in Keys : /\ cloud[k].write \in Nat /\ cloud[k].write <= writes
                      /\ reported[k] \in Nat /\ reported[k] <= cloud[k].write
                      /\ copy[k].write \in Nat
                      /\ cloud[k].write <= d => copy[k].write = cloud[k].write
  BY DEF SyncedTo, AsOf, RoutingTypes, Copy
<1>5. /\ reported'[w.key] = writes /\ cloud[w.key].write = writes
      /\ \A k \in Keys : k # w.key => reported'[k] = reported[k]
  <2>1. writes <= cloud[w.key].write /\ cloud[w.key].write <= writes /\ writes \in Nat
    BY <1>2, <1>4 DEF Written
  <2>2. cloud[w.key].write = writes
    BY <1>2, <1>4, <2>1
  <2>3. reported'[w.key] = IF w.id > reported[w.key] THEN w.id ELSE reported[w.key]
    BY <1>1, <1>2 DEF RoutingTypes
  <2>4. reported[w.key] <= writes
    BY <1>2, <1>4, <2>2
  <2>5. reported'[w.key] = writes
    BY <1>2, <1>4, <2>1, <2>3, <2>4
  <2> QED BY <1>1, <2>2, <2>5 DEF RoutingTypes
<1>6. RoutingTypes'
  <2>1. reported' \in [Keys -> Nat]
    BY <1>1, <1>2, <1>4 DEF RoutingTypes
  <2>2. p \in [id : Nat, key : Keys, answer : Version \cup {None}]
    BY <1>2
  <2>3. inFlight' \subseteq Write /\ probes' \subseteq [id : Nat, key : Keys, answer : Version \cup {None}]
    BY <1>1, <2>2 DEF RoutingTypes
  <2> QED BY <1>1, <1>3, <2>1, <2>3 DEF RoutingTypes
<1>7. AsOf(d)'
  <2> SUFFICES ASSUME NEW k \in Keys
               PROVE  reported'[k] <= cloud[k].write /\ (reported'[k] <= d => reported'[k] <= copy[k].write)
    BY <1>1 DEF AsOf, SyncedTo
  <2>1. reported[k] <= cloud[k].write /\ (reported[k] <= d => reported[k] <= copy[k].write)
    BY DEF AsOf, SyncedTo
  <2>2. CASE k = w.key
    BY <1>4, <1>5, <2>2
  <2> QED BY <1>5, <2>1, <2>2
<1>8. FlightInv'
  BY <1>1, <1>2 DEF FlightInv
<1>9. PendingInv(d)'
  BY <1>1, <1>2, SameCopies DEF PendingInv
<1>10. ProbesInv(d)'
  <2> SUFFICES ASSUME NEW q \in probes'
               PROVE  /\ Written(q.id, q.key, FALSE)
                      /\ inFlight' # {} => q.id < writes
                      /\ q.answer # None => StillTrue(d, q.id, q.key, q.answer)
                      /\ e.id = q.id => e.key = q.key
    BY <1>1, <1>3, SameCopies DEF ProbesInv
  <2>1. CASE q \in probes
    <3>1. /\ Written(q.id, q.key, FALSE) /\ q.id < writes
          /\ q.answer # None => StillTrue(d, q.id, q.key, q.answer)
      BY <2>1 DEF ProbesInv, SyncedTo, EntriesInv
    <3>2. q.id \in Nat /\ e.id = writes
      BY <1>2, <2>1 DEF RoutingTypes
    <3>3. e.id # q.id
      BY <3>1, <3>2
    <3> QED BY <3>1, <3>3
  <2>2. CASE q = p /\ ~w.removed
    <3>1. Written(q.id, q.key, FALSE)
      <4>1. q.id = w.id /\ q.key = w.key
        BY <2>2
      <4> QED BY <1>2, <4>1 DEF Written
    <3>2. inFlight' = {}
      BY <1>1, <1>2
    <3> QED BY <1>2, <2>2, <3>1, <3>2
  <2> QED BY <1>1, <2>1, <2>2
<1>11. ReadingInv(d)'
  BY <1>1, SameCopies DEF ReadingInv, SyncedTo, EntriesInv, WorthAsking
<1>12. Awaited(d)'
  <2>1. \A k \in Keys : reported'[k] <= writes
    BY <1>4, <1>5, <1>2
  <2> QED BY <1>1, <1>2, <1>3, <2>1 DEF Awaited
<1> QED BY <1>1, <1>6, <1>7, <1>8, <1>9, <1>10, <1>11, <1>12 DEF SyncedTo, EntriesInv

\* The baseline is what the app says of an object it lacks the write of.
LEMMA ProbeAnsweredKeeps ==
  ASSUME RoutingAssumption, RoutingTypes, NEW d \in 0..writes, SyncedTo(d),
         NEW p \in probes, ProbeAnswered(p)
  PROVE  RoutingTypes' /\ d \in 0..writes' /\ SyncedTo(d)'
<1> SUFFICES ASSUME NEW o, o = [p EXCEPT !.answer = ObjectVersion(p.key)]
             PROVE  RoutingTypes' /\ d \in 0..writes' /\ SyncedTo(d)'
  OBVIOUS
<1>1. /\ probes' = (probes \ {p}) \cup {o}
      /\ UNCHANGED <<writes, cloud, copy, seq, served, syncing, inFlight, reported, pending, reading>>
  BY DEF ProbeAnswered, copies
<1>2. /\ p \in [id : Nat, key : Keys, answer : Version \cup {None}]
      /\ o.id = p.id /\ o.key = p.key /\ o.answer = ObjectVersion(p.key)
      /\ o \in [id : Nat, key : Keys, answer : Version \cup {None}]
  BY DEF RoutingTypes, ObjectVersion, Version
<1>3. RoutingTypes'
  BY <1>1, <1>2 DEF RoutingTypes
<1>4. ProbesInv(d)'
  <2> SUFFICES ASSUME NEW q \in probes'
               PROVE  /\ Written(q.id, q.key, FALSE)
                      /\ inFlight # {} => q.id < writes
                      /\ q.answer # None => StillTrue(d, q.id, q.key, q.answer)
                      /\ pending # None /\ pending.id = q.id => pending.key = q.key
    BY <1>1, SameCopies DEF ProbesInv
  <2>1. CASE q \in probes
    BY <2>1 DEF ProbesInv, SyncedTo, EntriesInv
  <2>2. CASE q = o
    <3>1. q.id = p.id /\ q.key = p.key /\ StillTrue(d, q.id, q.key, q.answer)
      BY <1>2, <2>2 DEF StillTrue
    <3>2. /\ Written(p.id, p.key, FALSE)
          /\ inFlight # {} => p.id < writes
          /\ pending # None /\ pending.id = p.id => pending.key = p.key
      BY DEF ProbesInv, SyncedTo, EntriesInv
    <3> QED BY <3>1, <3>2
  <2> QED BY <1>1, <2>1, <2>2
<1>5. FlightInv' /\ PendingInv(d)' /\ ReadingInv(d)' /\ AsOf(d)' /\ Awaited(d)'
  BY <1>1, SameCopies DEF FlightInv, PendingInv, ReadingInv, WorthAsking, AsOf, Awaited, SyncedTo, EntriesInv
<1> QED BY <1>1, <1>3, <1>4, <1>5 DEF SyncedTo, EntriesInv

\* A baseline is given to the entry it was measured for.
LEMMA BaselineKeeps ==
  ASSUME RoutingAssumption, RoutingTypes, NEW d \in 0..writes, SyncedTo(d),
         NEW p \in probes, BaselineArrives(p)
  PROVE  RoutingTypes' /\ d \in 0..writes' /\ SyncedTo(d)'
<1>1. /\ probes' = probes \ {p} /\ p.answer # None
      /\ UNCHANGED <<writes, cloud, copy, seq, served, syncing, inFlight, reported, reading>>
      /\ \/ pending' = pending
         \/ pending # None /\ pending.id = p.id /\ pending' = [pending EXCEPT !.before = p.answer]
  BY DEF BaselineArrives, SameWrite, copies
<1>2. /\ p \in [id : Nat, key : Keys, answer : Version \cup {None}]
      /\ StillTrue(d, p.id, p.key, p.answer)
      /\ pending # None /\ pending.id = p.id => pending.key = p.key
  BY <1>1 DEF RoutingTypes, SyncedTo, EntriesInv, ProbesInv
<1>3. /\ pending' \in Entry \cup {None} /\ (pending' = None <=> pending = None)
      /\ pending # None => /\ pending'.id = pending.id /\ pending'.key = pending.key
                           /\ pending'.removed = pending.removed
                           /\ pending' = pending \/ (pending.id = p.id /\ pending'.before = p.answer)
  <2>1. CASE pending' = pending
    BY <2>1 DEF RoutingTypes
  <2>2. CASE pending # None /\ pending.id = p.id /\ pending' = [pending EXCEPT !.before = p.answer]
    <3>1. pending \in Entry /\ p.answer \in Version
      BY <1>1, <1>2, <2>2 DEF RoutingTypes
    <3>2. pending' \in Entry /\ pending'.before = p.answer
      BY <2>2, <3>1 DEF Entry
    <3> QED BY <2>2, <3>1, <3>2 DEF Entry, RoutingAssumption
  <2> QED BY <1>1, <2>1, <2>2
<1>4. RoutingTypes'
  BY <1>1, <1>3 DEF RoutingTypes
<1>5. PendingInv(d)'
  BY <1>1, <1>2, <1>3, SameCopies DEF PendingInv, SyncedTo, EntriesInv
<1>6. ProbesInv(d)'
  BY <1>1, <1>3, SameCopies DEF ProbesInv, SyncedTo, EntriesInv
<1>7. FlightInv' /\ ReadingInv(d)' /\ AsOf(d)' /\ Awaited(d)'
  BY <1>1, <1>3, SameCopies DEF FlightInv, ReadingInv, WorthAsking, AsOf, Awaited, SyncedTo, EntriesInv
<1> QED BY <1>1, <1>4, <1>5, <1>6, <1>7 DEF SyncedTo, EntriesInv

\* A check begins, is answered or fails.
LEMMA ReadingKeeps ==
  ASSUME RoutingAssumption, RoutingTypes, NEW d \in 0..writes, SyncedTo(d),
         NEW r \in Readers, RouteAsks(r) \/ RouteAnswered(r) \/ RouteFails(r)
  PROVE  RoutingTypes' /\ d \in 0..writes' /\ SyncedTo(d)'
<1> DEFINE Check == [entry : Entry, answer : Version \cup {None}]
<1>1. UNCHANGED <<writes, cloud, copy, seq, served, syncing, inFlight, reported, pending, probes>>
  BY DEF RouteAsks, RouteAnswered, RouteFails, copies
<1>2. /\ DOMAIN reading' = Readers /\ \A o \in Readers \ {r} : reading'[o] = reading[o]
      /\ reading'[r] # None =>
           /\ reading'[r] \in Check
           /\ Written(reading'[r].entry.id, reading'[r].entry.key, reading'[r].entry.removed)
           /\ WorthAsking(reading'[r].entry)
           /\ reading'[r].entry.before # Unknown =>
                StillTrue(d, reading'[r].entry.id, reading'[r].entry.key, reading'[r].entry.before)
           /\ reading'[r].answer # None =>
                StillTrue(d, reading'[r].entry.id, reading'[r].entry.key, reading'[r].answer)
  <2>0. DOMAIN reading = Readers
    BY DEF RoutingTypes
  <2>1. CASE RouteAsks(r)
    <3>1. /\ reading' = [reading EXCEPT ![r] = [entry |-> pending, answer |-> None]]
          /\ pending # None /\ WorthAsking(pending)
      BY <2>1 DEF RouteAsks
    <3>2. reading'[r] = [entry |-> pending, answer |-> None] /\ pending \in Entry
      BY <2>0, <3>1 DEF RoutingTypes
    <3> QED BY <2>0, <3>1, <3>2 DEF SyncedTo, EntriesInv, PendingInv
  <2>2. CASE RouteAnswered(r)
    <3>1. /\ reading' = [reading EXCEPT ![r] = [reading[r] EXCEPT !.answer = ObjectVersion(reading[r].entry.key)]]
          /\ reading[r] # None /\ reading[r] \in Check
      BY <2>2 DEF RouteAnswered, RoutingTypes
    <3>2. /\ reading'[r].entry = reading[r].entry
          /\ reading'[r].answer = ObjectVersion(reading[r].entry.key)
          /\ ObjectVersion(reading[r].entry.key) \in Version
      BY <2>0, <3>1 DEF RoutingTypes, ObjectVersion, Version, Entry
    <3>3. reading'[r] \in Check
      BY <2>0, <3>1, <3>2
    <3> QED BY <2>0, <3>1, <3>2, <3>3 DEF SyncedTo, EntriesInv, ReadingInv, StillTrue
  <2>3. CASE RouteFails(r)
    BY <2>0, <2>3 DEF RouteFails
  <2> QED BY <2>1, <2>2, <2>3
<1>3. RoutingTypes'
  BY <1>1, <1>2 DEF RoutingTypes
<1>4. ReadingInv(d)'
  <2> SUFFICES ASSUME NEW o \in Readers, reading'[o] # None
               PROVE  /\ Written(reading'[o].entry.id, reading'[o].entry.key, reading'[o].entry.removed)
                      /\ WorthAsking(reading'[o].entry)
                      /\ reading'[o].entry.before # Unknown =>
                           StillTrue(d, reading'[o].entry.id, reading'[o].entry.key, reading'[o].entry.before)
                      /\ reading'[o].answer # None =>
                           StillTrue(d, reading'[o].entry.id, reading'[o].entry.key, reading'[o].answer)
    BY <1>1 DEF ReadingInv, Written, StillTrue, ObjectVersion, WorthAsking
  <2>1. CASE o = r
    BY <1>2, <2>1
  <2>2. CASE o # r
    <3>1. reading'[o] = reading[o]
      BY <1>2, <2>2
    <3> QED BY <3>1 DEF SyncedTo, EntriesInv, ReadingInv
  <2> QED BY <2>1, <2>2
<1>5. FlightInv' /\ PendingInv(d)' /\ ProbesInv(d)' /\ AsOf(d)' /\ Awaited(d)'
  BY <1>1, SameCopies DEF FlightInv, PendingInv, ProbesInv, AsOf, Awaited, SyncedTo, EntriesInv
<1> QED BY <1>1, <1>3, <1>4, <1>5 DEF SyncedTo, EntriesInv

\* A check that shows the write retires its entry; the desktop has all that was
\* reported up to then.
LEMMA DecidesKeeps ==
  ASSUME RoutingAssumption, RoutingTypes, NEW d \in 0..writes, SyncedTo(d),
         NEW r \in Readers, RouteDecides(r)
  PROVE  RoutingTypes' /\ d \in 0..writes' /\ SyncedTo(d)'
<1>1. /\ reading[r] # None /\ reading[r].answer # None
      /\ reading' = [reading EXCEPT ![r] = None]
      /\ \/ pending' = pending
         \/ /\ pending # None /\ pending.id = reading[r].entry.id
            /\ CaughtUp(reading[r].entry, reading[r].answer)
            /\ pending' = None
      /\ UNCHANGED <<writes, cloud, copy, seq, served, syncing, inFlight, reported, probes>>
  BY DEF RouteDecides, SameWrite, copies
<1>2. RoutingTypes'
  BY <1>1 DEF RoutingTypes
<1>3. Awaited(d)'
  <2>1. CASE pending' = pending
    BY <1>1, <2>1 DEF Awaited, SyncedTo
  <2>2. CASE /\ pending # None /\ pending.id = reading[r].entry.id
             /\ CaughtUp(reading[r].entry, reading[r].answer)
             /\ pending' = None
    <3>1. pending.id <= d
      BY <1>1, <2>2, CaughtUpIsSynced
    <3>2. \A k \in Keys : reported[k] \in Nat /\ reported[k] <= pending.id
      BY <2>2 DEF Awaited, SyncedTo, RoutingTypes
    <3>3. pending.id \in Nat
      BY <2>2 DEF RoutingTypes, Entry
    <3> QED BY <1>1, <2>2, <3>1, <3>2, <3>3 DEF Awaited
  <2> QED BY <1>1, <2>1, <2>2
<1>4. ReadingInv(d)'
  BY <1>1, SameCopies DEF ReadingInv, WorthAsking, SyncedTo, EntriesInv, RoutingTypes
<1>5. PendingInv(d)' /\ ProbesInv(d)'
  BY <1>1, SameCopies DEF PendingInv, ProbesInv, SyncedTo, EntriesInv
<1>6. FlightInv' /\ AsOf(d)'
  BY <1>1, SameCopies DEF FlightInv, AsOf, SyncedTo, EntriesInv
<1> QED BY <1>1, <1>2, <1>3, <1>4, <1>5, <1>6 DEF SyncedTo, EntriesInv

\* A sync begins, a baseline is not answered, the app comes or goes.
LEMMA OtherStepsKeep ==
  ASSUME RoutingAssumption, RoutingTypes, NEW d \in 0..writes, SyncedTo(d),
         \/ SyncDownload \/ AppStopsOrStarts \/ (\E p \in probes : ProbeFails(p))
         \/ UNCHANGED routingVars
  PROVE  RoutingTypes' /\ d \in 0..writes' /\ SyncedTo(d)'
<1>1. /\ UNCHANGED <<writes, cloud, copy, seq, inFlight, reported, pending, reading>>
      /\ syncing' \in {syncing, cloud} /\ probes' \subseteq probes
  BY DEF SyncDownload, AppStopsOrStarts, ProbeFails, copies, router, routingVars
<1>2. RoutingTypes'
  BY <1>1 DEF RoutingTypes
<1>3. FlightInv' /\ PendingInv(d)' /\ ProbesInv(d)'
  BY <1>1, SameCopies DEF FlightInv, PendingInv, ProbesInv, SyncedTo, EntriesInv
<1>4. ReadingInv(d)' /\ AsOf(d)' /\ Awaited(d)'
  BY <1>1, SameCopies DEF ReadingInv, WorthAsking, AsOf, Awaited, SyncedTo, EntriesInv
<1> QED BY <1>1, <1>2, <1>3, <1>4 DEF SyncedTo, EntriesInv

LEMMA RoutingInvKept ==
  ASSUME RoutingAssumption, InTurn, RoutingInv, [RoutingNext]_routingVars
  PROVE  RoutingInv'
<1> PICK d \in 0..writes : SyncedTo(d)
  BY DEF RoutingInv
<1>0. RoutingTypes
  BY DEF RoutingInv
<1> SUFFICES RoutingTypes' /\ \E e \in 0..writes' : SyncedTo(e)'
  BY DEF RoutingInv
<1>1. ASSUME NEW k \in Keys, NEW removed \in BOOLEAN, CloudWrite(k, removed)
      PROVE  RoutingTypes' /\ d \in 0..writes' /\ SyncedTo(d)'
  BY <1>0, <1>1, CloudWriteKeeps
<1>2. ASSUME NEW k \in Keys, EditOnDesktop(k)
      PROVE  RoutingTypes' /\ d \in 0..writes' /\ SyncedTo(d)'
  BY <1>0, <1>2, EditKeeps
<1>3. CASE SyncApply
  BY <1>0, <1>3, SyncApplyKeeps
<1>4. CASE \/ SyncDownload \/ AppStopsOrStarts \/ (\E p \in probes : ProbeFails(p))
           \/ UNCHANGED routingVars
  BY <1>0, <1>4, OtherStepsKeep
<1>5. ASSUME NEW w \in inFlight, NoteCloudWrite(w)
      PROVE  RoutingTypes' /\ d \in 0..writes' /\ SyncedTo(d)'
  BY <1>0, <1>5, NoteKeeps
<1>6. ASSUME NEW p \in probes, ProbeAnswered(p) \/ BaselineArrives(p)
      PROVE  RoutingTypes' /\ d \in 0..writes' /\ SyncedTo(d)'
  BY <1>0, <1>6, ProbeAnsweredKeeps, BaselineKeeps
<1>7. ASSUME NEW r \in Readers, RouteAsks(r) \/ RouteAnswered(r) \/ RouteFails(r) \/ RouteDecides(r)
      PROVE  RoutingTypes' /\ d \in 0..writes' /\ SyncedTo(d)'
  BY <1>0, <1>7, ReadingKeeps, DecidesKeeps
<1> QED BY <1>1, <1>2, <1>3, <1>4, <1>5, <1>6, <1>7 DEF RoutingNext, Sync, Probing

\* While the desktop lacks a write this server has reported, the router's entry
\* stands and reads go to the cloud, whichever objects were created, changed and
\* deleted, and however probes, checks and syncs fall together
\* (router/library-router.ts:294).
THEOREM ReadYourWritesHolds ==
  ASSUME RoutingAssumption, InTurn
  PROVE  RoutingSpec => []ReadYourWrites
<1>1. RoutingInv => ReadYourWrites
  BY DEF RoutingInv, SyncedTo, AsOf, Awaited, ReadYourWrites, Shows, RoutingTypes, Copy
<1>2. RoutingSpec => []RoutingInv
  BY InitRoutingInv, RoutingInvKept, PTL DEF RoutingSpec
<1> QED BY <1>1, <1>2, PTL
=============================================================================
