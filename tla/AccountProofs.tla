---------------------------- MODULE AccountProofs ----------------------------
(***************************************************************************)
(* What is promised of accounts, for any clients, consents, calls, keys of *)
(* the accounts, limits and number of index registries.                    *)
(*                                                                         *)
(* The authorization server: a consent is granted once and has one heir,   *)
(* its tokens speak for its user, and the file follows memory without ever *)
(* falling back.  Its invariant has three parts.  A consent is in one      *)
(* place: on its way from zotero.org, pending, called back, a code, or     *)
(* granted (FlowInv).  Memory, the file and the snapshot between them are  *)
(* sound stores, each no older than the one it will replace (StoresInv).   *)
(* The last write chained stands for what memory says (QueueInv).          *)
(*                                                                         *)
(* The cache of accounts: an account's search indexes are opened once, are *)
(* open exactly while the account is cached, and are closed to make room   *)
(* only when nothing uses them; and a key that zotero.org refuses stops    *)
(* serving in time.  This invariant is stated over explicit arguments, so  *)
(* that it can be said of the cache in the middle of a step: a context     *)
(* that is added drops keys of its account and releases another account in *)
(* one step here.                                                          *)
(***************************************************************************)
EXTENDS MCAccounts, FiniteSetTheorems, SequenceTheorems, WellFoundedInduction, TLAPS

-----------------------------------------------------------------------------
(* Where a consent is.                                                     *)

NoCode(k) == \A c \in codes : c.consent # k

\* Nothing of k is under way past its pending page.
Unspent(k) == callbacks[k] = 0 /\ NoCode(k) /\ granted[k] = 0

OnePlace(k) ==
  /\ callbacks[k] \in {0, 1} /\ granted[k] \in {0, 1}
  /\ \A c, d \in codes : c.consent = k /\ d.consent = k => c = d
  /\ client[k] = None => k \notin starting /\ pending[k] = None /\ Unspent(k)
  /\ k \in starting => pending[k] = None /\ Unspent(k)
  /\ pending[k] # None => Unspent(k)
  /\ callbacks[k] = 1 => NoCode(k) /\ granted[k] = 0
  /\ ~NoCode(k) => granted[k] = 0

SpeaksFor(k) == IF mode = "zotero" THEN k ELSE None

FlowInv ==
  /\ \A k \in Consents : OnePlace(k)
  /\ \A k \in Consents : callbacks[k] # 0 => mode = "zotero"
  /\ \A c \in codes : c.user = SpeaksFor(c.consent)

-----------------------------------------------------------------------------
(* The stores: memory, the file, a snapshot that is being written.         *)

OneEach(s) == \A p, q \in s.refresh : p.consent = q.consent => p = q

\* Every token comes of a grant, is older than the next one to be minted and
\* speaks for its user.
SoundBy(s, mint, grant, m) ==
  /\ OneEach(s)
  /\ \A p \in s.access \cup s.refresh :
       /\ p.n < mint[p.consent]
       /\ grant[p.consent] = 1
       /\ p.user = IF m = "zotero" THEN p.consent ELSE None

Sound(s) == SoundBy(s, minted, granted, mode)

\* Where both have a token of a consent, t's is no older.
Before(s, t) == \A p \in s.refresh, q \in t.refresh : p.consent = q.consent => p.n <= q.n

StoresInv ==
  /\ Sound(mem) /\ Sound(disk) /\ Before(disk, mem)
  /\ \A i \in DOMAIN writes : writes[i] # None =>
       Sound(writes[i]) /\ Before(disk, writes[i]) /\ Before(writes[i], mem)

\* Only the oldest write has begun, and the newest covers what memory says.
QueueInv ==
  /\ \A i \in DOMAIN writes : i > 1 => writes[i] = None
  /\ ~dirty => IF writes = <<>> THEN failed \/ disk = mem
                                ELSE writes[Len(writes)] \in {None, mem}

\* The file holds no more clients than memory may.
ClientsInv ==
  /\ Len(disk.clients) <= MaxClients
  /\ \A i \in DOMAIN writes : writes[i] # None => Len(writes[i].clients) <= MaxClients

FlowTypes ==
  /\ mode \in Modes
  /\ client \in [Consents -> Clients \cup {None}]
  /\ starting \in SUBSET Consents
  /\ pending \in [Consents -> 0..(MaxAttempts - 1) \cup {None}]
  /\ callbacks \in [Consents -> Nat]
  /\ codes \in SUBSET Code
  /\ requests \in [Requests -> Code \cup {None}]

StoreTypes ==
  /\ mem \in Store /\ disk \in Store
  /\ Len(mem.clients) <= MaxClients
  /\ dirty \in BOOLEAN /\ failed \in BOOLEAN
  /\ writes \in Seq(Store \cup {None})

CountTypes ==
  /\ lapsed \in [access : SUBSET Pair, refresh : SUBSET Pair]
  /\ minted \in [Consents -> Nat] /\ granted \in [Consents -> Nat]
  /\ registered \in SUBSET Clients
  /\ faults \in 0..MaxFaults

\* What concerns the store alone.
FileInv == StoreTypes /\ ClientsInv /\ QueueInv

OAuthInv == FlowTypes /\ CountTypes /\ FlowInv /\ FileInv /\ StoresInv

-----------------------------------------------------------------------------
(* Writes.                                                                 *)

\* The queue without its oldest write.
LEMMA RestOfWrites ==
  ASSUME NEW S, NEW w \in Seq(S), w # <<>>
  PROVE  LET r == SubSeq(w, 1, 1 - 1) \o SubSeq(w, 1 + 1, Len(w)) IN
         /\ r \in Seq(S) /\ Len(r) = Len(w) - 1 /\ Len(w) \in Nat \ {0}
         /\ \A i \in DOMAIN r : i \in Nat \ {0} /\ i + 1 \in DOMAIN w /\ r[i] = w[i + 1]
<1> DEFINE a == SubSeq(w, 1, 1 - 1)
           b == SubSeq(w, 1 + 1, Len(w))
<1>1. Len(w) \in Nat \ {0} /\ DOMAIN w = 1..Len(w)
  BY EmptySeq, LenProperties
<1>2. a = <<>>
  OBVIOUS
<1>3. \A i \in (1 + 1)..Len(w) : w[i] \in S
  BY <1>1, ElementOfSeq
<1>4. /\ b \in Seq(S)
      /\ Len(b) = IF 1 + 1 <= Len(w) THEN Len(w) - (1 + 1) + 1 ELSE 0
      /\ \A i \in 1..(Len(w) - (1 + 1) + 1) : b[i] = w[(1 + 1) + i - 1]
  BY <1>1, <1>3, SubSeqProperties
<1> HIDE DEF a, b
<1>5. Len(b) = Len(w) - 1 /\ DOMAIN b = 1..Len(b)
  <2>1. Len(b) = IF 1 + 1 <= Len(w) THEN Len(w) - (1 + 1) + 1 ELSE 0
    BY <1>4
  <2>2. \A n, m : n \in Nat \ {0} /\ m = (IF 1 + 1 <= n THEN n - (1 + 1) + 1 ELSE 0) => m = n - 1
    OBVIOUS
  <2>3. Len(b) = Len(w) - 1
    BY ONLY <1>1, <2>1, <2>2, Zenon
  <2> QED BY <1>4, <2>3, LenProperties
<1>6. a \o b = b
  BY <1>2, <1>4, ConcatEmptySeq
<1>7. \A i \in DOMAIN b : i \in Nat \ {0} /\ i + 1 \in DOMAIN w /\ b[i] = w[i + 1]
  <2> TAKE i \in DOMAIN b
  <2>1. i \in 1..(Len(w) - 1)
    BY <1>5
  <2>2. /\ i \in Nat \ {0} /\ i + 1 \in DOMAIN w
        /\ i \in 1..(Len(w) - (1 + 1) + 1) /\ (1 + 1) + i - 1 = i + 1
    BY <1>1, <2>1
  <2>3. b[i] = w[(1 + 1) + i - 1]
    BY <1>4, <2>2
  <2>4. b[i] = w[i + 1]
    BY ONLY <2>2, <2>3
  <2> QED BY <2>2, <2>4
<1> QED BY <1>1, <1>4, <1>5, <1>6, <1>7 DEF a, b

\* Every snapshot among the writes w2 was one among w.
NoNewSnapshot(w, w2) ==
  \A i \in DOMAIN w2 : w2[i] # None => \E j \in DOMAIN w : w[j] = w2[i]

Within(s) == s \in Store /\ Len(s.clients) <= MaxClients

\* A change and its flush leave a write that will find it.
LEMMA FlushKeeps ==
  ASSUME FileInv, NEW s, Within(s), Flush(s)
  PROVE  FileInv' /\ mem' = s /\ disk' = disk /\ NoNewSnapshot(writes, writes')
<1> USE DEF FileInv, StoreTypes, Within
<1>1. mem' = s /\ disk' = disk /\ failed' = failed
  BY DEF Flush
<1>2. CASE dirty \/ s # mem
  <2>1. writes' = Append(writes, None) /\ dirty' = FALSE
    BY <1>2 DEF Flush, Chained
  <2>2. writes \in Seq(Store \cup {None}) /\ None \in Store \cup {None}
    OBVIOUS
  <2>3. /\ writes' \in Seq(Store \cup {None}) /\ Len(writes) \in Nat
        /\ DOMAIN writes' = 1..(Len(writes) + 1) /\ DOMAIN writes = 1..Len(writes)
        /\ Len(writes') = Len(writes) + 1 /\ writes' # <<>>
        /\ \A i \in 1..Len(writes) : writes'[i] = writes[i]
        /\ writes'[Len(writes) + 1] = None
    BY <2>1, <2>2, AppendProperties, LenProperties
  <2>4. NoNewSnapshot(writes, writes')
    BY <2>3 DEF NoNewSnapshot
  <2>5. ClientsInv'
    BY <1>1, <2>3 DEF ClientsInv
  <2>6. QueueInv'
    <3>1. \A i \in DOMAIN writes' : i > 1 => writes'[i] = None
      BY <2>3 DEF QueueInv
    <3> QED BY <2>3, <3>1 DEF QueueInv
  <2> QED BY <1>1, <2>1, <2>3, <2>4, <2>5, <2>6
<1>3. CASE ~(dirty \/ s # mem)
  <2>1. UNCHANGED <<mem, disk, failed, writes, dirty>>
    BY <1>1, <1>3 DEF Flush
  <2>2. NoNewSnapshot(writes, writes')
    BY <2>1 DEF NoNewSnapshot
  <2> QED BY <1>1, <2>1, <2>2 DEF ClientsInv, QueueInv
<1> QED BY <1>2, <1>3

\* A change left to the next flush makes the store dirty.
LEMMA TouchKeeps ==
  ASSUME FileInv, NEW s, Within(s), Touch(s)
  PROVE  FileInv' /\ mem' = s /\ disk' = disk /\ NoNewSnapshot(writes, writes')
<1> USE DEF FileInv, StoreTypes, Within
<1>1. /\ mem' = s /\ UNCHANGED <<writes, disk, failed>>
      /\ dirty' = (dirty \/ s # mem)
  BY DEF Touch
<1>2. NoNewSnapshot(writes, writes')
  BY <1>1 DEF NoNewSnapshot
<1>3. ClientsInv'
  BY <1>1 DEF ClientsInv
<1>4. QueueInv'
  BY <1>1 DEF QueueInv
<1>5. dirty' \in BOOLEAN
  BY <1>1
<1> QED BY <1>1, <1>2, <1>3, <1>4, <1>5

LEMMA StartWriteKeeps ==
  ASSUME FileInv, NEW i \in DOMAIN writes, StartWrite(i)
  PROVE  /\ FileInv' /\ UNCHANGED <<mem, disk>>
         /\ \A j \in DOMAIN writes' : j \in DOMAIN writes /\ writes'[j] \in {writes[j], mem}
<1> USE DEF FileInv, StoreTypes
<1>1. /\ i = 1 /\ writes' = [writes EXCEPT ![1] = mem]
      /\ UNCHANGED <<mem, dirty, disk, failed>>
  BY DEF StartWrite, MayStart
<1>2. DOMAIN writes = 1..Len(writes) /\ Len(writes) \in Nat /\ writes # <<>>
  BY <1>1, LenProperties
<1>3. /\ writes' \in Seq(Store \cup {None}) /\ Len(writes') = Len(writes)
      /\ DOMAIN writes' = 1..Len(writes) /\ writes' # <<>>
      /\ \A j \in 1..Len(writes) : writes'[j] = IF j = 1 THEN mem ELSE writes[j]
  <2>1. mem \in Store \cup {None} /\ 1 \in 1..Len(writes)
    BY <1>1, <1>2
  <2> QED BY <1>1, <1>2, <2>1, ExceptSeq
<1>4. ClientsInv'
  BY <1>1, <1>2, <1>3 DEF ClientsInv
<1>5. QueueInv'
  <2>1. \A j \in DOMAIN writes' : j > 1 => writes'[j] = None
    BY <1>2, <1>3 DEF QueueInv
  <2>2. ~dirty => writes'[Len(writes)] \in {None, mem}
    BY <1>2, <1>3 DEF QueueInv
  <2> QED BY <1>1, <1>3, <2>1, <2>2 DEF QueueInv
<1> QED BY <1>1, <1>2, <1>3, <1>4, <1>5

\* The oldest write ends: those left have not begun.
LEMMA RemainingFacts ==
  ASSUME FileInv, NEW i \in DOMAIN writes, writes[i] # None, writes' = Remaining(i)
  PROVE  /\ i = 1 /\ writes # <<>> /\ writes' \in Seq(Store \cup {None})
         /\ \A j \in DOMAIN writes' : writes'[j] = None
         /\ writes' # <<>> => writes'[Len(writes')] = None
         /\ writes' = <<>> => Len(writes) = 1
<1> USE DEF FileInv, StoreTypes
<1>1. DOMAIN writes = 1..Len(writes) /\ Len(writes) \in Nat
  BY LenProperties
<1>2. i = 1
  BY <1>1 DEF QueueInv
<1>3. writes # <<>>
  BY <1>1
<1>4. writes' = SubSeq(writes, 1, 1 - 1) \o SubSeq(writes, 1 + 1, Len(writes))
  BY <1>2 DEF Remaining
<1>5. /\ writes' \in Seq(Store \cup {None}) /\ Len(writes') = Len(writes) - 1
      /\ \A j \in DOMAIN writes' : j \in Nat \ {0} /\ j + 1 \in DOMAIN writes /\ writes'[j] = writes[j + 1]
  BY <1>3, <1>4, RestOfWrites
<1>6. \A j \in DOMAIN writes' : writes'[j] = None
  BY <1>5 DEF QueueInv
<1>7. writes' # <<>> => Len(writes') \in DOMAIN writes'
  BY <1>5, EmptySeq, LenProperties
<1>8. ASSUME writes' = <<>> PROVE Len(writes) = 1
  <2>1. Len(writes') = 0
    BY <1>8, EmptySeq
  <2> QED BY <1>1, <1>5, <2>1
<1> QED BY <1>2, <1>3, <1>5, <1>6, <1>7, <1>8

LEMMA LandWriteKeeps ==
  ASSUME FileInv, NEW i \in DOMAIN writes, LandWrite(i) \/ WriteFails(i)
  PROVE  /\ FileInv' /\ mem' = mem
         /\ \A j \in DOMAIN writes' : writes'[j] = None
         /\ writes[i] # None /\ disk' \in {disk, writes[i]}
<1> USE DEF FileInv, StoreTypes
<1>1. /\ writes[i] # None /\ writes' = Remaining(i) /\ UNCHANGED <<mem, dirty>>
      /\ \/ disk' = writes[i] /\ failed' = FALSE
         \/ disk' = disk /\ failed' = TRUE
  BY DEF LandWrite, WriteFails
<1>2. /\ i = 1 /\ writes # <<>> /\ writes' \in Seq(Store \cup {None})
      /\ \A j \in DOMAIN writes' : writes'[j] = None
      /\ writes' # <<>> => writes'[Len(writes')] = None
      /\ writes' = <<>> => Len(writes) = 1
  BY <1>1, RemainingFacts
<1>3. writes[i] \in Store
  BY <1>1, ElementOfSeq, LenProperties
<1>4. ClientsInv'
  BY <1>1, <1>2 DEF ClientsInv
<1>5. QueueInv'
  <2>1. ASSUME ~dirty, writes' = <<>> PROVE failed' \/ disk' = mem
    <3>1. writes[1] = mem
      BY <1>1, <1>2, <2>1 DEF QueueInv
    <3> QED BY <1>1, <1>2, <3>1
  <2> QED BY <1>1, <1>2, <2>1 DEF QueueInv
<1> QED BY <1>1, <1>2, <1>3, <1>4, <1>5

-----------------------------------------------------------------------------
(* Sound stores.                                                           *)

\* Counters only grow, and a grant stays one.
CountsGrow ==
  /\ \A k \in Consents : minted[k] <= minted'[k]
  /\ \A k \in Consents : granted[k] = 1 => granted'[k] = 1
  /\ mode' = mode

Fewer(s, t) == s.access \subseteq t.access /\ s.refresh \subseteq t.refresh

\* A sound store stays sound while counters grow, and so does any part of it.
LEMMA SoundStays ==
  ASSUME CountTypes, CountTypes', CountsGrow, NEW s \in Store, NEW t \in Store,
         Sound(t), Fewer(s, t)
  PROVE  SoundBy(s, minted', granted', mode')
<1>1. OneEach(s)
  BY DEF Fewer, Sound, SoundBy, OneEach
<1>2. ASSUME NEW p \in s.access \cup s.refresh
      PROVE  /\ p.n < minted'[p.consent]
             /\ granted'[p.consent] = 1
             /\ p.user = IF mode' = "zotero" THEN p.consent ELSE None
  <2>1. p \in t.access \cup t.refresh /\ p \in Pair
    BY DEF Fewer, Store
  <2>2. p.consent \in Consents /\ p.n \in Nat
    BY <2>1 DEF Pair
  <2>3. p.n < minted[p.consent] /\ granted[p.consent] = 1
        /\ p.user = IF mode = "zotero" THEN p.consent ELSE None
    BY <2>1 DEF Sound, SoundBy
  <2>4. minted[p.consent] \in Nat /\ minted'[p.consent] \in Nat
    BY <2>2 DEF CountTypes
  <2>5. minted[p.consent] <= minted'[p.consent] /\ granted'[p.consent] = 1 /\ mode' = mode
    BY <2>2, <2>3 DEF CountsGrow
  <2>6. p.n < minted'[p.consent]
    BY <2>2, <2>3, <2>4, <2>5
  <2> QED BY <2>3, <2>5, <2>6
<1> QED BY <1>1, <1>2 DEF SoundBy

\* What is not memory stays sound, whatever memory becomes.
LEMMA OthersStaySound ==
  ASSUME CountTypes, CountTypes', CountsGrow, FileInv, StoresInv,
         disk' = disk, NoNewSnapshot(writes, writes')
  PROVE  /\ SoundBy(disk, minted', granted', mode')
         /\ \A i \in DOMAIN writes' : writes'[i] # None =>
              /\ writes'[i] \in Store /\ Before(disk, writes'[i])
              /\ SoundBy(writes'[i], minted', granted', mode')
              /\ \A p \in writes'[i].refresh : \E j \in DOMAIN writes :
                   writes[j] = writes'[i] /\ p \in writes[j].refresh
              /\ Before(writes'[i], mem)
<1>1. SoundBy(disk, minted', granted', mode')
  BY SoundStays DEF StoresInv, FileInv, StoreTypes, Fewer
<1>2. ASSUME NEW i \in DOMAIN writes', writes'[i] # None
      PROVE  /\ writes'[i] \in Store /\ Before(disk, writes'[i])
             /\ SoundBy(writes'[i], minted', granted', mode')
             /\ \A p \in writes'[i].refresh : \E j \in DOMAIN writes :
                  writes[j] = writes'[i] /\ p \in writes[j].refresh
             /\ Before(writes'[i], mem)
  <2>1. PICK j \in DOMAIN writes : writes[j] = writes'[i]
    BY <1>2 DEF NoNewSnapshot
  <2>2. writes[j] # None /\ writes[j] \in Store
    BY <1>2, <2>1, ElementOfSeq, LenProperties DEF FileInv, StoreTypes
  <2>3. Sound(writes[j]) /\ Before(disk, writes[j]) /\ Before(writes[j], mem)
    BY <2>2 DEF StoresInv
  <2>4. SoundBy(writes[j], minted', granted', mode')
    BY <2>2, <2>3, SoundStays DEF Fewer
  <2> QED BY <2>1, <2>2, <2>3, <2>4
<1> QED BY <1>1, <1>2

\* Memory loses tokens, or none.
LEMMA FewerTokens ==
  ASSUME CountTypes, CountTypes', CountsGrow, FileInv, StoresInv,
         mem' \in Store, Fewer(mem', mem), disk' = disk, NoNewSnapshot(writes, writes')
  PROVE  StoresInv'
<1>1. SoundBy(mem', minted', granted', mode')
  BY SoundStays DEF StoresInv, FileInv, StoreTypes
<1>2. Before(disk, mem')
  BY DEF StoresInv, Before, Fewer
<1>3. ASSUME NEW i \in DOMAIN writes', writes'[i] # None PROVE Before(writes'[i], mem')
  <2>1. Before(writes'[i], mem)
    BY <1>3, OthersStaySound
  <2> QED BY <2>1 DEF Before, Fewer
<1> QED BY <1>1, <1>2, <1>3, OthersStaySound DEF StoresInv, Sound

\* Memory gets a pair of a consent that has no other token to be renewed.
LEMMA OneMorePair ==
  ASSUME CountTypes, CountTypes', CountsGrow, FileInv, StoresInv,
         NEW k \in Consents, NEW s \in Store, Fewer(s, mem),
         \A p \in s.refresh : p.consent # k,
         NEW pair, pair = [consent |-> k, n |-> minted[k], user |-> IF mode = "zotero" THEN k ELSE None],
         minted'[k] = minted[k] + 1, granted'[k] = 1,
         mem' = [s EXCEPT !.access = @ \cup {pair}, !.refresh = @ \cup {pair}],
         disk' = disk, NoNewSnapshot(writes, writes')
  PROVE  StoresInv'
<1>0. /\ pair.consent = k /\ pair.n = minted[k]
      /\ pair.user = IF mode = "zotero" THEN k ELSE None
      /\ minted[k] \in Nat
  BY DEF CountTypes
<1>1. mem'.access = s.access \cup {pair} /\ mem'.refresh = s.refresh \cup {pair}
  BY DEF Store
<1>2. SoundBy(s, minted', granted', mode')
  BY SoundStays DEF StoresInv, FileInv, StoreTypes
<1>3. SoundBy(mem', minted', granted', mode')
  <2>1. OneEach(mem')
    BY <1>0, <1>1, <1>2 DEF SoundBy, OneEach
  <2>2. ASSUME NEW p \in mem'.access \cup mem'.refresh
        PROVE  /\ p.n < minted'[p.consent]
               /\ granted'[p.consent] = 1
               /\ p.user = IF mode' = "zotero" THEN p.consent ELSE None
    <3>1. CASE p = pair
      BY <1>0, <3>1 DEF CountsGrow
    <3>2. CASE p # pair
      BY <1>1, <1>2, <3>2 DEF SoundBy
    <3> QED BY <3>1, <3>2
  <2> QED BY <2>1, <2>2 DEF SoundBy
\* A store that is sound now has no token of k as young as the new one.
<1>4. ASSUME NEW t \in Store, Sound(t), Before(t, mem) PROVE Before(t, mem')
  <2>1. ASSUME NEW p \in t.refresh, NEW q \in mem'.refresh, p.consent = q.consent PROVE p.n <= q.n
    <3>1. CASE q = pair
      <4>1. p.n < minted[p.consent] /\ p \in Pair
        BY <1>4 DEF Sound, SoundBy, Store
      <4>2. p.consent = k
        BY <1>0, <2>1, <3>1
      <4>3. p.n \in Nat
        BY <4>1 DEF Pair
      <4> QED BY <1>0, <3>1, <4>1, <4>2, <4>3
    <3>2. CASE q # pair
      BY <1>1, <1>4, <2>1, <3>2 DEF Before, Fewer
    <3> QED BY <3>1, <3>2
  <2> QED BY <2>1 DEF Before
<1>5. Before(disk, mem')
  BY <1>4 DEF StoresInv, FileInv, StoreTypes
<1>6. ASSUME NEW i \in DOMAIN writes', writes'[i] # None PROVE Before(writes'[i], mem')
  <2>1. PICK j \in DOMAIN writes : writes[j] = writes'[i]
    BY <1>6 DEF NoNewSnapshot
  <2>2. writes[j] # None /\ writes[j] \in Store
    BY <1>6, <2>1, ElementOfSeq, LenProperties DEF FileInv, StoreTypes
  <2> QED BY <1>4, <2>1, <2>2 DEF StoresInv
<1> QED BY <1>3, <1>5, <1>6, OthersStaySound DEF StoresInv, Sound

\* Writing moves a sound memory to the file by way of a snapshot.
LEMMA WritingKeepsStores ==
  ASSUME CountTypes, CountTypes', FileInv, StoresInv,
         UNCHANGED <<minted, granted, mode>>, NEW i \in DOMAIN writes,
         StartWrite(i) \/ LandWrite(i) \/ WriteFails(i)
  PROVE  StoresInv'
<1>1. CASE StartWrite(i)
  <2>1. /\ UNCHANGED <<mem, disk>>
        /\ \A j \in DOMAIN writes' : j \in DOMAIN writes /\ writes'[j] \in {writes[j], mem}
    BY <1>1, StartWriteKeeps
  <2>2. Sound(mem) /\ Before(disk, mem) /\ Before(mem, mem)
    <3>1. OneEach(mem) /\ \A p \in mem.refresh : p.n \in Nat
      BY DEF StoresInv, Sound, SoundBy, FileInv, StoreTypes, Store, Pair
    <3> QED BY <3>1 DEF StoresInv, Before, OneEach
  <2> QED BY <2>1, <2>2 DEF StoresInv, Sound
<1>2. CASE LandWrite(i) \/ WriteFails(i)
  <2>1. /\ mem' = mem /\ \A j \in DOMAIN writes' : writes'[j] = None
        /\ writes[i] # None /\ disk' \in {disk, writes[i]}
    BY <1>2, LandWriteKeeps
  <2> QED BY <2>1 DEF StoresInv, Sound
<1> QED BY <1>1, <1>2

-----------------------------------------------------------------------------
(* A consent's way.                                                        *)

\* The consents other than k are where they were.
Others(k) ==
  \A o \in Consents \ {k} :
    /\ client'[o] = client[o] /\ (o \in starting' <=> o \in starting) /\ pending'[o] = pending[o]
    /\ callbacks'[o] = callbacks[o] /\ granted'[o] = granted[o]
    /\ \A c : c.consent = o => (c \in codes' <=> c \in codes)

LEMMA OthersInPlace ==
  ASSUME FlowInv, NEW k \in Consents, Others(k), NEW o \in Consents \ {k}
  PROVE  OnePlace(o)' /\ (NoCode(o)' <=> NoCode(o))
<1>1. /\ client'[o] = client[o] /\ (o \in starting' <=> o \in starting) /\ pending'[o] = pending[o]
      /\ callbacks'[o] = callbacks[o] /\ granted'[o] = granted[o]
      /\ \A c : c.consent = o => (c \in codes' <=> c \in codes)
  BY DEF Others
<1>2. NoCode(o)' <=> NoCode(o)
  BY <1>1 DEF NoCode
<1>3. OnePlace(o)
  BY DEF FlowInv
<1>4. Unspent(o)' <=> Unspent(o)
  BY <1>1, <1>2 DEF Unspent
<1>5. \A c, d \in codes' : c.consent = o /\ d.consent = o => c = d
  BY <1>1, <1>3 DEF OnePlace
<1>6. OnePlace(o)'
  BY <1>1, <1>2, <1>3, <1>4, <1>5 DEF OnePlace
<1> QED BY <1>2, <1>6

\* A step of one consent, which ends in one place.
LEMMA FlowStep ==
  ASSUME FlowInv, NEW k \in Consents, Others(k), OnePlace(k)', mode' = mode,
         callbacks'[k] # 0 => mode = "zotero",
         \A c \in codes' \ codes : c.user = SpeaksFor(c.consent)
  PROVE  FlowInv'
<1>1. \A o \in Consents : OnePlace(o)'
  BY OthersInPlace
<1>2. ASSUME NEW o \in Consents, callbacks'[o] # 0 PROVE mode' = "zotero"
  <2>1. CASE o = k
    BY <1>2, <2>1
  <2>2. CASE o # k
    BY <1>2, <2>2 DEF FlowInv, Others
  <2> QED BY <2>1, <2>2
<1>3. \A c \in codes' : c.user = SpeaksFor(c.consent)'
  BY DEF FlowInv, SpeaksFor
<1> QED BY <1>1, <1>2, <1>3 DEF FlowInv

LEMMA FlowAlone ==
  ASSUME FlowInv, UNCHANGED <<mode, flow, granted>>
  PROVE  FlowInv'
BY DEF FlowInv, flow, OnePlace, Unspent, NoCode, SpeaksFor

LEMMA FlowAuthorize ==
  ASSUME OAuthAssumption, FlowTypes, FlowInv, CountTypes,
         NEW k \in Consents, NEW c \in Clients, Authorize(k, c)
  PROVE  FlowTypes' /\ FlowInv'
<1> USE DEF FlowTypes
<1>1. /\ client[k] = None /\ client' = [client EXCEPT ![k] = c]
      /\ UNCHANGED <<mode, callbacks, codes, requests, granted>>
      /\ \/ pending' = [pending EXCEPT ![k] = 0] /\ starting' = starting
         \/ starting' = starting \cup {k} /\ pending' = pending
  BY DEF Authorize, others
<1>2. 0 \in 0..(MaxAttempts - 1)
  BY DEF OAuthAssumption
<1>3. FlowTypes'
  BY <1>1, <1>2
<1>4. Others(k)
  BY <1>1 DEF Others
<1>5. OnePlace(k) /\ k \notin starting /\ pending[k] = None /\ Unspent(k)
  BY <1>1 DEF FlowInv, OnePlace
<1>6. Unspent(k)' /\ client'[k] # None
  BY <1>1, <1>5 DEF Unspent, NoCode, OAuthAssumption
<1>7. k \in starting' => pending'[k] = None
  BY <1>1, <1>5
<1>8. OnePlace(k)'
  BY <1>1, <1>5, <1>6, <1>7 DEF OnePlace, Unspent
<1> QED BY <1>1, <1>3, <1>4, <1>5, <1>8, FlowStep DEF Unspent

LEMMA FlowRequestToken ==
  ASSUME OAuthAssumption, FlowTypes, FlowInv, CountTypes,
         NEW k \in Consents, RequestTokenArrives(k) \/ RequestTokenFails(k)
  PROVE  FlowTypes' /\ FlowInv'
<1> USE DEF FlowTypes
<1>1. /\ k \in starting /\ starting' = starting \ {k}
      /\ UNCHANGED <<mode, client, callbacks, codes, requests, granted>>
      /\ \/ pending' = [pending EXCEPT ![k] = 0]
         \/ pending' = pending
  BY DEF RequestTokenArrives, RequestTokenFails, others
<1>2. 0 \in 0..(MaxAttempts - 1)
  BY DEF OAuthAssumption
<1>3. FlowTypes'
  BY <1>1, <1>2
<1>4. Others(k)
  BY <1>1 DEF Others
<1>5. OnePlace(k) /\ Unspent(k) /\ client[k] # None
  BY <1>1 DEF FlowInv, OnePlace
<1>6. Unspent(k)' /\ client'[k] # None /\ k \notin starting'
  BY <1>1, <1>5 DEF Unspent, NoCode
<1>7. OnePlace(k)'
  BY <1>1, <1>5, <1>6 DEF OnePlace, Unspent
<1> QED BY <1>1, <1>3, <1>4, <1>5, <1>7, FlowStep DEF Unspent

\* A pending page is tried, used up, or runs out.
LEMMA FlowPending ==
  ASSUME OAuthAssumption, FlowTypes, FlowInv, CountTypes, NEW k \in Consents,
         WrongPasscode(k) \/ ConsentLapses(k)
  PROVE  FlowTypes' /\ FlowInv'
<1> USE DEF FlowTypes
<1>1. /\ pending[k] # None
      /\ UNCHANGED <<mode, client, starting, callbacks, codes, requests, granted>>
  BY DEF WrongPasscode, ConsentLapses, others
<1>2. PICK v \in 0..(MaxAttempts - 1) \cup {None} : pending' = [pending EXCEPT ![k] = v]
  <2>1. CASE ConsentLapses(k)
    BY <2>1 DEF ConsentLapses
  <2>2. CASE WrongPasscode(k)
    <3>1. pending[k] \in 0..(MaxAttempts - 1) /\ MaxAttempts \in Nat
      BY <1>1 DEF OAuthAssumption
    <3>2. CASE pending[k] + 1 >= MaxAttempts
      BY <2>2, <3>2 DEF WrongPasscode, Consumed
    <3>3. CASE ~(pending[k] + 1 >= MaxAttempts)
      <4>1. pending' = [pending EXCEPT ![k] = pending[k] + 1]
        BY <2>2, <3>3 DEF WrongPasscode
      <4>2. pending[k] + 1 \in 0..(MaxAttempts - 1)
        BY <3>1, <3>3
      <4> QED BY <4>1, <4>2
    <3> QED BY <3>2, <3>3
  <2> QED BY <2>1, <2>2
<1>3. FlowTypes'
  BY <1>1, <1>2
<1>4. Others(k)
  BY <1>1, <1>2 DEF Others
<1>5. OnePlace(k) /\ Unspent(k) /\ client[k] # None /\ k \notin starting
  BY <1>1 DEF FlowInv, OnePlace
<1>6. Unspent(k)'
  BY <1>1, <1>5 DEF Unspent, NoCode
<1>7. OnePlace(k)'
  BY <1>1, <1>5, <1>6 DEF OnePlace, Unspent
<1> QED BY <1>1, <1>3, <1>4, <1>5, <1>7, FlowStep DEF Unspent

\* The callback takes the consent off the page before it awaits the user's key.
LEMMA FlowCallback ==
  ASSUME FlowTypes, FlowInv, CountTypes, NEW k \in Consents, ZoteroCallback(k)
  PROVE  FlowTypes' /\ FlowInv'
<1> USE DEF FlowTypes
<1>1. /\ pending[k] # None /\ mode = "zotero"
      /\ UNCHANGED <<mode, client, starting, codes, requests, granted>>
      /\ pending' = [pending EXCEPT ![k] = None]
      /\ callbacks' = [callbacks EXCEPT ![k] = callbacks[k] + 1]
  BY DEF ZoteroCallback, others, Consumed
<1>2. FlowTypes'
  BY <1>1
<1>3. Others(k)
  BY <1>1 DEF Others
<1>4. OnePlace(k) /\ Unspent(k) /\ client[k] # None /\ k \notin starting
  BY <1>1 DEF FlowInv, OnePlace
<1>5. callbacks'[k] = 1 /\ pending'[k] = None
  BY <1>1, <1>4 DEF Unspent
<1>6. OnePlace(k)'
  BY <1>1, <1>4, <1>5 DEF OnePlace, Unspent, NoCode
<1> QED BY <1>1, <1>2, <1>3, <1>6, FlowStep

\* The passcode was right, or the user's key has come: a code takes the place.
LEMMA FlowCode ==
  ASSUME FlowTypes, FlowInv, CountTypes, NEW k \in Consents, RightPasscode(k) \/ KeyArrives(k)
  PROVE  FlowTypes' /\ FlowInv'
<1> USE DEF FlowTypes
<1> DEFINE code == [consent |-> k, n |-> minted[k], user |-> SpeaksFor(k)]
<1>1. OnePlace(k) /\ NoCode(k) /\ granted[k] = 0 /\ client[k] # None /\ k \notin starting
      /\ (pending[k] # None => callbacks[k] = 0) /\ callbacks[k] \in {0, 1}
  <2>1. OnePlace(k)
    BY DEF FlowInv
  <2>2. CASE RightPasscode(k)
    BY <2>1, <2>2 DEF RightPasscode, OnePlace, Unspent
  <2>3. CASE KeyArrives(k)
    <3>1. callbacks[k] = 1
      BY <2>1, <2>3 DEF KeyArrives, OnePlace
    <3> QED BY <2>1, <3>1 DEF OnePlace, Unspent
  <2> QED BY <2>2, <2>3
<1>2. /\ UNCHANGED <<mode, client, starting, requests, granted>>
      /\ codes' = codes \cup {code}
      /\ pending'[k] = None /\ callbacks'[k] = 0
      /\ pending' \in {pending, [pending EXCEPT ![k] = None]}
      /\ callbacks' \in {callbacks, [callbacks EXCEPT ![k] = callbacks[k] - 1]}
  <2>1. CASE RightPasscode(k)
    <3>1. mode = "passcode" /\ pending[k] # None
      BY <2>1 DEF RightPasscode
    <3>2. SpeaksFor(k) = None
      BY <3>1 DEF SpeaksFor
    <3> QED BY <1>1, <2>1, <3>1, <3>2 DEF RightPasscode, MintCode, Consumed
  <2>2. CASE KeyArrives(k)
    <3>1. callbacks[k] > 0 /\ callbacks[k] = 1
      BY <1>1, <2>2 DEF KeyArrives
    <3>2. SpeaksFor(k) = k
      BY <3>1 DEF FlowInv, SpeaksFor
    <3>3. pending[k] = None
      BY <1>1, <3>1
    <3> QED BY <2>2, <3>1, <3>2, <3>3 DEF KeyArrives, MintCode
  <2> QED BY <2>1, <2>2
<1>3. code \in Code /\ code.consent = k /\ code.user = SpeaksFor(k)
  BY DEF Code, CountTypes, SpeaksFor
<1> HIDE DEF code
<1>4. FlowTypes'
  <2>1. callbacks' \in [Consents -> Nat]
    BY <1>1, <1>2
  <2> QED BY <1>2, <1>3, <2>1
<1>5. Others(k)
  BY <1>2, <1>3 DEF Others
<1>6. \A c, d \in codes' : c.consent = k /\ d.consent = k => c = d
  BY <1>1, <1>2 DEF NoCode
<1>7. OnePlace(k)'
  BY <1>1, <1>2, <1>6 DEF OnePlace, Unspent
<1>8. \A c \in codes' \ codes : c.user = SpeaksFor(c.consent)
  BY <1>2, <1>3
<1> QED BY <1>2, <1>4, <1>5, <1>7, <1>8, FlowStep

LEMMA FlowKeyFails ==
  ASSUME FlowTypes, FlowInv, NEW k \in Consents, KeyFails(k)
  PROVE  FlowTypes' /\ FlowInv'
<1> USE DEF FlowTypes
<1>1. /\ callbacks[k] > 0 /\ callbacks' = [callbacks EXCEPT ![k] = callbacks[k] - 1]
      /\ UNCHANGED <<mode, client, starting, pending, codes, requests, granted>>
  BY DEF KeyFails, others
<1>2. OnePlace(k) /\ callbacks[k] = 1
  BY <1>1 DEF FlowInv, OnePlace
<1>3. callbacks'[k] = 0 /\ FlowTypes'
  BY <1>1, <1>2
<1>4. Others(k)
  BY <1>1 DEF Others
<1>5. pending[k] = None /\ k \notin starting /\ client[k] # None
  BY <1>2 DEF OnePlace, Unspent
<1>6. OnePlace(k)'
  BY <1>1, <1>2, <1>3, <1>5 DEF OnePlace, Unspent, NoCode
<1> QED BY <1>1, <1>3, <1>4, <1>6, FlowStep

\* Codes go when they run out, and requests come and go.
LEMMA FlowCodesGo ==
  ASSUME FlowTypes, FlowInv,
         UNCHANGED <<mode, client, starting, pending, callbacks, granted>>, codes' \subseteq codes,
         requests' \in [Requests -> Code \cup {None}]
  PROVE  FlowTypes' /\ FlowInv'
<1>1. \A k \in Consents : NoCode(k) => NoCode(k)'
  BY DEF NoCode
<1>2. ASSUME NEW k \in Consents PROVE OnePlace(k)'
  BY <1>1 DEF FlowInv, OnePlace, Unspent
<1> QED BY <1>2 DEF FlowInv, FlowTypes, SpeaksFor

\* An exchange takes the code itself, whatever the challenge had seen.
LEMMA FlowExchange ==
  ASSUME FlowTypes, FlowInv, CountTypes, NEW q \in Requests, ExchangeAuthorizationCode(q)
  PROVE  /\ FlowTypes' /\ FlowInv' /\ requests[q].consent \in Consents
         /\ granted[requests[q].consent] = 0 /\ granted'[requests[q].consent] = 1
         /\ requests[q].user = SpeaksFor(requests[q].consent)
         /\ granted' \in [Consents -> Nat]
         /\ \A o \in Consents : granted[o] = 1 => granted'[o] = 1
<1> USE DEF FlowTypes
\* The code and its consent, as they were before the step.
<1> SUFFICES ASSUME NEW code, code = requests[q], NEW k, k = code.consent
             PROVE  /\ FlowTypes' /\ FlowInv' /\ k \in Consents
                    /\ granted[k] = 0 /\ granted'[k] = 1 /\ code.user = SpeaksFor(k)
                    /\ granted' \in [Consents -> Nat]
                    /\ \A o \in Consents : granted[o] = 1 => granted'[o] = 1
  BY Zenon
<1>1. /\ code \in codes /\ codes' = codes \ {code}
      /\ requests' = [requests EXCEPT ![q] = None]
      /\ granted' = [granted EXCEPT ![k] = granted[k] + 1]
      /\ UNCHANGED <<mode, client, starting, pending, callbacks>>
  BY DEF ExchangeAuthorizationCode, StillGood
<1>2. k \in Consents /\ code.user = SpeaksFor(k)
  BY <1>1 DEF Code, FlowInv
<1>3. OnePlace(k) /\ ~NoCode(k)
  BY <1>1, <1>2 DEF FlowInv, NoCode
<1>4. granted[k] = 0 /\ callbacks[k] = 0 /\ pending[k] = None /\ k \notin starting /\ client[k] # None
  BY <1>3 DEF OnePlace, Unspent
<1>5. granted'[k] = 1 /\ granted' \in [Consents -> Nat]
  BY <1>1, <1>2, <1>4 DEF CountTypes
<1>6. \A c \in codes' : c.consent # k
  BY <1>1, <1>3 DEF OnePlace
<1>a. \A o \in Consents \ {k} : granted'[o] = granted[o]
  BY <1>1, <1>2 DEF CountTypes
<1>7. requests' \in [Requests -> Code \cup {None}]
  BY <1>1
<1>8. FlowTypes'
  BY <1>1, <1>7
<1>9. Others(k)
  BY <1>1, <1>2, <1>a DEF Others
<1>10. OnePlace(k)'
  <2>1. NoCode(k)' /\ granted'[k] = 1
    BY <1>5, <1>6 DEF NoCode
  <2>2. /\ client'[k] # None /\ k \notin starting' /\ pending'[k] = None /\ callbacks'[k] = 0
    BY <1>1, <1>4
  <2>3. \A c, d \in codes' : c.consent = k /\ d.consent = k => c = d
    BY <1>6
  <2> QED BY <2>1, <2>2, <2>3 DEF OnePlace
<1>11. FlowInv'
  BY <1>1, <1>2, <1>4, <1>9, <1>10, FlowStep
<1>12. \A o \in Consents : granted[o] = 1 => granted'[o] = 1
  BY <1>1, <1>2, <1>4 DEF CountTypes
<1> QED BY <1>2, <1>4, <1>5, <1>8, <1>11, <1>12

\* A restart forgets all that is under way, and no grant.
LEMMA FlowRestart ==
  ASSUME FlowTypes, FlowInv, Restart
  PROVE  FlowTypes' /\ FlowInv'
<1> USE DEF FlowTypes
<1>1. /\ starting' = {} /\ codes' = {}
      /\ pending' = [k \in Consents |-> None] /\ callbacks' = [k \in Consents |-> 0]
      /\ requests' = [q \in Requests |-> None]
      /\ UNCHANGED <<mode, client, granted>>
  BY DEF Restart
<1>2. FlowTypes'
  BY <1>1
<1>3. ASSUME NEW k \in Consents PROVE OnePlace(k)'
  <2>1. OnePlace(k)
    BY DEF FlowInv
  <2>2. NoCode(k)' /\ callbacks'[k] = 0 /\ pending'[k] = None /\ k \notin starting'
    BY <1>1 DEF NoCode
  <2>3. client[k] = None => granted[k] = 0
    BY <2>1 DEF OnePlace, Unspent
  <2> QED BY <1>1, <2>1, <2>2, <2>3 DEF OnePlace, Unspent
<1> QED BY <1>1, <1>2, <1>3 DEF FlowInv

-----------------------------------------------------------------------------
(* The steps.                                                              *)

LEMMA StoreAlone ==
  ASSUME FileInv, UNCHANGED store
  PROVE  /\ FileInv' /\ mem' = mem /\ mem' \in Store /\ Fewer(mem', mem) /\ disk' = disk
         /\ NoNewSnapshot(writes, writes')
BY DEF FileInv, StoreTypes, ClientsInv, QueueInv, store, Fewer, NoNewSnapshot

LEMMA SweepKeeps ==
  ASSUME FileInv, CountTypes, Sweep
  PROVE  /\ FileInv' /\ mem' \in Store /\ Fewer(mem', mem) /\ disk' = disk
         /\ NoNewSnapshot(writes, writes')
<1> DEFINE s == [mem EXCEPT !.access = @ \ lapsed.access, !.refresh = @ \ lapsed.refresh]
<1>1. Within(s) /\ Fewer(s, mem)
  BY DEF Within, Fewer, FileInv, StoreTypes, Store
<1>2. Touch(s)
  BY DEF Sweep
<1> HIDE DEF s
<1> QED BY <1>1, <1>2, TouchKeeps DEF Within

LEMMA CappedFits ==
  ASSUME OAuthAssumption, NEW ids \in Seq(Clients), Len(ids) <= MaxClients, NEW c \in Clients
  PROVE  Append(Capped(ids), c) \in Seq(Clients) /\ Len(Append(Capped(ids), c)) <= MaxClients
<1>1. MaxClients \in Nat \ {0} /\ Len(ids) \in Nat
  BY LenProperties DEF OAuthAssumption
<1>2. CASE Len(ids) >= MaxClients
  <2> DEFINE from == Len(ids) - MaxClients + 2
             rest == SubSeq(ids, from, Len(ids))
  <2>1. from = 2 /\ Len(ids) = MaxClients
    BY <1>1, <1>2
  <2>2. \A i \in 2..Len(ids) : ids[i] \in Clients
    BY <1>1, ElementOfSeq
  <2>3. rest = SubSeq(ids, 2, Len(ids))
    BY <2>1
  <2>4. /\ rest \in Seq(Clients)
        /\ Len(rest) = IF 2 <= Len(ids) THEN Len(ids) - 2 + 1 ELSE 0
    BY <1>1, <2>2, <2>3, SubSeqProperties
  <2>5. Capped(ids) = rest
    BY <1>2 DEF Capped
  <2> HIDE DEF from, rest
  <2>6. Len(rest) + 1 <= MaxClients
    <3>1. CASE 2 <= Len(ids)
      BY <1>1, <2>1, <2>4, <3>1
    <3>2. CASE ~(2 <= Len(ids))
      BY <1>1, <2>1, <2>4, <3>2
    <3> QED BY <3>1, <3>2
  <2> QED BY <2>4, <2>5, <2>6, AppendProperties
<1>3. CASE ~(Len(ids) >= MaxClients)
  <2>1. Capped(ids) = ids
    BY <1>3 DEF Capped
  <2> QED BY <1>1, <1>3, <2>1, AppendProperties
<1> QED BY <1>2, <1>3

\* Steps that leave the flow and the counters alone, and lose tokens at most.
LEMMA StoreSteps ==
  ASSUME OAuthAssumption, OAuthInv,
         \/ \E c \in Clients : RegisterClient(c)
         \/ ConsentGone \/ FlushRest
         \/ \E p \in mem.access : VerifyLapsedToken(p) \/ RevokeAccess(p) \/ AccessLapses(p)
         \/ \E p \in mem.refresh : RevokeRefresh(p) \/ RefreshLapses(p)
  PROVE  OAuthInv'
<1>0. FlowTypes /\ CountTypes /\ FlowInv /\ FileInv /\ StoresInv /\ mem \in Store
  BY DEF OAuthInv, FileInv, StoreTypes
<1>1. UNCHANGED <<mode, flow, minted, granted>>
  BY DEF RegisterClient, ConsentGone, FlushRest, VerifyLapsedToken, RevokeAccess, AccessLapses,
         RevokeRefresh, RefreshLapses, others
<1>2. CountTypes'
  <2>1. CASE \E p \in mem.access : AccessLapses(p)
    BY <1>0, <2>1 DEF AccessLapses, CountTypes, Store
  <2>2. CASE \E p \in mem.refresh : RefreshLapses(p)
    <3>1. PICK p \in mem.refresh : RefreshLapses(p)
      BY <2>2
    <3>2. p \in Pair
      BY <1>0 DEF Store
    <3>3. lapsed' \in [access : SUBSET Pair, refresh : SUBSET Pair]
      BY <1>0, <3>1, <3>2 DEF RefreshLapses, CountTypes
    <3> QED BY <1>0, <3>1, <3>3 DEF RefreshLapses, CountTypes
  <2>3. CASE \E c \in Clients : RegisterClient(c)
    BY <1>0, <2>3 DEF RegisterClient, CountTypes
  <2>4. CASE \/ ConsentGone \/ FlushRest
             \/ \E p \in mem.access : VerifyLapsedToken(p) \/ RevokeAccess(p)
             \/ \E p \in mem.refresh : RevokeRefresh(p)
    BY <1>0, <2>4 DEF ConsentGone, FlushRest, VerifyLapsedToken, RevokeAccess, RevokeRefresh,
                      others, CountTypes
  <2> QED BY <2>1, <2>2, <2>3, <2>4
<1>3. CountsGrow
  BY <1>0, <1>1 DEF CountsGrow, CountTypes
<1>4. FlowTypes' /\ FlowInv'
  BY <1>0, <1>1, FlowAlone DEF FlowTypes, flow
<1>5. /\ FileInv' /\ mem' \in Store /\ Fewer(mem', mem) /\ disk' = disk
      /\ NoNewSnapshot(writes, writes')
  <2>1. CASE \E c \in Clients : RegisterClient(c)
    <3>1. PICK c \in Clients : RegisterClient(c)
      BY <2>1
    <3> DEFINE s == [mem EXCEPT !.clients = Append(Capped(mem.clients), c)]
    <3>2. mem.clients \in Seq(Clients) /\ Len(mem.clients) <= MaxClients
      BY <1>0 DEF Store, FileInv, StoreTypes
    <3>3. Within(s) /\ Fewer(s, mem)
      BY <1>0, <3>2, CappedFits DEF Within, Fewer, Store
    <3>4. Flush(s)
      BY <3>1 DEF RegisterClient
    <3> HIDE DEF s
    <3> QED BY <1>0, <3>3, <3>4, FlushKeeps DEF Within
  <2>2. CASE ConsentGone
    BY <1>0, <2>2, SweepKeeps DEF ConsentGone
  <2>3. CASE FlushRest
    <3>1. Within(mem) /\ Flush(mem) /\ Fewer(mem, mem)
      BY <1>0, <2>3 DEF Within, FileInv, StoreTypes, FlushRest, Fewer
    <3> QED BY <1>0, <3>1, FlushKeeps DEF Within
  <2>4. CASE \E p \in mem.access : VerifyLapsedToken(p) \/ RevokeAccess(p)
    <3>1. PICK p \in mem.access : VerifyLapsedToken(p) \/ RevokeAccess(p)
      BY <2>4
    <3> DEFINE s == [mem EXCEPT !.access = mem.access \ {p}]
    <3>2. Within(s) /\ Fewer(s, mem)
      BY <1>0 DEF Within, Fewer, Store, FileInv, StoreTypes
    <3>3. Touch(s) \/ Flush(s)
      BY <3>1 DEF VerifyLapsedToken, RevokeAccess
    <3> HIDE DEF s
    <3> QED BY <1>0, <3>2, <3>3, FlushKeeps, TouchKeeps DEF Within
  <2>5. CASE \E p \in mem.refresh : RevokeRefresh(p)
    <3>1. PICK p \in mem.refresh : RevokeRefresh(p)
      BY <2>5
    <3> DEFINE s == [mem EXCEPT !.refresh = mem.refresh \ {p}]
    <3>2. Within(s) /\ Fewer(s, mem)
      BY <1>0 DEF Within, Fewer, Store, FileInv, StoreTypes
    <3>3. Flush(s)
      BY <3>1 DEF RevokeRefresh
    <3> HIDE DEF s
    <3> QED BY <1>0, <3>2, <3>3, FlushKeeps DEF Within
  <2>6. CASE (\E p \in mem.access : AccessLapses(p)) \/ (\E p \in mem.refresh : RefreshLapses(p))
    BY <1>0, <2>6, StoreAlone DEF AccessLapses, RefreshLapses
  <2> QED BY <2>1, <2>2, <2>3, <2>4, <2>5, <2>6
<1>6. StoresInv'
  BY <1>0, <1>2, <1>3, <1>5, FewerTokens
<1> QED BY <1>2, <1>4, <1>5, <1>6 DEF OAuthInv

\* Steps of the flow, which sweep the store or leave it.
LEMMA FlowSteps ==
  ASSUME OAuthAssumption, OAuthInv,
         \/ Consenting
         \/ \E q \in Requests : (\E c \in codes : Challenge(q, c)) \/ RefuseExchange(q)
         \/ \E k \in Consents : ConsentLapses(k)
         \/ \E c \in codes : CodeLapses(c)
  PROVE  OAuthInv'
<1>0. FlowTypes /\ CountTypes /\ FlowInv /\ FileInv /\ StoresInv
  BY DEF OAuthInv
<1>1. FlowTypes' /\ FlowInv'
  <2>1. CASE Consenting
    BY <1>0, <2>1, FlowAuthorize, FlowRequestToken, FlowPending, FlowCode, FlowCallback,
       FlowKeyFails DEF Consenting
  <2>2. CASE \E q \in Requests : (\E c \in codes : Challenge(q, c)) \/ RefuseExchange(q)
    <3>1. /\ UNCHANGED <<mode, client, starting, pending, callbacks, granted>> /\ codes' \subseteq codes
          /\ requests' \in [Requests -> Code \cup {None}]
      BY <1>0, <2>2 DEF Challenge, RefuseExchange, FlowTypes, others
    <3> QED BY <1>0, <3>1, FlowCodesGo
  <2>3. CASE \E k \in Consents : ConsentLapses(k)
    BY <1>0, <2>3, FlowPending
  <2>4. CASE \E c \in codes : CodeLapses(c)
    <3>1. /\ UNCHANGED <<mode, client, starting, pending, callbacks, granted>> /\ codes' \subseteq codes
          /\ requests' \in [Requests -> Code \cup {None}]
      BY <1>0, <2>4 DEF CodeLapses, FlowTypes, others
    <3> QED BY <1>0, <3>1, FlowCodesGo
  <2> QED BY <2>1, <2>2, <2>3, <2>4
<1>2. /\ Sweep \/ UNCHANGED store
      /\ UNCHANGED <<mode, lapsed, granted, registered, faults>>
      /\ minted' = minted \/ \E k \in Consents : minted' = [minted EXCEPT ![k] = minted[k] + 1]
  BY DEF Consenting, Authorize, RequestTokenArrives, RequestTokenFails, WrongPasscode,
         RightPasscode, ZoteroCallback, KeyArrives, KeyFails, MintCode, Challenge, RefuseExchange,
         ConsentLapses, CodeLapses, others
<1>3. CountTypes' /\ CountsGrow
  <2>1. CASE minted' = minted
    BY <1>0, <1>2, <2>1 DEF CountTypes, CountsGrow
  <2>2. CASE \E k \in Consents : minted' = [minted EXCEPT ![k] = minted[k] + 1]
    BY <1>0, <1>2, <2>2 DEF CountTypes, CountsGrow
  <2> QED BY <1>2, <2>1, <2>2
<1>4. /\ FileInv' /\ mem' \in Store /\ Fewer(mem', mem) /\ disk' = disk
      /\ NoNewSnapshot(writes, writes')
  BY <1>0, <1>2, SweepKeeps, StoreAlone
<1>5. StoresInv'
  BY <1>0, <1>3, <1>4, FewerTokens
<1> QED BY <1>1, <1>3, <1>4, <1>5 DEF OAuthInv

LEMMA WritingSteps ==
  ASSUME OAuthAssumption, OAuthInv, NEW i \in DOMAIN writes,
         StartWrite(i) \/ LandWrite(i) \/ WriteFails(i)
  PROVE  OAuthInv'
<1>0. FlowTypes /\ CountTypes /\ FlowInv /\ FileInv /\ StoresInv
  BY DEF OAuthInv
<1>1. UNCHANGED <<mode, flow, lapsed, minted, granted, registered>>
      /\ (faults' = faults \/ (faults < MaxFaults /\ faults' = faults + 1))
  BY DEF StartWrite, LandWrite, WriteFails, others
<1>2. CountTypes'
  <2>1. MaxFaults \in Nat /\ faults \in 0..MaxFaults
    BY <1>0 DEF CountTypes, OAuthAssumption
  <2>2. faults' \in 0..MaxFaults
    BY <1>1, <2>1
  <2> QED BY <1>0, <1>1, <2>2 DEF CountTypes
<1>3. FlowTypes' /\ FlowInv'
  BY <1>0, <1>1, FlowAlone DEF FlowTypes, flow
<1>4. FileInv'
  BY <1>0, StartWriteKeeps, LandWriteKeeps
<1>5. StoresInv'
  BY <1>0, <1>1, <1>2, WritingKeepsStores
<1> QED BY <1>2, <1>3, <1>4, <1>5 DEF OAuthInv

\* Another process begins with what the file says.
LEMMA RestartStep ==
  ASSUME OAuthAssumption, OAuthInv, Restart
  PROVE  OAuthInv'
<1>0. FlowTypes /\ CountTypes /\ FlowInv /\ FileInv /\ StoresInv
  BY DEF OAuthInv
<1>1. /\ mem' = disk /\ disk' = disk /\ dirty' = FALSE /\ failed' = FALSE /\ writes' = <<>>
      /\ UNCHANGED <<mode, lapsed, minted, granted, registered>>
      /\ faults < MaxFaults /\ faults' = faults + 1
  BY DEF Restart
<1>2. CountTypes'
  <2>1. MaxFaults \in Nat /\ faults \in 0..MaxFaults
    BY <1>0 DEF CountTypes, OAuthAssumption
  <2>2. faults' \in 0..MaxFaults
    BY <1>1, <2>1
  <2> QED BY <1>0, <1>1, <2>2 DEF CountTypes
<1>3. FlowTypes' /\ FlowInv'
  BY <1>0, FlowRestart
<1>4. DOMAIN writes' = {} /\ writes' \in Seq(Store \cup {None})
  BY <1>1, EmptySeq
<1>5. FileInv'
  BY <1>0, <1>1, <1>4 DEF FileInv, StoreTypes, ClientsInv, QueueInv
<1>6. StoresInv'
  <2>1. Before(disk, disk)
    <3>1. OneEach(disk) /\ \A p \in disk.refresh : p.n \in Nat
      BY <1>0 DEF StoresInv, Sound, SoundBy, FileInv, StoreTypes, Store, Pair
    <3> QED BY <3>1 DEF Before, OneEach
  <2> QED BY <1>0, <1>1, <1>4, <2>1 DEF StoresInv, Sound
<1> QED BY <1>2, <1>3, <1>5, <1>6 DEF OAuthInv

\* A code becomes the first pair of its consent.
LEMMA ExchangeStep ==
  ASSUME OAuthAssumption, OAuthInv, NEW q \in Requests, ExchangeAuthorizationCode(q)
  PROVE  OAuthInv'
<1>0. FlowTypes /\ CountTypes /\ FlowInv /\ FileInv /\ StoresInv
  BY DEF OAuthInv
<1> SUFFICES ASSUME NEW code, code = requests[q], NEW k, k = code.consent
             PROVE  OAuthInv'
  BY Zenon
<1>1. /\ FlowTypes' /\ FlowInv' /\ k \in Consents /\ granted[k] = 0 /\ granted'[k] = 1
      /\ code.user = SpeaksFor(k) /\ granted' \in [Consents -> Nat]
      /\ \A o \in Consents : granted[o] = 1 => granted'[o] = 1
  BY <1>0, FlowExchange
<1> DEFINE pair == [consent |-> k, n |-> minted[k], user |-> code.user]
           s    == [mem EXCEPT !.access = mem.access \cup {pair}, !.refresh = mem.refresh \cup {pair}]
<1>2. /\ minted' = [minted EXCEPT ![k] = minted[k] + 1] /\ Flush(s)
      /\ UNCHANGED <<mode, lapsed, registered, faults>>
  BY DEF ExchangeAuthorizationCode, IssueTokens
<1>3. CountTypes' /\ CountsGrow /\ minted'[k] = minted[k] + 1
  BY <1>0, <1>1, <1>2 DEF CountTypes, CountsGrow
<1>4. pair \in Pair /\ pair = [consent |-> k, n |-> minted[k], user |-> IF mode = "zotero" THEN k ELSE None]
  BY <1>0, <1>1 DEF Pair, CountTypes, SpeaksFor
<1> SUFFICES ASSUME NEW pr, pr = pair PROVE OAuthInv'
  BY Zenon
<1> HIDE DEF pair
<1>5. Within(s)
  BY <1>0, <1>4 DEF Within, FileInv, StoreTypes, Store
<1>6. \A p \in mem.refresh : p.consent # k
  BY <1>0, <1>1 DEF StoresInv, Sound, SoundBy
<1>7. FileInv' /\ mem' = s /\ disk' = disk /\ NoNewSnapshot(writes, writes')
  BY <1>0, <1>2, <1>5, FlushKeeps
<1>8. mem' = [mem EXCEPT !.access = @ \cup {pr}, !.refresh = @ \cup {pr}]
  BY <1>7
<1>9. mem \in Store /\ Fewer(mem, mem)
  BY <1>0 DEF FileInv, StoreTypes, Fewer
<1>10. pr = [consent |-> k, n |-> minted[k], user |-> IF mode = "zotero" THEN k ELSE None]
  BY <1>4
<1>11. StoresInv'
  BY <1>0, <1>1, <1>3, <1>6, <1>7, <1>8, <1>9, <1>10, OneMorePair
<1> QED BY <1>1, <1>3, <1>7, <1>11 DEF OAuthInv

\* A refresh token becomes the next pair of its consent.
LEMMA RotateStep ==
  ASSUME OAuthAssumption, OAuthInv, NEW p \in mem.refresh, ExchangeRefreshToken(p)
  PROVE  OAuthInv'
<1>0. FlowTypes /\ CountTypes /\ FlowInv /\ FileInv /\ StoresInv
  BY DEF OAuthInv
<1> SUFFICES ASSUME NEW k, k = p.consent PROVE OAuthInv'
  BY Zenon
<1>1. p \in Pair /\ k \in Consents /\ mem \in Store
  BY <1>0 DEF FileInv, StoreTypes, Store, Pair
<1>2. granted[k] = 1 /\ p.user = IF mode = "zotero" THEN k ELSE None
  BY <1>0 DEF StoresInv, Sound, SoundBy
<1> DEFINE pair == [consent |-> k, n |-> minted[k], user |-> p.user]
           r    == [mem EXCEPT !.refresh = mem.refresh \ {p}]
           s    == [r EXCEPT !.access = r.access \cup {pair}, !.refresh = r.refresh \cup {pair}]
<1>3. /\ minted' = [minted EXCEPT ![k] = minted[k] + 1] /\ Flush(s)
      /\ UNCHANGED <<mode, flow, lapsed, granted, registered, faults>>
  BY DEF ExchangeRefreshToken, IssueTokens, Rotated, IdentityOf
<1>4. CountTypes' /\ CountsGrow /\ minted'[k] = minted[k] + 1 /\ granted'[k] = 1
  BY <1>0, <1>1, <1>2, <1>3 DEF CountTypes, CountsGrow
<1>5. pair \in Pair /\ pair = [consent |-> k, n |-> minted[k], user |-> IF mode = "zotero" THEN k ELSE None]
  BY <1>0, <1>1, <1>2 DEF Pair, CountTypes
<1>6. r \in Store /\ Fewer(r, mem) /\ r.refresh = mem.refresh \ {p} /\ r.clients = mem.clients
  BY <1>1 DEF Store, Fewer
<1>7. \A o \in r.refresh : o.consent # k
  BY <1>0, <1>6 DEF StoresInv, Sound, SoundBy, OneEach
<1> SUFFICES ASSUME NEW pr, pr = pair, NEW rr, rr = r PROVE OAuthInv'
  BY Zenon
<1>12. rr \in Store /\ Fewer(rr, mem) /\ \A o \in rr.refresh : o.consent # k
  BY <1>6, <1>7 DEF Fewer
<1> HIDE DEF pair, r
<1>8. Within(s)
  BY <1>0, <1>5, <1>6 DEF Within, FileInv, StoreTypes, Store
<1>9. FileInv' /\ mem' = s /\ disk' = disk /\ NoNewSnapshot(writes, writes')
  BY <1>0, <1>3, <1>8, FlushKeeps
<1>10. mem' = [rr EXCEPT !.access = @ \cup {pr}, !.refresh = @ \cup {pr}]
  BY <1>9
<1>11. pr = [consent |-> k, n |-> minted[k], user |-> IF mode = "zotero" THEN k ELSE None]
  BY <1>5
<1> HIDE DEF s
<1>13. StoresInv'
  <2>1. disk' = disk /\ NoNewSnapshot(writes, writes') /\ k \in Consents
    BY <1>1, <1>9
  <2> QED BY <1>0, <1>4, <1>10, <1>11, <1>12, <2>1, OneMorePair
<1>14. FlowTypes' /\ FlowInv'
  BY <1>0, <1>3, FlowAlone DEF FlowTypes, flow
<1> QED BY <1>4, <1>9, <1>13, <1>14 DEF OAuthInv

LEMMA OAuthInvKept ==
  ASSUME OAuthAssumption, OAuthInv, [Next]_vars
  PROVE  OAuthInv'
<1>1. CASE UNCHANGED vars
  <2>1. UNCHANGED <<mode, flow, store, others>>
    BY <1>1 DEF vars
  <2>2. FlowTypes' /\ FlowInv' /\ CountTypes' /\ CountsGrow
    BY <2>1, FlowAlone DEF OAuthInv, FlowTypes, CountTypes, CountsGrow, flow, others
  <2>3. FileInv' /\ StoresInv'
    BY <2>1, <2>2, StoreAlone, FewerTokens DEF OAuthInv
  <2> QED BY <2>2, <2>3 DEF OAuthInv
<1>2. CASE Next
  <2>1. CASE \/ \E c \in Clients : RegisterClient(c)
             \/ ConsentGone \/ FlushRest
             \/ \E p \in mem.access : VerifyLapsedToken(p) \/ RevokeAccess(p) \/ AccessLapses(p)
             \/ \E p \in mem.refresh : RevokeRefresh(p) \/ RefreshLapses(p)
    BY <2>1, StoreSteps
  <2>2. CASE \/ Consenting
             \/ \E q \in Requests : (\E c \in codes : Challenge(q, c)) \/ RefuseExchange(q)
             \/ \E k \in Consents : ConsentLapses(k)
             \/ \E c \in codes : CodeLapses(c)
    BY <2>2, FlowSteps
  <2>3. ASSUME NEW q \in Requests, ExchangeAuthorizationCode(q) PROVE OAuthInv'
    BY <2>3, ExchangeStep
  <2>4. ASSUME NEW p \in mem.refresh, ExchangeRefreshToken(p) PROVE OAuthInv'
    BY <2>4, RotateStep
  <2>5. CASE Writing
    BY <2>5, WritingSteps DEF Writing
  <2>6. CASE Restart
    BY <2>6, RestartStep
  <2> QED BY <1>2, <2>1, <2>2, <2>3, <2>4, <2>5, <2>6 DEF Next, TokenEndpoint, Lapsing
<1> QED BY <1>1, <1>2

LEMMA InitOAuthInv ==
  ASSUME OAuthAssumption, Init
  PROVE  OAuthInv
<1>1. EmptyStore \in Store /\ Len(EmptyStore.clients) = 0 /\ <<>> \in Seq(Store \cup {None})
      /\ EmptyStore.access = {} /\ EmptyStore.refresh = {}
  BY EmptySeq DEF EmptyStore, Store
<1>2. MaxClients \in Nat /\ MaxFaults \in Nat
  BY DEF OAuthAssumption
<1>3. FlowTypes /\ CountTypes
  <2>1. /\ client \in [Consents -> Clients \cup {None}]
        /\ pending \in [Consents -> 0..(MaxAttempts - 1) \cup {None}]
        /\ callbacks \in [Consents -> Nat] /\ requests \in [Requests -> Code \cup {None}]
    BY DEF Init
  <2>2. mode \in Modes /\ starting \in SUBSET Consents /\ codes \in SUBSET Code
    BY DEF Init
  <2>3. lapsed \in [access : SUBSET Pair, refresh : SUBSET Pair] /\ registered \in SUBSET Clients
    BY DEF Init
  <2>4. minted \in [Consents -> Nat] /\ granted \in [Consents -> Nat]
    BY DEF Init
  <2>5. faults \in 0..MaxFaults
    BY <1>2 DEF Init
  <2> QED BY <2>1, <2>2, <2>3, <2>4, <2>5 DEF FlowTypes, CountTypes
<1>4. FileInv
  <2>1. DOMAIN writes = {} /\ ~dirty /\ disk = mem /\ writes = <<>>
    BY EmptySeq DEF Init
  <2>2. mem \in Store /\ disk \in Store /\ dirty \in BOOLEAN /\ failed \in BOOLEAN
        /\ mem = EmptyStore /\ writes \in Seq(Store \cup {None})
    BY <1>1 DEF Init
  <2>3. Len(EmptyStore.clients) <= MaxClients
    BY <1>1, <1>2 DEF OAuthAssumption
  <2>4. StoreTypes /\ Len(disk.clients) <= MaxClients
    BY <2>1, <2>2, <2>3, Zenon DEF StoreTypes
  <2> QED BY <2>1, <2>4 DEF FileInv, ClientsInv, QueueInv
<1>5. FlowInv
  BY DEF Init, FlowInv, OnePlace, Unspent, NoCode
<1>6. StoresInv
  BY <1>1 DEF Init, StoresInv, Sound, SoundBy, OneEach, Before
<1> QED BY <1>3, <1>4, <1>5, <1>6 DEF OAuthInv

-----------------------------------------------------------------------------

LEMMA OAuthInvHolds ==
  ASSUME OAuthAssumption
  PROVE  Spec => []OAuthInv
BY InitOAuthInv, OAuthInvKept, PTL DEF Spec

\* However often a consent page is submitted, a code presented, a write failed or
\* the server restarted, a consent leads to one grant, of its own user, with one
\* refresh token alive in memory, in the file and on the way to it
\* (auth/provider.ts:370, :383; server.ts:568).
THEOREM ConsentIsGrantedOnce ==
  ASSUME OAuthAssumption
  PROVE  Spec => []ConsentGrantsOnce
<1>1. OAuthInv => OAuthTypeOK
  BY DEF OAuthInv, FlowTypes, CountTypes, FileInv, StoreTypes, OAuthTypeOK
<1>2. OAuthInv => OneGrantPerConsent
  BY DEF OAuthInv, FlowInv, OnePlace, OneGrantPerConsent
<1>3. ASSUME OAuthInv, NEW s \in Held PROVE Sound(s)
  <2>1. CASE s \in {mem, disk}
    BY <1>3, <2>1 DEF OAuthInv, StoresInv
  <2>2. CASE s \in {writes[i] : i \in DOMAIN writes} \ {None}
    BY <1>3, <2>2 DEF OAuthInv, StoresInv
  <2> QED BY <2>1, <2>2 DEF Held
<1>4. OAuthInv => OneHeir /\ TokensKeepUser
  BY <1>3 DEF OneHeir, TokensKeepUser, Sound, SoundBy, OneEach
<1>5. OAuthInv => ConsentGrantsOnce
  BY <1>1, <1>2, <1>4 DEF ConsentGrantsOnce
<1> QED BY <1>5, OAuthInvHolds, PTL

\* Once nothing is left to write and the last write did not fail, the file says
\* what memory says (auth/store.ts:183).
THEOREM FileSettlesHolds ==
  ASSUME OAuthAssumption
  PROVE  Spec => []FileSettles
<1>1. OAuthInv => FileSettles
  BY DEF OAuthInv, FileInv, QueueInv, FileSettles
<1> QED BY <1>1, OAuthInvHolds, PTL

\* The file never falls back to a refresh token it had replaced, not even across
\* failed writes and restarts (auth/store.ts:180).
THEOREM FileMovesForwardHolds ==
  ASSUME OAuthAssumption
  PROVE  Spec => FileMovesForward
<1> DEFINE Forward == \A p \in disk.refresh, q \in disk'.refresh : p.consent = q.consent => p.n <= q.n
<1>1. OAuthInv /\ [Next]_vars => [Forward]_vars
  <2> SUFFICES ASSUME OAuthInv, [Next]_vars PROVE Before(disk, disk')
    BY DEF Before
  <2>1. Before(disk, disk)
    <3>1. OneEach(disk) /\ \A p \in disk.refresh : p.n \in Nat
      BY DEF OAuthInv, StoresInv, Sound, SoundBy, FileInv, StoreTypes, Store, Pair
    <3> QED BY <3>1 DEF Before, OneEach
  <2>2. CASE disk' = disk
    BY <2>1, <2>2
  <2>3. CASE \E i \in DOMAIN writes : LandWrite(i)
    BY <2>3 DEF LandWrite, OAuthInv, StoresInv
  <2>4. disk' = disk \/ \E i \in DOMAIN writes : LandWrite(i)
    <3>1. CASE UNCHANGED vars
      BY <3>1 DEF vars, store
    <3>2. CASE Next
      BY <3>2 DEF Next, RegisterClient, Consenting, ConsentGone, TokenEndpoint, Lapsing, Writing,
                  FlushRest, Restart, Authorize, RequestTokenArrives, RequestTokenFails,
                  WrongPasscode, RightPasscode, ZoteroCallback, KeyArrives, KeyFails, Challenge,
                  ExchangeAuthorizationCode, RefuseExchange, ExchangeRefreshToken, IssueTokens,
                  VerifyLapsedToken, RevokeAccess, RevokeRefresh, ConsentLapses, CodeLapses,
                  AccessLapses, RefreshLapses, StartWrite, WriteFails, Flush, Touch, Sweep, store
    <3> QED BY <3>1, <3>2
  <2> QED BY <2>2, <2>3, <2>4
<1>2. Spec => [][Forward]_vars
  <2>1. Spec => [][Next]_vars
    BY DEF Spec
  <2> HIDE DEF Forward
  <2> QED BY <1>1, <2>1, OAuthInvHolds, PTL
<1> QED BY <1>2 DEF FileMovesForward

-----------------------------------------------------------------------------
(* The orders of use.                                                      *)

Listed(s) == {s[i] : i \in 1..Len(s)}

\* A sequence of members of S, each of them once.
Once(s, S) == s \in Seq(S) /\ \A i, j \in 1..Len(s) : s[i] = s[j] => i = j

LEMMA OnceFacts ==
  ASSUME NEW S, NEW s, Once(s, S)
  PROVE  /\ s \in Seq(S) /\ Len(s) \in Nat /\ DOMAIN s = 1..Len(s)
         /\ \A i \in 1..Len(s) : s[i] \in S
         /\ \A i, j \in 1..Len(s) : s[i] = s[j] => i = j
         /\ Contexts!Elements(s) = Listed(s)
BY DEF Once, Contexts!Elements, Listed

\* Its length is the number of its elements.
LEMMA OnceLength ==
  ASSUME NEW S, NEW s, Once(s, S)
  PROVE  IsFiniteSet(Listed(s)) /\ Len(s) = Cardinality(Listed(s))
<1>1. /\ Len(s) \in Nat
      /\ \A i, j \in 1..Len(s) : s[i] = s[j] => i = j
  BY OnceFacts
<1> DEFINE f == [i \in 1..Len(s) |-> s[i]]
<1>2. f \in Bijection(1..Len(s), Listed(s))
  <2>1. \A i \in 1..Len(s) : f[i] = s[i] /\ f[i] \in Listed(s)
    BY DEF Listed
  <2>2. f \in [1..Len(s) -> Listed(s)]
    BY DEF Listed
  <2> HIDE DEF f
  <2>3. \A i, j \in 1..Len(s) : f[i] = f[j] => i = j
    BY <1>1, <2>1
  <2>4. \A x \in Listed(s) : \E i \in 1..Len(s) : f[i] = x
    BY <2>1 DEF Listed
  <2> QED BY <2>2, <2>3, <2>4 DEF Bijection, Injection, Surjection, IsInjective
<1>3. IsFiniteSet(1..Len(s)) /\ Cardinality(1..Len(s)) = Len(s)
  <2>1. 1 \in Int /\ Len(s) \in Int /\ (1 > Len(s) => Len(s) = 0)
    BY <1>1
  <2>2. /\ IsFiniteSet(1..Len(s))
        /\ Cardinality(1..Len(s)) = IF 1 > Len(s) THEN 0 ELSE Len(s) - 1 + 1
    BY <2>1, FS_Interval
  <2> QED BY <2>1, <2>2
<1>4. ExistsBijection(1..Len(s), Listed(s))
  BY <1>2 DEF ExistsBijection
<1> QED BY <1>3, <1>4, FS_Bijection

LEMMA SameCount ==
  ASSUME NEW S
  PROVE  Contexts!Cardinality(S) = Cardinality(S)
BY DEF Cardinality, Contexts!Cardinality

\* How many numbers there are up to i, but for one.
LEMMA Ranks ==
  ASSUME NEW i \in Nat, NEW p \in Nat \ {0}
  PROVE  /\ IsFiniteSet((1..i) \ {p})
         /\ Cardinality((1..i) \ {p}) = IF p <= i THEN i - 1 ELSE i
<1>1. IsFiniteSet(1..i) /\ Cardinality(1..i) = i
  <2>1. 1 \in Int /\ i \in Int /\ (1 > i => i = 0)
    OBVIOUS
  <2>2. IsFiniteSet(1..i) /\ Cardinality(1..i) = IF 1 > i THEN 0 ELSE i - 1 + 1
    BY <2>1, FS_Interval
  <2> QED BY <2>1, <2>2
<1>2. /\ IsFiniteSet((1..i) \ {p})
      /\ Cardinality((1..i) \ {p}) = IF p \in 1..i THEN Cardinality(1..i) - 1 ELSE Cardinality(1..i)
  BY <1>1, FS_RemoveElement
<1> QED BY <1>1, <1>2

\* What Sans returns where at most one place goes.
LEMMA SansFacts ==
  ASSUME NEW S, NEW s, Once(s, S), NEW out,
         \A x, y \in Listed(s) \cap out : x = y
  PROVE  Once(Contexts!Sans(s, out), S) /\ Listed(Contexts!Sans(s, out)) = Listed(s) \ out
<1> DEFINE places == {i \in DOMAIN s : s[i] \notin out}
           Rank(i) == Contexts!Cardinality({j \in places : j <= i})
           w == [n \in 1..Contexts!Cardinality(places) |-> s[CHOOSE i \in places : Rank(i) = n]]
<1>1. /\ s \in Seq(S) /\ Len(s) \in Nat /\ DOMAIN s = 1..Len(s)
      /\ \A i \in 1..Len(s) : s[i] \in S
      /\ \A i, j \in 1..Len(s) : s[i] = s[j] => i = j
  BY OnceFacts
<1>2. \E p \in 1..(Len(s) + 1) : places = (1..Len(s)) \ {p}
  <2>1. CASE \E i \in 1..Len(s) : s[i] \in out
    <3>1. PICK p \in 1..Len(s) : s[p] \in out
      BY <2>1
    <3>2. \A i \in 1..Len(s) : s[i] \in out => i = p
      BY <1>1, <3>1 DEF Listed
    <3> QED BY <1>1, <3>1, <3>2
  <2>2. CASE ~ \E i \in 1..Len(s) : s[i] \in out
    <3>1. places = (1..Len(s)) \ {Len(s) + 1}
      BY <1>1, <2>2
    <3> QED BY <1>1, <3>1
  <2> QED BY <2>1, <2>2
<1>3. PICK p \in 1..(Len(s) + 1) : places = (1..Len(s)) \ {p}
  BY <1>2
<1>4. Contexts!Sans(s, out) = w
  BY DEF Contexts!Sans
<1>p. \A i \in 1..Len(s) : i \in places <=> s[i] \notin out
  BY <1>1
<1> HIDE DEF places
<1> DEFINE n == IF p <= Len(s) THEN Len(s) - 1 ELSE Len(s)
<1>5. Contexts!Cardinality(places) = n /\ n \in Nat /\ p \in Nat \ {0}
  <2>1. p \in Nat \ {0} /\ n \in Nat
    BY <1>1
  <2>2. Cardinality((1..Len(s)) \ {p}) = n
    BY <1>1, <2>1, Ranks
  <2> HIDE DEF n
  <2>3. Contexts!Cardinality(places) = Cardinality(places)
    BY SameCount
  <2> QED BY <1>3, <2>1, <2>2, <2>3
<1>6. \A i \in places : Rank(i) = IF p <= i THEN i - 1 ELSE i
  <2> SUFFICES ASSUME NEW i \in places
               PROVE  Rank(i) = IF p <= i THEN i - 1 ELSE i
    OBVIOUS
  <2>1. i \in Nat /\ {j \in places : j <= i} = (1..i) \ {p}
    BY <1>1, <1>3
  <2> QED BY <1>5, <2>1, Ranks, SameCount
<1> DEFINE place(m) == IF m < p THEN m ELSE m + 1
<1>7. \A m \in 1..n : (CHOOSE i \in places : Rank(i) = m) = place(m)
  <2> SUFFICES ASSUME NEW m \in 1..n
               PROVE  (CHOOSE i \in places : Rank(i) = m) = place(m)
    OBVIOUS
  <2> HIDE DEF Rank
  <2>1. place(m) \in places
    BY <1>1, <1>3, <1>5
  <2>2. Rank(place(m)) = m
    BY <1>1, <1>3, <1>5, <1>6, <2>1
  <2>3. \A i \in places : Rank(i) = m => i = place(m)
    BY <1>1, <1>3, <1>5, <1>6
  <2> HIDE DEF place
  <2> QED BY <2>1, <2>2, <2>3
<1>8. w = [m \in 1..n |-> s[place(m)]]
  <2> HIDE DEF Rank, place, n
  <2>1. w = [m \in 1..n |-> s[CHOOSE i \in places : Rank(i) = m]]
    BY <1>5
  <2> QED BY <1>7, <2>1
<1> DEFINE v == [m \in 1..n |-> s[place(m)]]
<1>9. \A m \in 1..n : v[m] = s[place(m)] /\ place(m) \in 1..Len(s) /\ place(m) \in places
  BY <1>1, <1>3, <1>5
<1>10. v \in Seq(S) /\ Len(v) = n
  <2>1. v \in [1..n -> S]
    BY <1>1, <1>9
  <2> HIDE DEF v
  <2> QED BY <1>5, <2>1
<1> HIDE DEF v, w
<1>11. \A i, j \in 1..Len(v) : v[i] = v[j] => i = j
  <2> SUFFICES ASSUME NEW i \in 1..n, NEW j \in 1..n, v[i] = v[j]
               PROVE  i = j
    BY <1>10
  <2>1. place(i) = place(j)
    BY <1>1, <1>9
  <2> QED BY <1>5, <2>1
<1>12. Listed(v) \subseteq Listed(s) \ out
  <2> SUFFICES ASSUME NEW m \in 1..n
               PROVE  v[m] \in Listed(s) \ out
    BY <1>10 DEF Listed
  <2> QED BY <1>9, <1>p DEF Listed
<1>13. Listed(s) \ out \subseteq Listed(v)
  <2> SUFFICES ASSUME NEW i \in 1..Len(s), s[i] \notin out
               PROVE  s[i] \in Listed(v)
    BY DEF Listed
  <2>1. i \in places
    BY <1>p
  <2>2. \E m \in 1..n : place(m) = i
    <3>1. CASE i < p
      BY <1>1, <1>3, <1>5, <2>1, <3>1
    <3>2. CASE ~(i < p)
      <4>1. i - 1 \in 1..n /\ place(i - 1) = i
        BY <1>1, <1>3, <1>5, <2>1, <3>2
      <4> QED BY <4>1
    <3> QED BY <3>1, <3>2
  <2> QED BY <1>9, <1>10, <2>2 DEF Listed
<1> QED BY <1>4, <1>8, <1>10, <1>11, <1>12, <1>13 DEF Once, v

\* A member that is not there is put at the end.
LEMMA AppendFacts ==
  ASSUME NEW S, NEW s, Once(s, S), NEW x \in S, x \notin Listed(s)
  PROVE  /\ Once(Append(s, x), S) /\ Listed(Append(s, x)) = Listed(s) \cup {x}
         /\ Append(s, x) # <<>> /\ Len(Append(s, x)) = Len(s) + 1
         /\ s # <<>> => Head(Append(s, x)) = Head(s)
<1> DEFINE t == Append(s, x)
<1>1. /\ s \in Seq(S) /\ Len(s) \in Nat
      /\ \A i, j \in 1..Len(s) : s[i] = s[j] => i = j
      /\ \A i \in 1..Len(s) : s[i] # x
  BY OnceFacts DEF Listed
<1>2. /\ t \in Seq(S) /\ Len(t) = Len(s) + 1
      /\ t[Len(s) + 1] = x /\ \A i \in 1..Len(s) : t[i] = s[i]
  BY <1>1
<1>3. t # <<>> /\ (s # <<>> => Head(t) = Head(s))
  BY <1>1, <1>2
<1> HIDE DEF t
<1>4. \A i, j \in 1..Len(t) : t[i] = t[j] => i = j
  <2> SUFFICES ASSUME NEW i \in 1..Len(t), NEW j \in 1..Len(t), t[i] = t[j]
               PROVE  i = j
    OBVIOUS
  <2>1. (i \in 1..Len(s) \/ i = Len(s) + 1) /\ (j \in 1..Len(s) \/ j = Len(s) + 1)
    BY <1>1, <1>2
  <2> QED BY <1>1, <1>2, <2>1
<1>5. Listed(t) = Listed(s) \cup {x}
  <2>1. 1..Len(t) = (1..Len(s)) \cup {Len(s) + 1}
    BY <1>1, <1>2
  <2> QED BY <1>2, <2>1 DEF Listed
<1> QED BY <1>2, <1>3, <1>4, <1>5 DEF Once, t

LEMMA WithoutFacts ==
  ASSUME NEW S, NEW s, Once(s, S), NEW x
  PROVE  Once(Contexts!Without(s, x), S) /\ Listed(Contexts!Without(s, x)) = Listed(s) \ {x}
<1>1. \A y, z \in Listed(s) \cap {x} : y = z
  OBVIOUS
<1> QED BY <1>1, SansFacts DEF Contexts!Without

LEMMA LastFacts ==
  ASSUME NEW S, NEW s, Once(s, S), NEW x \in S
  PROVE  /\ Once(Contexts!Last(s, x), S) /\ Listed(Contexts!Last(s, x)) = Listed(s) \cup {x}
         /\ Contexts!Last(s, x) # <<>>
<1>1. /\ Once(Contexts!Without(s, x), S)
      /\ Listed(Contexts!Without(s, x)) = Listed(s) \ {x}
  BY WithoutFacts
<1> QED BY <1>1, AppendFacts DEF Contexts!Last

LEMMA EmptyOrNot ==
  ASSUME NEW S, NEW s, Once(s, S)
  PROVE  /\ s = <<>> <=> Listed(s) = {}
         /\ s # <<>> => Head(s) \in Listed(s)
<1>1. s \in Seq(S) /\ Len(s) \in Nat
  BY OnceFacts
<1>2. CASE s = <<>>
  <2>1. 1..Len(s) = {}
    BY <1>2
  <2> QED BY <1>2, <2>1 DEF Listed
<1>3. CASE s # <<>>
  <2>1. 1 \in 1..Len(s) /\ Head(s) = s[1]
    BY <1>1, <1>3
  <2> QED BY <1>3, <2>1 DEF Listed
<1> QED BY <1>2, <1>3

LEMMA NoElements ==
  ASSUME NEW S
  PROVE  Once(<<>>, S) /\ Listed(<<>>) = {}
<1>1. <<>> \in Seq(S) /\ Len(<<>>) = 0 /\ 1..0 = {}
  OBVIOUS
<1> QED BY <1>1 DEF Once, Listed

\* The least of the places where a sequence has one of X.
LEMMA LeastPlace ==
  ASSUME NEW n \in Nat, NEW P, P \subseteq 1..n, P # {}
  PROVE  \E i \in P : \A j \in P : i <= j
<1> DEFINE T == {1..i : i \in P}
<1>1. T \subseteq FiniteSubsetsOf(Nat) /\ T # {}
  <2> SUFFICES ASSUME NEW i \in P
               PROVE  1..i \in FiniteSubsetsOf(Nat)
    OBVIOUS
  <2>1. i \in Int /\ 1 \in Int /\ 1..i \subseteq Nat
    OBVIOUS
  <2>2. IsFiniteSet(1..i)
    BY <2>1, FS_Interval
  <2> QED BY <2>1, <2>2 DEF FiniteSubsetsOf
<1>2. IsWellFoundedOn(StrictSubsetOrdering(Nat), FiniteSubsetsOf(Nat))
  BY FS_StrictSubsetOrderingWellFounded
<1>3. PICK x \in T : \A y \in T : <<y, x>> \notin StrictSubsetOrdering(Nat)
  BY <1>1, <1>2, WFMin
<1>4. PICK i \in P : x = 1..i
  BY <1>3
<1>5. ASSUME NEW j \in P
      PROVE  i <= j
  <2> SUFFICES ASSUME j < i
               PROVE  FALSE
    BY <1>4
  <2>1. 1..j \subseteq 1..i /\ i \in 1..i /\ i \notin 1..j
    BY <1>4
  <2>2. 1..j \in SUBSET Nat /\ 1..i \in SUBSET Nat /\ 1..j # 1..i
    BY <2>1
  <2>3. <<1..j, 1..i>> \in StrictSubsetOrdering(Nat)
    BY <2>1, <2>2 DEF StrictSubsetOrdering
  <2> QED BY <1>3, <1>4, <2>3
<1> QED BY <1>4, <1>5

LEMMA FirstFacts ==
  ASSUME NEW S, NEW s, Once(s, S), NEW X, Listed(s) \cap X # {}
  PROVE  Contexts!First(s, X) \in Listed(s) \cap X
<1> DEFINE P == {i \in 1..Len(s) : s[i] \in X}
           Is(i) == s[i] \in X /\ \A j \in DOMAIN s : s[j] \in X => i <= j
<1>1. DOMAIN s = 1..Len(s) /\ Len(s) \in Nat
  BY OnceFacts
<1>2. P \subseteq 1..Len(s) /\ P # {}
  BY DEF Listed
<1>3. PICK i \in P : \A j \in P : i <= j
  <2> HIDE DEF P
  <2> QED BY <1>1, <1>2, LeastPlace
<1>4. i \in DOMAIN s /\ Is(i)
  BY <1>1, <1>3
<1> DEFINE c == CHOOSE k \in DOMAIN s : Is(k)
<1>5. c \in DOMAIN s /\ Is(c)
  <2> HIDE DEF Is
  <2> QED BY <1>4
<1>6. Contexts!First(s, X) = s[c]
  BY DEF Contexts!First
<1> HIDE DEF c
<1> QED BY <1>1, <1>5, <1>6 DEF Listed

-----------------------------------------------------------------------------
(* The invariant.                                                          *)

LEMMA Assumed ==
  /\ UserOf \in [Keys -> Users]
  /\ MaxEntries \in Nat /\ KeysPerAccount \in Nat /\ KeysPerAccount >= 1
  /\ RecheckAfter \in Nat /\ RecheckAfter >= 1
  /\ None \notin Contexts!Registries /\ None \notin Contexts!Entry
  /\ None \notin Contexts!Registry
  /\ Contexts!Registries \subseteq Nat
<1>1. {MaxEntries, KeysPerAccount, RecheckAfter, MaxRegistries} \subseteq Nat \ {0}
  BY AccountsAssumption DEF Contexts!ContextsAssumption
<1>2. /\ MaxEntries \in Nat \ {0} /\ KeysPerAccount \in Nat \ {0}
      /\ RecheckAfter \in Nat \ {0} /\ MaxRegistries \in Nat \ {0}
  BY <1>1
<1> QED BY <1>2, AccountsAssumption DEF Contexts!ContextsAssumption, Contexts!Registries

Cached(es) == es \in [Keys -> Contexts!Entry \cup {None}]
Registered(rs) == rs \in [Contexts!Registries -> Contexts!Registry \cup {None}]

\* The lists say what is cached, each key under its account, each account once.
ListsOK(ks, accs, es) ==
  /\ DOMAIN ks = Users
  /\ \A u \in Users :
       /\ Once(ks[u], Keys) /\ Len(ks[u]) <= KeysPerAccount
       /\ Listed(ks[u]) = {k \in Keys : UserOf[k] = u /\ es[k] # None}
  /\ Once(accs, Users) /\ Listed(accs) = {u \in Users : ks[u] # <<>>}

\* A retired context is of a refused key and the only one of its account; a key that is
\* served has been refused no longer than it is trusted.
EntriesOK(es, rv, sn) ==
  \A k \in Keys : es[k] # None =>
    /\ es[k].invalidated =>
         k \in rv /\ \A j \in Keys : es[j] # None /\ UserOf[j] = UserOf[k] => j = k
    /\ ~es[k].invalidated /\ k \in rv => sn[k] <= es[k].age

IsOpen(rs, r) == rs[r] # None /\ rs[r].state = "open"

\* What is cached is open, what is open is cached, and an account's indexes are open once.
ServedOK(es, rs) ==
  /\ \A k \in Keys : es[k] # None =>
       IsOpen(rs, es[k].registry) /\ rs[es[k].registry].user = UserOf[k]
  /\ \A r \in Contexts!Registries : IsOpen(rs, r) =>
       /\ \E k \in Keys : es[k] # None /\ es[k].registry = r
       /\ \A p \in Contexts!Registries : IsOpen(rs, p) /\ rs[p].user = rs[r].user => p = r

\* The registry a call has is not collected.
CallOK(a, rs) ==
  /\ a \in Contexts!Call
  /\ a.pc = "idle" => a = Contexts!Idle
  /\ a.pc # "idle" => a.key \in Keys
  /\ a.pc \in {"resolved", "searching", "evicting"} => a.registry # None
  /\ a.registry # None => rs[a.registry] # None

CallsOK(cs, rs) == DOMAIN cs = Calls /\ \A c \in Calls : CallOK(cs[c], rs)

Missing == {"queued", "building", "evicting"}

\* The misses are queued, and only the first of them is under way.
TailOK(ms, cs) ==
  /\ Once(ms, Calls) /\ Listed(ms) = {c \in Calls : cs[c].pc \in Missing}
  /\ \A c \in Calls : cs[c].pc \in {"building", "evicting"} => ms # <<>> /\ c = Head(ms)

\* What was cached since a miss was queued is fresh; a context being built has found the
\* indexes of its account, if there are any; one that evicts is cached and fresh,
\* and the account whose indexes it closes is not cached.
MissOK(cs, es, rs) ==
  \A c \in Calls :
    LET k == cs[c].key  r == cs[c].registry IN
    /\ cs[c].pc = "queued" /\ es[k] # None => es[k].age = 0
    /\ cs[c].pc = "building" =>
         /\ es[k] = None
         /\ IF r = None THEN \A j \in Keys : UserOf[j] = UserOf[k] => es[j] = None
            ELSE IsOpen(rs, r) /\ rs[r].user = UserOf[k]
    /\ cs[c].pc = "evicting" =>
         /\ es[k] # None /\ es[k].age = 0 /\ ~es[k].invalidated /\ ~es[k].checking
         /\ rs[r].state = "closing" /\ \A j \in Keys : UserOf[j] = rs[r].user => es[j] = None

IsClosing(rs, r) == rs[r] # None /\ rs[r].state = "closing"

\* What is being closed is closed by a call.
ClosingOK(cs, rs) ==
  \A r \in Contexts!Registries : IsClosing(rs, r) =>
    \E c \in Calls : cs[c].pc = "evicting" /\ cs[c].registry = r

ContextInv ==
  /\ Cached(entry) /\ Registered(registry)
  /\ revoked \subseteq Keys /\ since \in [Keys -> 0..RecheckAfter]
  /\ shut \in {"no", "flushing", "done"}
  /\ ListsOK(keys, accounts, entry)
  /\ EntriesOK(entry, revoked, since)
  /\ shut # "done" => ServedOK(entry, registry)
  /\ shut = "done" => \A r \in Contexts!Registries : ~Contexts!InUse(r)
  /\ CallsOK(call, registry) /\ TailOK(tail, call)
  /\ MissOK(call, entry, registry) /\ ClosingOK(call, registry)

-----------------------------------------------------------------------------
(* Registries that are collected, or built in.                             *)

\* From rs to rs2, what is closed and not referred to by cs may go.
Loses(rs, rs2, cs) ==
  /\ Registered(rs) /\ Registered(rs2)
  /\ \A r \in Contexts!Registries :
       \/ rs2[r] # None /\ rs[r] # None /\ rs2[r].state = rs[r].state /\ rs2[r].user = rs[r].user
       \/ rs2[r] = None /\ (rs[r] # None => rs[r].state = "closed" /\ \A c \in Calls : cs[c].registry # r)

LEMMA CollectedLoses ==
  ASSUME NEW rs, Registered(rs), NEW cs
  PROVE  Loses(rs, Contexts!Collected(rs, cs), cs)
BY DEF Loses, Registered, Contexts!Collected

LEMMA CallRegistry ==
  ASSUME NEW a, NEW rs, CallOK(a, rs)
  PROVE  /\ a.registry \in Contexts!Registries \cup {None}
         /\ a.pc \in {"resolved", "searching", "evicting"} => a.registry \in Contexts!Registries
         /\ a.pc # "idle" => a.key \in Keys
BY DEF CallOK, Contexts!Call

LEMMA LosesKeeps ==
  ASSUME NEW rs, NEW rs2, NEW cs, NEW es, Loses(rs, rs2, cs), Cached(es)
  PROVE  /\ ServedOK(es, rs) => ServedOK(es, rs2)
         /\ CallsOK(cs, rs) => CallsOK(cs, rs2)
         /\ CallsOK(cs, rs) /\ MissOK(cs, es, rs) => MissOK(cs, es, rs2)
         /\ ClosingOK(cs, rs) => ClosingOK(cs, rs2)
<1>1. \A r \in Contexts!Registries :
        /\ IsOpen(rs, r) <=> IsOpen(rs2, r)
        /\ IsOpen(rs, r) => rs2[r].user = rs[r].user
        /\ IsClosing(rs, r) <=> IsClosing(rs2, r)
        /\ rs[r] # None /\ (\E c \in Calls : cs[c].registry = r) =>
             rs2[r] # None /\ rs2[r].state = rs[r].state /\ rs2[r].user = rs[r].user
  BY DEF Loses, IsOpen, IsClosing
<1>2. \A k \in Keys : es[k] # None => es[k].registry \in Contexts!Registries
  BY DEF Cached, Contexts!Entry
<1>3. ServedOK(es, rs) => ServedOK(es, rs2)
  BY <1>1, <1>2 DEF ServedOK
<1>4. ASSUME CallsOK(cs, rs)
      PROVE  /\ CallsOK(cs, rs2)
             /\ MissOK(cs, es, rs) => MissOK(cs, es, rs2)
  <2>1. \A c \in Calls : CallOK(cs[c], rs) /\ cs[c].registry \in Contexts!Registries \cup {None}
    BY <1>4, CallRegistry DEF CallsOK
  <2>2. \A c \in Calls : CallOK(cs[c], rs2)
    <3> SUFFICES ASSUME NEW c \in Calls
                 PROVE  CallOK(cs[c], rs2)
      OBVIOUS
    <3>1. CallOK(cs[c], rs) /\ cs[c].registry \in Contexts!Registries \cup {None}
      BY <2>1
    <3> QED BY <1>1, <3>1 DEF CallOK
  <2>3. CallsOK(cs, rs2)
    BY <1>4, <2>2 DEF CallsOK
  <2>4. ASSUME MissOK(cs, es, rs)
        PROVE  MissOK(cs, es, rs2)
    <3> SUFFICES ASSUME NEW c \in Calls
                 PROVE  LET k == cs[c].key  r == cs[c].registry IN
                        /\ cs[c].pc = "building" /\ r # None =>
                             IsOpen(rs2, r) /\ rs2[r].user = UserOf[k]
                        /\ cs[c].pc = "evicting" =>
                             /\ rs2[r].state = "closing"
                             /\ \A j \in Keys : UserOf[j] = rs2[r].user => es[j] = None
      BY <2>4 DEF MissOK
    <3>1. CallOK(cs[c], rs) /\ cs[c].registry \in Contexts!Registries \cup {None}
      BY <2>1
    <3>2. CASE cs[c].pc = "building" /\ cs[c].registry # None
      BY <1>1, <2>4, <3>1, <3>2 DEF MissOK
    <3>3. CASE cs[c].pc = "evicting"
      <4>1. cs[c].registry \in Contexts!Registries /\ rs[cs[c].registry] # None
        BY <3>1, <3>3, CallRegistry DEF CallOK
      <4> QED BY <1>1, <2>4, <3>3, <4>1 DEF MissOK
    <3> QED BY <3>2, <3>3
  <2> QED BY <2>3, <2>4
<1>5. ClosingOK(cs, rs) => ClosingOK(cs, rs2)
  BY <1>1 DEF ClosingOK
<1> QED BY <1>3, <1>4, <1>5

-----------------------------------------------------------------------------
(* What a context that was added settles.                                  *)

\* A call of the cache gets another place outside the queue of misses.
LEMMA AsideKeeps ==
  ASSUME NEW cs, NEW cs2, NEW es, NEW rs, NEW ms,
         CallsOK(cs, rs), TailOK(ms, cs), MissOK(cs, es, rs), ClosingOK(cs, rs),
         DOMAIN cs2 = Calls,
         \A d \in Calls : \/ cs2[d] = cs[d]
                          \/ cs[d].pc \notin Missing /\ cs2[d].pc \notin Missing /\ CallOK(cs2[d], rs)
  PROVE  CallsOK(cs2, rs) /\ TailOK(ms, cs2) /\ MissOK(cs2, es, rs) /\ ClosingOK(cs2, rs)
<1>1. \A d \in Calls : CallOK(cs[d], rs)
  BY DEF CallsOK
<1>2. CallsOK(cs2, rs)
  BY <1>1 DEF CallsOK
<1>3. \A d \in Calls : cs[d].pc \in Missing \/ cs2[d].pc \in Missing => cs2[d] = cs[d]
  OBVIOUS
<1>4. TailOK(ms, cs2)
  BY <1>3 DEF TailOK, Missing
<1>5. MissOK(cs2, es, rs)
  BY <1>3 DEF MissOK, Missing
<1>6. ClosingOK(cs2, rs)
  BY <1>3 DEF ClosingOK, Missing
<1> QED BY <1>2, <1>4, <1>5, <1>6

LEMMA WaitingAside ==
  ASSUME NEW gone, CallsOK(call, registry), NEW rs, NEW d \in Calls, CallOK(call[d], rs)
  PROVE  LET w == Contexts!Waiting(gone) IN
         /\ DOMAIN w = Calls /\ CallOK(w[d], rs)
         /\ w[d] # call[d] => call[d].pc = "checking" /\ w[d].pc = "retired"
<1>1. call[d] \in Contexts!Call /\ CallOK(call[d], rs)
  BY DEF CallsOK, CallOK
<1> DEFINE w == Contexts!Waiting(gone)
           x == [call[d] EXCEPT !.pc = "retired"]
<1>2. DOMAIN w = Calls /\ (w[d] = call[d] \/ (call[d].pc = "checking" /\ w[d] = x))
  BY DEF Contexts!Waiting
<1>3. x \in Contexts!Call /\ x.pc = "retired" /\ x.key = call[d].key /\ x.registry = call[d].registry
  BY <1>1 DEF Contexts!Call
<1>4. call[d].pc = "checking" => CallOK(x, rs)
  <2> HIDE DEF x
  <2> QED BY <1>1, <1>3 DEF CallOK
<1> HIDE DEF w, x
<1> QED BY <1>1, <1>2, <1>3, <1>4 DEF w

\* The context a call gets.
LEMMA GivenFacts ==
  ASSUME NEW k \in Keys, NEW e \in Contexts!Entry, NEW rs, rs[e.registry] # None
  PROVE  /\ CallOK(Contexts!Given(k, e), rs) /\ Contexts!Given(k, e).pc \in {"idle", "resolved"}
         /\ Contexts!Given(k, e).pc = "resolved" => ~e.invalidated
<1>1. e.registry \in Contexts!Registries
  BY DEF Contexts!Entry
<1>2. CallOK(Contexts!Idle, rs)
  BY DEF CallOK, Contexts!Idle, Contexts!Call
<1> DEFINE x == [pc |-> "resolved", key |-> k, registry |-> e.registry]
<1>3. CallOK(x, rs)
  <2>1. /\ x.pc = "resolved" /\ x.key = k /\ x.registry = e.registry /\ x \in Contexts!Call
    BY <1>1 DEF Contexts!Call
  <2> HIDE DEF x
  <2> QED BY <1>1, <2>1, Assumed DEF CallOK
<1>4. Contexts!Given(k, e) = IF e.invalidated THEN Contexts!Idle ELSE x
  BY DEF Contexts!Given
<1>5. x.pc = "resolved" /\ Contexts!Idle.pc = "idle"
  BY DEF Contexts!Idle
<1> HIDE DEF x
<1> QED BY <1>2, <1>3, <1>4, <1>5

\* The others that wait, when the first of them is settled.
LEMMA OthersWait ==
  ASSUME TailOK(tail, call), NEW c \in Calls, call[c].pc \in {"building", "evicting"}
  PROVE  /\ tail # <<>> /\ c = Head(tail) /\ c \in Listed(tail)
         /\ \A d \in Calls : d # c => call[d].pc \notin {"building", "evicting"}
<1>1. tail # <<>> /\ c = Head(tail)
  BY DEF TailOK
<1>2. c \in Listed(tail)
  BY <1>1, EmptyOrNot DEF TailOK
<1> QED BY <1>1, <1>2 DEF TailOK

\* What Settle starts from: c has added its context and dropped the keys gone.
Added(c, gone, es, rs, ks, accs) ==
  /\ call[c].pc \in {"building", "evicting"}
  /\ Cached(es) /\ Registered(rs)
  /\ LET left == Contexts!Dropped(es, gone) IN
     ListsOK(ks, accs, left) /\ EntriesOK(left, revoked, since) /\ ServedOK(left, rs)
  /\ \A r \in Contexts!Registries : ~IsClosing(rs, r)
  /\ \A d \in Calls : d # c => CallOK(call[d], rs)
  /\ \A d \in Calls : call[d].pc = "queued" /\ es[call[d].key] # None => es[call[d].key].age = 0
  /\ LET k == call[c].key IN
     k \in Keys \ gone /\ es[k] # None /\ es[k].age = 0 /\ ~es[k].invalidated /\ ~es[k].checking

\* c has its context.
LEMMA SettledKeeps ==
  ASSUME ContextInv, shut # "done", NEW c \in Calls, NEW gone, NEW es, NEW rs, NEW ks, NEW accs,
         Added(c, gone, es, rs, ks, accs),
         keys' = ks, accounts' = accs, entry' = Contexts!Dropped(es, gone),
         call' = [Contexts!Waiting(gone) EXCEPT ![c] = Contexts!Given(call[c].key, es[call[c].key])],
         tail' = Contexts!Settled(c), registry' = Contexts!Collected(rs, call'),
         UNCHANGED <<revoked, since, shut>>
  PROVE  ContextInv'
<1> DEFINE left == Contexts!Dropped(es, gone)
           k == call[c].key
           g == Contexts!Given(k, es[k])
           w == Contexts!Waiting(gone)
<1>1. /\ call[c].pc \in {"building", "evicting"}
      /\ Cached(es) /\ Registered(rs)
      /\ ListsOK(ks, accs, left) /\ EntriesOK(left, revoked, since) /\ ServedOK(left, rs)
      /\ \A r \in Contexts!Registries : ~IsClosing(rs, r)
      /\ \A d \in Calls : d # c => CallOK(call[d], rs)
      /\ \A d \in Calls : call[d].pc = "queued" /\ es[call[d].key] # None => es[call[d].key].age = 0
      /\ k \in Keys \ gone /\ es[k] # None /\ es[k].age = 0 /\ ~es[k].invalidated
  BY DEF Added
<1>2. CallsOK(call, registry) /\ TailOK(tail, call)
  BY DEF ContextInv
<1>3. Cached(left) /\ \A j \in Keys : left[j] # None => left[j] = es[j]
  BY <1>1 DEF Cached, Contexts!Dropped
<1>4. left[k] = es[k] /\ es[k] \in Contexts!Entry
  BY <1>1 DEF Cached, Contexts!Dropped
<1> HIDE DEF left
<1>5. rs[es[k].registry] # None
  BY <1>1, <1>4 DEF ServedOK, IsOpen
<1>6. CallOK(g, rs) /\ g.pc = "resolved"
  <2>1. CallOK(g, rs)
    BY <1>1, <1>4, <1>5, GivenFacts
  <2>2. g.pc = "resolved"
    BY <1>1 DEF Contexts!Given
  <2> QED BY <2>1, <2>2
<1> HIDE DEF g
<1>7. \A d \in Calls : d # c =>
        /\ CallOK(call'[d], rs) /\ call'[d] = w[d]
        /\ w[d] # call[d] => call[d].pc = "checking" /\ w[d].pc = "retired"
  <2> SUFFICES ASSUME NEW d \in Calls, d # c
               PROVE  /\ CallOK(call'[d], rs) /\ call'[d] = w[d]
                      /\ w[d] # call[d] => call[d].pc = "checking" /\ w[d].pc = "retired"
    OBVIOUS
  <2>1. /\ CallOK(w[d], rs) /\ DOMAIN w = Calls
        /\ w[d] # call[d] => call[d].pc = "checking" /\ w[d].pc = "retired"
    BY <1>1, <1>2, WaitingAside
  <2> HIDE DEF w
  <2> QED BY <2>1 DEF w
<1>8. DOMAIN call' = Calls /\ call'[c] = g
  BY DEF g, Contexts!Waiting
<1> HIDE DEF w
<1>9. CallsOK(call', rs)
  BY <1>6, <1>7, <1>8 DEF CallsOK
<1>10. /\ tail # <<>> /\ c = Head(tail) /\ c \in Listed(tail)
       /\ \A d \in Calls : d # c => call[d].pc \notin {"building", "evicting"}
  BY <1>1, <1>2, OthersWait
<1>11. \A d \in Calls : /\ d # c => (call'[d].pc \in Missing <=> call[d].pc \in Missing)
                        /\ call'[d].pc \in Missing => d # c /\ call'[d] = call[d] /\ call[d].pc = "queued"
  BY <1>6, <1>7, <1>8, <1>10 DEF Missing
<1>12. TailOK(tail', call')
  <2>1. Once(tail, Calls) /\ Listed(tail) = {d \in Calls : call[d].pc \in Missing}
    BY <1>2 DEF TailOK
  <2>2. Once(tail', Calls) /\ Listed(tail') = Listed(tail) \ {c}
    BY <2>1, WithoutFacts DEF Contexts!Settled
  <2>3. Listed(tail') = {d \in Calls : call'[d].pc \in Missing}
    BY <2>1, <2>2, <1>11
  <2>4. \A d \in Calls : call'[d].pc \notin {"building", "evicting"}
    BY <1>11 DEF Missing
  <2> QED BY <2>2, <2>3, <2>4 DEF TailOK
<1>13. MissOK(call', left, rs)
  <2>1. ASSUME NEW d \in Calls, call'[d].pc \in Missing
        PROVE  call'[d].pc = "queued" /\ (left[call'[d].key] # None => left[call'[d].key].age = 0)
    <3>1. d # c /\ call'[d] = call[d] /\ call[d].pc = "queued"
      BY <1>11, <2>1
    <3>2. call'[d].key \in Keys
      BY <1>2, <3>1, CallRegistry DEF CallsOK
    <3>3. QED BY <1>1, <1>3, <3>1, <3>2
  <2>2. \A d \in Calls : call'[d].pc \notin {"building", "evicting"}
    BY <2>1 DEF Missing
  <2>3. \A d \in Calls : call'[d].pc = "queued" /\ left[call'[d].key] # None => left[call'[d].key].age = 0
    BY <2>1 DEF Missing
  <2> QED BY <2>2, <2>3 DEF MissOK
<1>14. ClosingOK(call', rs)
  BY <1>1 DEF ClosingOK
<1>15. Loses(rs, registry', call')
  BY <1>1, CollectedLoses
<1>16. /\ ServedOK(left, registry') /\ CallsOK(call', registry')
       /\ MissOK(call', left, registry') /\ ClosingOK(call', registry')
  BY <1>1, <1>3, <1>9, <1>13, <1>14, <1>15, LosesKeeps
<1>17. Registered(registry')
  BY <1>15 DEF Loses
<1>18. entry' = left
  BY DEF left
<1> QED BY <1>1, <1>3, <1>12, <1>16, <1>17, <1>18 DEF ContextInv

\* Another account, v, is released: its keys are dropped and its indexes are being closed.
Releases(c, gone, es, rs, ks, accs, v) ==
  LET r == es[Head(ks[v])].registry
      all == gone \cup Contexts!Elements(ks[v])
  IN  /\ v \in Listed(accs) /\ v # UserOf[call[c].key] /\ ~rs[r].building /\ ~Contexts!Leased(r)
      /\ keys' = [ks EXCEPT ![v] = <<>>] /\ accounts' = Contexts!Without(accs, v)
      /\ entry' = Contexts!Dropped(es, all)
      /\ call' = [Contexts!Waiting(all) EXCEPT ![c].pc = "evicting", ![c].registry = r]
      /\ registry' = Contexts!Collected([rs EXCEPT ![r].state = "closing"], call')

\* What is released, and what is left.
ReleaseLeaves(c, gone, es, rs, ks, v) ==
  LET left == Contexts!Dropped(es, gone)
      r == es[Head(ks[v])].registry
      rs1 == [rs EXCEPT ![r].state = "closing"]
  IN  /\ v \in Users /\ r \in Contexts!Registries
      /\ IsOpen(rs, r) /\ rs[r].user = v
      /\ Cached(left) /\ \A j \in Keys : left[j] # None => left[j] = es[j]
      /\ left[call[c].key] = es[call[c].key]
      /\ Cached(entry') /\ \A j \in Keys : entry'[j] = IF UserOf[j] = v THEN None ELSE left[j]
      /\ Registered(rs1) /\ rs1[r] # None /\ rs1[r].state = "closing" /\ rs1[r].user = v
      /\ \A q \in Contexts!Registries : q # r => rs1[q] = rs[q]
      /\ Loses(rs1, registry', call')

LEMMA ReleaseFacts ==
  ASSUME NEW c \in Calls, NEW gone, NEW es, NEW rs, NEW ks, NEW accs, NEW v,
         Added(c, gone, es, rs, ks, accs), Releases(c, gone, es, rs, ks, accs, v)
  PROVE  ReleaseLeaves(c, gone, es, rs, ks, v)
<1> DEFINE left == Contexts!Dropped(es, gone)
           h == Head(ks[v])
           r == es[h].registry
           rs1 == [rs EXCEPT ![r].state = "closing"]
<1>1. /\ Cached(es) /\ Registered(rs) /\ ListsOK(ks, accs, left) /\ ServedOK(left, rs)
      /\ call[c].key \in Keys \ gone
  BY DEF Added
<1>2. Cached(left) /\ \A j \in Keys : left[j] # None => left[j] = es[j]
  BY <1>1 DEF Cached, Contexts!Dropped
<1>3. left[call[c].key] = es[call[c].key]
  BY <1>1 DEF Cached, Contexts!Dropped
<1>4. v \in Listed(accs)
  BY DEF Releases
<1>5. v \in Users /\ ks[v] # <<>> /\ Once(ks[v], Keys)
      /\ Listed(ks[v]) = {j \in Keys : UserOf[j] = v /\ left[j] # None}
  BY <1>1, <1>4 DEF ListsOK
<1>6. h \in Keys /\ UserOf[h] = v /\ left[h] # None
  BY <1>5, EmptyOrNot
<1> HIDE DEF h
<1>7. left[h] = es[h] /\ es[h] \in Contexts!Entry
  BY <1>1, <1>2, <1>6 DEF Cached
<1>8. r \in Contexts!Registries /\ IsOpen(rs, r) /\ rs[r].user = v
  BY <1>1, <1>6, <1>7 DEF ServedOK, Contexts!Entry
<1> HIDE DEF r
<1>9. Contexts!Elements(ks[v]) = {j \in Keys : UserOf[j] = v /\ left[j] # None}
  BY <1>5, OnceFacts
<1>10. Cached(entry') /\ \A j \in Keys : entry'[j] = IF UserOf[j] = v THEN None ELSE left[j]
  <2>1. entry' = Contexts!Dropped(es, gone \cup Contexts!Elements(ks[v]))
    BY DEF Releases
  <2>2. \A j \in Keys : entry'[j] = IF UserOf[j] = v THEN None ELSE left[j]
    BY <1>9, <2>1 DEF Contexts!Dropped
  <2>3. Cached(entry')
    BY <1>1, <2>1 DEF Cached, Contexts!Dropped
  <2> QED BY <2>2, <2>3
<1>11. /\ Registered(rs1) /\ rs1[r] # None /\ rs1[r].state = "closing" /\ rs1[r].user = v
       /\ \A q \in Contexts!Registries : q # r => rs1[q] = rs[q]
  <2>1. rs[r] \in Contexts!Registry
    BY <1>1, <1>8 DEF Registered, IsOpen
  <2>2. [rs[r] EXCEPT !.state = "closing"] \in Contexts!Registry
    BY <2>1 DEF Contexts!Registry
  <2>3. /\ [rs[r] EXCEPT !.state = "closing"].state = "closing"
        /\ [rs[r] EXCEPT !.state = "closing"].user = rs[r].user
    BY <2>1 DEF Contexts!Registry
  <2> QED BY <1>1, <1>8, <2>2, <2>3, Assumed DEF Registered
<1>12. registry' = Contexts!Collected(rs1, call')
  BY DEF Releases, r, h
<1> HIDE DEF rs1
<1>13. Loses(rs1, registry', call')
  BY <1>11, <1>12, CollectedLoses
<1> HIDE DEF left
<1> QED BY <1>2, <1>3, <1>5, <1>8, <1>10, <1>11, <1>13 DEF r, rs1, left, h, ReleaseLeaves

LEMMA ReleaseLists ==
  ASSUME NEW c \in Calls, NEW gone, NEW es, NEW rs, NEW ks, NEW accs, NEW v,
         Added(c, gone, es, rs, ks, accs), Releases(c, gone, es, rs, ks, accs, v)
  PROVE  /\ ListsOK(keys', accounts', entry') /\ EntriesOK(entry', revoked, since)
<1> DEFINE left == Contexts!Dropped(es, gone)
<1>1. ListsOK(ks, accs, left) /\ EntriesOK(left, revoked, since)
  BY DEF Added
<1>2. v \in Users /\ \A j \in Keys : entry'[j] = IF UserOf[j] = v THEN None ELSE left[j]
  <2>1. ReleaseLeaves(c, gone, es, rs, ks, v)
    BY ReleaseFacts
  <2> QED BY <2>1 DEF ReleaseLeaves
<1> HIDE DEF left
<1>3. keys' = [ks EXCEPT ![v] = <<>>] /\ accounts' = Contexts!Without(accs, v)
  BY DEF Releases
<1>4. EntriesOK(entry', revoked, since)
  BY <1>1, <1>2 DEF EntriesOK
<1>5. DOMAIN keys' = Users /\ keys'[v] = <<>> /\ \A u \in Users : u # v => keys'[u] = ks[u]
  BY <1>1, <1>2, <1>3 DEF ListsOK
<1>6. ASSUME NEW u \in Users
      PROVE  /\ Once(keys'[u], Keys) /\ Len(keys'[u]) <= KeysPerAccount
             /\ Listed(keys'[u]) = {j \in Keys : UserOf[j] = u /\ entry'[j] # None}
  <2>1. CASE u = v
    <3>1. Once(<<>>, Keys) /\ Listed(<<>>) = {} /\ Len(<<>>) = 0
      BY NoElements
    <3> QED BY <1>2, <1>5, <2>1, <3>1, Assumed
  <2>2. CASE u # v
    BY <1>1, <1>2, <1>5, <2>2 DEF ListsOK
  <2> QED BY <2>1, <2>2
<1>7. Once(accounts', Users) /\ Listed(accounts') = Listed(accs) \ {v}
  BY <1>1, <1>3, WithoutFacts DEF ListsOK
<1>8. Listed(accounts') = {u \in Users : keys'[u] # <<>>}
  BY <1>1, <1>2, <1>5, <1>7 DEF ListsOK
<1> QED BY <1>4, <1>5, <1>6, <1>7, <1>8 DEF ListsOK

LEMMA ReleaseServed ==
  ASSUME NEW c \in Calls, NEW gone, NEW es, NEW rs, NEW ks, NEW accs, NEW v,
         Added(c, gone, es, rs, ks, accs), Releases(c, gone, es, rs, ks, accs, v)
  PROVE  ServedOK(entry', [rs EXCEPT ![es[Head(ks[v])].registry].state = "closing"])
<1> DEFINE left == Contexts!Dropped(es, gone)
           r == es[Head(ks[v])].registry
           rs1 == [rs EXCEPT ![r].state = "closing"]
<1>1. ServedOK(left, rs)
  BY DEF Added
<1>2. /\ r \in Contexts!Registries /\ IsOpen(rs, r) /\ rs[r].user = v
      /\ Cached(left)
      /\ \A j \in Keys : entry'[j] = IF UserOf[j] = v THEN None ELSE left[j]
      /\ rs1[r] # None /\ rs1[r].state = "closing"
      /\ \A q \in Contexts!Registries : q # r => rs1[q] = rs[q]
  <2>1. ReleaseLeaves(c, gone, es, rs, ks, v)
    BY ReleaseFacts
  <2> QED BY <2>1 DEF ReleaseLeaves
<1> HIDE DEF left, rs1, r
<1>3. \A j \in Keys : left[j] # None => left[j].registry \in Contexts!Registries
  BY <1>2 DEF Cached, Contexts!Entry
<1>4. ASSUME NEW j \in Keys, entry'[j] # None
      PROVE  IsOpen(rs1, entry'[j].registry) /\ rs1[entry'[j].registry].user = UserOf[j]
  <2>1. UserOf[j] # v /\ entry'[j] = left[j] /\ left[j] # None
    BY <1>2, <1>4
  <2>2. IsOpen(rs, left[j].registry) /\ rs[left[j].registry].user = UserOf[j]
    BY <1>1, <2>1 DEF ServedOK
  <2>3. left[j].registry # r
    BY <1>2, <2>1, <2>2
  <2> QED BY <1>2, <1>3, <2>1, <2>2, <2>3 DEF IsOpen
<1>5. ASSUME NEW q \in Contexts!Registries, IsOpen(rs1, q)
      PROVE  /\ \E j \in Keys : entry'[j] # None /\ entry'[j].registry = q
             /\ \A p \in Contexts!Registries : IsOpen(rs1, p) /\ rs1[p].user = rs1[q].user => p = q
  <2>1. \A p \in Contexts!Registries : IsOpen(rs1, p) => p # r /\ rs1[p] = rs[p] /\ IsOpen(rs, p)
    BY <1>2 DEF IsOpen
  <2>2. PICK j \in Keys : left[j] # None /\ left[j].registry = q
    BY <1>1, <1>5, <2>1 DEF ServedOK
  <2>3. UserOf[j] # v
    BY <1>1, <1>2, <1>5, <2>1, <2>2 DEF ServedOK
  <2>4. entry'[j] # None /\ entry'[j].registry = q
    BY <1>2, <2>2, <2>3
  <2> QED BY <1>1, <1>5, <2>1, <2>4 DEF ServedOK
<1>6. ServedOK(entry', rs1)
  BY <1>4, <1>5 DEF ServedOK
<1> QED BY <1>6 DEF rs1, r

\* c goes on to close the indexes of the account it has released.
LEMMA ReleaseKeeps ==
  ASSUME ContextInv, shut # "done", NEW c \in Calls, NEW gone, NEW es, NEW rs, NEW ks, NEW accs,
         NEW v, Added(c, gone, es, rs, ks, accs), Releases(c, gone, es, rs, ks, accs, v),
         UNCHANGED <<tail, revoked, since, shut>>
  PROVE  ContextInv'
<1> DEFINE left == Contexts!Dropped(es, gone)
           all == gone \cup Contexts!Elements(ks[v])
           r == es[Head(ks[v])].registry
           rs1 == [rs EXCEPT ![r].state = "closing"]
           k == call[c].key
           w == Contexts!Waiting(all)
           x == [w[c] EXCEPT !.pc = "evicting", !.registry = r]
<1>1. /\ call[c].pc \in {"building", "evicting"}
      /\ \A d \in Calls : d # c => CallOK(call[d], rs)
      /\ \A d \in Calls : call[d].pc = "queued" /\ es[call[d].key] # None => es[call[d].key].age = 0
      /\ k \in Keys /\ es[k] # None /\ es[k].age = 0 /\ ~es[k].invalidated /\ ~es[k].checking
      /\ \A q \in Contexts!Registries : ~IsClosing(rs, q)
  BY DEF Added
<1>2. CallsOK(call, registry) /\ TailOK(tail, call) /\ call[c] \in Contexts!Call
  BY DEF ContextInv, CallsOK, CallOK
<1>3. ReleaseLeaves(c, gone, es, rs, ks, v)
  BY ReleaseFacts
<1>4. /\ v \in Users /\ r \in Contexts!Registries /\ IsOpen(rs, r)
      /\ \A j \in Keys : left[j] # None => left[j] = es[j]
      /\ left[k] = es[k]
      /\ Cached(entry') /\ \A j \in Keys : entry'[j] = IF UserOf[j] = v THEN None ELSE left[j]
      /\ Registered(rs1) /\ rs1[r] # None /\ rs1[r].state = "closing" /\ rs1[r].user = v
      /\ \A q \in Contexts!Registries : q # r => rs1[q] = rs[q]
      /\ Loses(rs1, registry', call')
  BY <1>3 DEF ReleaseLeaves
<1>5. v # UserOf[k] /\ call' = [w EXCEPT ![c].pc = "evicting", ![c].registry = r]
  BY DEF Releases
<1>6. ListsOK(keys', accounts', entry') /\ EntriesOK(entry', revoked, since) /\ ServedOK(entry', rs1)
  BY ReleaseLists, ReleaseServed
<1> HIDE DEF left, rs1, r
<1>7. DOMAIN w = Calls /\ w[c] = call[c]
  BY <1>1 DEF Contexts!Waiting
<1>8. DOMAIN call' = Calls /\ call'[c] = x /\ \A d \in Calls : d # c => call'[d] = w[d]
  BY <1>5, <1>7
<1>9. \A d \in Calls : d # c =>
        /\ CallOK(w[d], rs)
        /\ w[d] # call[d] => call[d].pc = "checking" /\ w[d].pc = "retired"
  BY <1>1, <1>2, WaitingAside
<1>10. x \in Contexts!Call /\ x.pc = "evicting" /\ x.key = k /\ x.registry = r
  <2> HIDE DEF w
  <2> QED BY <1>2, <1>4, <1>7 DEF Contexts!Call
<1> HIDE DEF w, x
<1>11. CallOK(x, rs1)
  BY <1>1, <1>4, <1>10, Assumed DEF CallOK
<1>12. \A d \in Calls : CallOK(call'[d], rs1)
  <2> SUFFICES ASSUME NEW d \in Calls, d # c
               PROVE  CallOK(call'[d], rs1)
    BY <1>8, <1>11
  <2>1. CallOK(w[d], rs) /\ w[d].registry \in Contexts!Registries \cup {None}
    BY <1>9, CallRegistry
  <2>2. w[d].registry # None => rs1[w[d].registry] # None
    BY <1>4, <2>1 DEF CallOK
  <2> QED BY <1>8, <2>1, <2>2 DEF CallOK
<1>13. CallsOK(call', rs1)
  BY <1>8, <1>12 DEF CallsOK
<1>14. /\ tail # <<>> /\ c = Head(tail) /\ c \in Listed(tail)
       /\ \A d \in Calls : d # c => call[d].pc \notin {"building", "evicting"}
  BY <1>1, <1>2, OthersWait
<1>15. \A d \in Calls : /\ call'[d].pc \in Missing <=> call[d].pc \in Missing
                        /\ d # c /\ call'[d].pc \in Missing => call'[d] = call[d] /\ call[d].pc = "queued"
  BY <1>1, <1>8, <1>9, <1>10, <1>14 DEF Missing
<1>16. TailOK(tail, call')
  BY <1>2, <1>14, <1>15 DEF TailOK, Missing
<1>17. MissOK(call', entry', rs1)
  <2>4. \A j \in Keys : UserOf[j] = rs1[r].user => entry'[j] = None
    BY <1>4
  <2>1. entry'[k] = es[k]
    BY <1>1, <1>4, <1>5
  <2>2. \A j \in Keys : entry'[j] # None => entry'[j] = es[j]
    BY <1>4
  <2>3. \A d \in Calls : CallOK(call'[d], rs1)
    BY <1>12
  <2> QED BY <1>1, <1>4, <1>8, <1>10, <1>15, <2>1, <2>2, <2>3, <2>4, CallRegistry
         DEF MissOK, Missing
<1>18. ClosingOK(call', rs1)
  BY <1>1, <1>4, <1>8, <1>10 DEF ClosingOK, IsClosing
<1>19. /\ ServedOK(entry', registry') /\ CallsOK(call', registry')
       /\ MissOK(call', entry', registry') /\ ClosingOK(call', registry')
  BY <1>4, <1>6, <1>13, <1>17, <1>18, LosesKeeps
<1>20. Registered(registry')
  BY <1>4 DEF Loses
<1> QED BY <1>4, <1>6, <1>16, <1>19, <1>20 DEF ContextInv

LEMMA SettleCases ==
  ASSUME NEW c \in Calls, NEW gone, NEW es, NEW rs, NEW ks, NEW accs,
         Added(c, gone, es, rs, ks, accs), Contexts!Settle(c, gone, es, rs, ks, accs)
  PROVE  \/ /\ keys' = ks /\ accounts' = accs /\ entry' = Contexts!Dropped(es, gone)
            /\ call' = [Contexts!Waiting(gone) EXCEPT ![c] =
                          Contexts!Given(call[c].key, es[call[c].key])]
            /\ tail' = Contexts!Settled(c) /\ registry' = Contexts!Collected(rs, call')
         \/ /\ tail' = tail
            /\ \E v \in Users : Releases(c, gone, es, rs, ks, accs, v)
<1> DEFINE k == call[c].key
           free == {u \in Contexts!Elements(accs) : Contexts!Evictable(u, UserOf[k], es, rs, ks)}
           v == Contexts!First(accs, free)
           left == Contexts!Dropped(es, gone)
<1>1. ListsOK(ks, accs, left)
  BY DEF Added
<1>2. Once(accs, Users) /\ Contexts!Elements(accs) = Listed(accs) /\ Listed(accs) \subseteq Users
  <2>1. Once(accs, Users)
    BY <1>1 DEF ListsOK
  <2> QED BY <1>1, <2>1, OnceFacts DEF ListsOK
<1>3. CASE free = {}
  BY <1>3 DEF Contexts!Settle
<1>4. CASE free # {}
  <2>1. v \in Listed(accs) \cap free
    <3>1. Listed(accs) \cap free # {}
      BY <1>2, <1>4
    <3> HIDE DEF free
    <3> QED BY <1>2, <3>1, FirstFacts
  <2>2. Contexts!Evictable(v, UserOf[k], es, rs, ks) /\ v \in Listed(accs) /\ v \in Users
    BY <1>2, <2>1
  <2>3. \/ /\ keys' = ks /\ accounts' = accs /\ entry' = Contexts!Dropped(es, gone)
           /\ call' = [Contexts!Waiting(gone) EXCEPT ![c] =
                          Contexts!Given(call[c].key, es[call[c].key])]
           /\ tail' = Contexts!Settled(c) /\ registry' = Contexts!Collected(rs, call')
        \/ /\ keys' = [ks EXCEPT ![v] = <<>>]
           /\ accounts' = Contexts!Without(accs, v)
           /\ LET r == es[Head(ks[v])].registry
                  all == gone \cup Contexts!Elements(ks[v])
              IN  /\ entry' = Contexts!Dropped(es, all)
                  /\ call' = [Contexts!Waiting(all) EXCEPT ![c].pc = "evicting", ![c].registry = r]
                  /\ registry' = Contexts!Collected([rs EXCEPT ![r].state = "closing"], call')
           /\ tail' = tail
    BY DEF Contexts!Settle
  <2> HIDE DEF v, free
  <2> QED BY <2>2, <2>3 DEF Releases, Contexts!Evictable
<1> QED BY <1>3, <1>4

LEMMA SettleKeeps ==
  ASSUME ContextInv, shut # "done", NEW c \in Calls, NEW gone, NEW es, NEW rs, NEW ks, NEW accs,
         Added(c, gone, es, rs, ks, accs), Contexts!Settle(c, gone, es, rs, ks, accs),
         UNCHANGED <<revoked, since, shut>>
  PROVE  ContextInv'
<1>1. CASE /\ keys' = ks /\ accounts' = accs /\ entry' = Contexts!Dropped(es, gone)
           /\ call' = [Contexts!Waiting(gone) EXCEPT ![c] =
                         Contexts!Given(call[c].key, es[call[c].key])]
           /\ tail' = Contexts!Settled(c) /\ registry' = Contexts!Collected(rs, call')
  BY <1>1, SettledKeeps
<1>2. CASE /\ tail' = tail
           /\ \E v \in Users : Releases(c, gone, es, rs, ks, accs, v)
  BY <1>2, ReleaseKeeps
<1> QED BY <1>1, <1>2, SettleCases

\* What c settles: nothing open has been touched yet.
Settles(c) ==
  \E gone, es, rs, ks, accs :
    /\ Added(c, gone, es, rs, ks, accs) /\ Contexts!Settle(c, gone, es, rs, ks, accs)
    /\ \A q \in Contexts!Registries : IsOpen(registry, q) => rs[q] = registry[q]

-----------------------------------------------------------------------------
(* The end of a release, and of a build.                                   *)

LEMMA ReleasedSettles ==
  ASSUME ContextInv, shut # "done", NEW c \in Calls, Contexts!Released(c)
  PROVE  Settles(c) /\ UNCHANGED <<revoked, since, shut>>
<1> DEFINE k == call[c].key
           r == call[c].registry
           rs == [registry EXCEPT ![r].state = "closed"]
<1>1. /\ Cached(entry) /\ Registered(registry) /\ ListsOK(keys, accounts, entry)
      /\ EntriesOK(entry, revoked, since) /\ ServedOK(entry, registry)
      /\ CallsOK(call, registry) /\ TailOK(tail, call)
      /\ MissOK(call, entry, registry) /\ ClosingOK(call, registry)
  BY DEF ContextInv
<1>2. call[c].pc = "evicting" /\ CallOK(call[c], registry)
  BY <1>1 DEF Contexts!Released, CallsOK
<1>3. /\ r \in Contexts!Registries /\ registry[r] # None /\ k \in Keys
      /\ entry[k] # None /\ entry[k].age = 0 /\ ~entry[k].invalidated /\ ~entry[k].checking
      /\ registry[r].state = "closing"
  BY <1>1, <1>2, CallRegistry DEF CallOK, MissOK
<1>4. \A d \in Calls : d # c => call[d].pc # "evicting"
  BY <1>1, <1>2, OthersWait
<1>5. /\ Registered(rs) /\ rs[r] # None /\ rs[r].state = "closed"
      /\ \A q \in Contexts!Registries : q # r => rs[q] = registry[q]
  <2>1. registry[r] \in Contexts!Registry
    BY <1>1, <1>3 DEF Registered
  <2>2. /\ [registry[r] EXCEPT !.state = "closed"] \in Contexts!Registry
        /\ [registry[r] EXCEPT !.state = "closed"].state = "closed"
    BY <2>1 DEF Contexts!Registry
  <2> QED BY <1>1, <1>3, <2>2, Assumed DEF Registered
<1>6. Contexts!Dropped(entry, {}) = entry
  BY <1>1 DEF Cached, Contexts!Dropped
<1>7. Contexts!Settle(c, {}, entry, rs, keys, accounts) /\ UNCHANGED <<revoked, since, shut>>
  BY DEF Contexts!Released
<1> HIDE DEF rs, r, k
<1>8. \A q \in Contexts!Registries : IsOpen(rs, q) <=> IsOpen(registry, q)
  BY <1>3, <1>5 DEF IsOpen
<1>9. \A q \in Contexts!Registries : IsOpen(rs, q) => rs[q] = registry[q]
  BY <1>3, <1>5 DEF IsOpen
<1>10. \A j \in Keys : entry[j] # None => entry[j].registry \in Contexts!Registries
  BY <1>1 DEF Cached, Contexts!Entry
<1>11. ServedOK(entry, rs)
  BY <1>1, <1>8, <1>9, <1>10 DEF ServedOK
<1>12. \A q \in Contexts!Registries : ~IsClosing(rs, q)
  <2> SUFFICES ASSUME NEW q \in Contexts!Registries, IsClosing(rs, q)
               PROVE  FALSE
    OBVIOUS
  <2>1. q # r /\ IsClosing(registry, q)
    BY <1>5 DEF IsClosing
  <2> QED BY <1>1, <1>4, <2>1 DEF ClosingOK, r
<1>13. \A d \in Calls : CallOK(call[d], rs)
  <2> SUFFICES ASSUME NEW d \in Calls
               PROVE  CallOK(call[d], rs)
    OBVIOUS
  <2>1. CallOK(call[d], registry) /\ call[d].registry \in Contexts!Registries \cup {None}
    BY <1>1, CallRegistry DEF CallsOK
  <2> QED BY <1>3, <1>5, <2>1 DEF CallOK
<1>14. \A d \in Calls : call[d].pc = "queued" /\ entry[call[d].key] # None => entry[call[d].key].age = 0
  BY <1>1 DEF MissOK
<1>15. Added(c, {}, entry, rs, keys, accounts)
  BY <1>1, <1>2, <1>3, <1>5, <1>6, <1>11, <1>12, <1>13, <1>14 DEF Added, k
<1>16. \A q \in Contexts!Registries : IsOpen(registry, q) => rs[q] = registry[q]
  BY <1>8, <1>9
<1> QED BY <1>7, <1>15, <1>16 DEF Settles

\* A context that is added drops a retired key, which is then the only one of its account,
\* or makes room, or neither.
LEMMA StaleFacts ==
  ASSUME ContextInv, NEW u \in Users
  PROVE  LET gone == Contexts!Stale(u) IN
         /\ gone \subseteq Listed(keys[u])
         /\ \A i, j \in gone : i = j
         /\ \A j \in Listed(keys[u]) \ gone : ~entry[j].invalidated
         /\ Len(Contexts!Sans(keys[u], gone)) + 1 <= KeysPerAccount
<1> DEFINE all == Listed(keys[u])
           dead == {j \in Contexts!Elements(keys[u]) : entry[j].invalidated}
           rest == Contexts!Elements(keys[u]) \ dead
           gone == Contexts!Stale(u)
<1>1. /\ Once(keys[u], Keys) /\ Len(keys[u]) <= KeysPerAccount
      /\ all = {k \in Keys : UserOf[k] = u /\ entry[k] # None}
      /\ EntriesOK(entry, revoked, since)
  BY DEF ContextInv, ListsOK
<1>2. Contexts!Elements(keys[u]) = all
  BY <1>1, OnceFacts
<1>3. IsFiniteSet(all) /\ Len(keys[u]) = Cardinality(all) /\ Len(keys[u]) \in Nat
  BY <1>1, OnceFacts, OnceLength
<1>4. gone = IF Contexts!Cardinality(rest) >= KeysPerAccount
             THEN dead \cup {Contexts!First(keys[u], rest)} ELSE dead
  BY DEF Contexts!Stale
<1>5. Contexts!Cardinality(rest) = Cardinality(rest)
  BY SameCount
<1>6. dead \subseteq all /\ rest = all \ dead
  BY <1>2
<1>d. \A j \in all \ dead : ~entry[j].invalidated
  BY <1>2
<1>s. ASSUME NEW X, X = gone, X \subseteq all, \A i, j \in X : i = j
      PROVE  Len(Contexts!Sans(keys[u], X)) = Cardinality(all \ X)
  <2>1. \A i, j \in all \cap X : i = j
    BY <1>s
  <2>2. Once(Contexts!Sans(keys[u], X), Keys) /\ Listed(Contexts!Sans(keys[u], X)) = all \ X
    BY <1>1, <2>1, SansFacts
  <2> QED BY <2>2, OnceLength
<1>7. CASE dead # {}
  <2>1. PICK j \in dead : TRUE
    BY <1>7
  <2>2. j \in Keys /\ UserOf[j] = u /\ entry[j] # None /\ entry[j].invalidated
    BY <1>1, <1>2, <2>1
  <2>3. all = {j}
    BY <1>1, <2>2 DEF EntriesOK
  <2>4. dead = {j} /\ rest = {}
    BY <1>2, <2>2, <2>3
  <2> HIDE DEF dead, rest, all, gone
  <2>5. Cardinality(rest) = 0
    BY <2>4, FS_EmptySet
  <2>6. gone = {j}
    BY <1>4, <1>5, <2>4, <2>5, Assumed
  <2>7. all \ gone = {}
    BY <2>3, <2>6
  <2>8. Len(Contexts!Sans(keys[u], gone)) = 0
    BY <1>s, <2>3, <2>6, <2>7, FS_EmptySet
  <2> QED BY <2>3, <2>6, <2>7, <2>8, Assumed DEF all, gone
<1>8. CASE dead = {} /\ Cardinality(rest) >= KeysPerAccount
  <2> DEFINE f == Contexts!First(keys[u], rest)
  <2>1. rest = all
    BY <1>6, <1>8
  <2>n. \A j \in all : ~entry[j].invalidated
    BY <1>d, <1>8
  <2> HIDE DEF rest, dead
  <2>2. all # {}
    <3>1. Cardinality(all) >= 1
      BY <1>3, <1>8, <2>1, Assumed
    <3>2. Cardinality({}) = 0
      BY FS_EmptySet
    <3> QED BY <3>1, <3>2
  <2>3. f \in all
    BY <1>1, <2>1, <2>2, FirstFacts
  <2>4. gone = {f}
    BY <1>4, <1>5, <1>8
  <2> HIDE DEF f, gone, all
  <2>5. Cardinality(all \ {f}) = Cardinality(all) - 1
    BY <1>3, <2>3, FS_RemoveElement
  <2>6. Len(Contexts!Sans(keys[u], gone)) = Cardinality(all) - 1
    BY <1>s, <2>3, <2>4, <2>5
  <2>7. Len(Contexts!Sans(keys[u], gone)) + 1 <= KeysPerAccount
    BY <1>1, <1>3, <2>6, Assumed
  <2> QED BY <2>3, <2>4, <2>7, <2>n DEF gone, all
<1>9. CASE dead = {} /\ ~(Cardinality(rest) >= KeysPerAccount)
  <2>1. rest = all /\ gone = {}
    BY <1>4, <1>5, <1>6, <1>9
  <2>n. \A j \in all : ~entry[j].invalidated
    BY <1>d, <1>9
  <2> HIDE DEF rest, dead, gone, all
  <2>2. Len(Contexts!Sans(keys[u], gone)) = Cardinality(all)
    <3>1. all \ gone = all
      BY <2>1
    <3> QED BY <1>s, <2>1, <3>1
  <2>3. Cardinality(all) < KeysPerAccount /\ Cardinality(all) \in Nat
    BY <1>3, <1>9, <2>1, Assumed
  <2>4. Len(Contexts!Sans(keys[u], gone)) + 1 <= KeysPerAccount
    BY <2>2, <2>3, Assumed
  <2> QED BY <2>1, <2>4, <2>n DEF gone, all
<1> QED BY <1>7, <1>8, <1>9

\* The context that is added: its entry, its registry and its account's keys.
NewEntry(r) == [registry |-> r, invalidated |-> FALSE, age |-> 0, checking |-> FALSE]

WithEntry(k, r) == [entry EXCEPT ![k] = NewEntry(r)]

WithRegistry(c, r) ==
  IF call[c].registry # None THEN registry
  ELSE [registry EXCEPT ![r] = [user |-> UserOf[call[c].key], state |-> "open", building |-> FALSE]]

WithKey(u, k, gone) == [keys EXCEPT ![u] = Append(Contexts!Sans(@, gone), k)]

LEMMA BuiltStep ==
  ASSUME NEW c \in Calls, Contexts!Built(c)
  PROVE  LET k == call[c].key
             u == UserOf[k]
             gone == Contexts!Stale(u)
         IN  /\ call[c].pc = "building" /\ k \notin revoked /\ UNCHANGED <<revoked, since, shut>>
             /\ \E r \in Contexts!Registries :
                  /\ IF call[c].registry # None THEN r = call[c].registry ELSE registry[r] = None
                  /\ Contexts!Settle(c, gone, WithEntry(k, r), WithRegistry(c, r),
                                     WithKey(u, k, gone), Contexts!Last(accounts, u))
<1> DEFINE k == call[c].key
           u == UserOf[k]
           gone == Contexts!Stale(u)
<1>1. call[c].pc = "building" /\ k \notin revoked /\ UNCHANGED <<revoked, since, shut>>
  BY DEF Contexts!Built
<1>2. PICK r \in Contexts!Registries :
        /\ IF call[c].registry # None THEN r = call[c].registry
           ELSE registry[r] = None /\ \A q \in 1..(r - 1) : registry[q] # None
        /\ Contexts!Settle(c, gone,
             [entry EXCEPT ![k] = [registry |-> r, invalidated |-> FALSE, age |-> 0, checking |-> FALSE]],
             IF call[c].registry # None THEN registry
             ELSE [registry EXCEPT ![r] = [user |-> u, state |-> "open", building |-> FALSE]],
             [keys EXCEPT ![u] = Append(Contexts!Sans(@, gone), k)],
             Contexts!Last(accounts, u))
  BY DEF Contexts!Built
<1>3. Contexts!Settle(c, gone, WithEntry(k, r), WithRegistry(c, r),
                      WithKey(u, k, gone), Contexts!Last(accounts, u))
  BY <1>2 DEF WithEntry, WithRegistry, WithKey, NewEntry
<1> QED BY <1>1, <1>2, <1>3

\* What is known of a call whose context has been built.
Building(c, r) ==
  LET k == call[c].key  u == UserOf[k]  gone == Contexts!Stale(u) IN
  /\ k \in Keys /\ u \in Users /\ entry[k] = None
  /\ r \in Contexts!Registries
  /\ IF call[c].registry # None THEN r = call[c].registry /\ IsOpen(registry, r) /\ registry[r].user = u
     ELSE registry[r] = None /\ \A j \in Keys : UserOf[j] = u => entry[j] = None
  /\ gone \subseteq Listed(keys[u]) /\ k \notin gone /\ \A i, j \in gone : i = j
  /\ \A j \in Listed(keys[u]) \ gone : ~entry[j].invalidated
  /\ Listed(keys[u]) = {j \in Keys : UserOf[j] = u /\ entry[j] # None}
  /\ Len(Contexts!Sans(keys[u], gone)) + 1 <= KeysPerAccount

LEMMA BuildingFacts ==
  ASSUME ContextInv, NEW c \in Calls, NEW r \in Contexts!Registries, call[c].pc = "building",
         IF call[c].registry # None THEN r = call[c].registry ELSE registry[r] = None
  PROVE  Building(c, r)
<1> DEFINE k == call[c].key
           u == UserOf[k]
           gone == Contexts!Stale(u)
<1>1. CallOK(call[c], registry) /\ MissOK(call, entry, registry) /\ ListsOK(keys, accounts, entry)
  BY DEF ContextInv, CallsOK
<1>2. k \in Keys /\ u \in Users
  BY <1>1, CallRegistry, Assumed
<1>3. entry[k] = None
  BY <1>1 DEF MissOK
<1>4. IF call[c].registry # None THEN IsOpen(registry, r) /\ registry[r].user = u
      ELSE \A j \in Keys : UserOf[j] = u => entry[j] = None
  BY <1>1 DEF MissOK
<1>5. Listed(keys[u]) = {j \in Keys : UserOf[j] = u /\ entry[j] # None}
  BY <1>1, <1>2 DEF ListsOK
<1>6. /\ gone \subseteq Listed(keys[u])
      /\ \A i, j \in gone : i = j
      /\ \A j \in Listed(keys[u]) \ gone : ~entry[j].invalidated
      /\ Len(Contexts!Sans(keys[u], gone)) + 1 <= KeysPerAccount
  BY <1>2, StaleFacts
<1>7. k \notin gone
  BY <1>3, <1>5, <1>6
<1> HIDE DEF gone, u, k
<1> QED BY <1>2, <1>3, <1>4, <1>5, <1>6, <1>7 DEF Building, k, u, gone

\* What is left in the cache once keys are dropped.
LEMMA LeftFacts ==
  ASSUME ContextInv, NEW c \in Calls, NEW r, Building(c, r)
  PROVE  LET k == call[c].key
             gone == Contexts!Stale(UserOf[k])
             left == Contexts!Dropped(WithEntry(k, r), gone)
         IN  /\ Cached(WithEntry(k, r)) /\ WithEntry(k, r)[k] = NewEntry(r)
             /\ Cached(left) /\ left[k] = NewEntry(r) /\ NewEntry(r) # None
             /\ \A j \in Keys : j # k => /\ WithEntry(k, r)[j] = entry[j]
                                         /\ left[j] = IF j \in gone THEN None ELSE entry[j]
<1> DEFINE k == call[c].key
           gone == Contexts!Stale(UserOf[k])
           es == WithEntry(k, r)
           left == Contexts!Dropped(es, gone)
<1>1. Cached(entry) /\ k \in Keys /\ k \notin gone /\ r \in Contexts!Registries
  BY DEF ContextInv, Building
<1>2. NewEntry(r) \in Contexts!Entry /\ NewEntry(r) # None
  <2>1. 0 \in 0..RecheckAfter
    BY Assumed
  <2>2. NewEntry(r) \in Contexts!Entry
    BY <1>1, <2>1 DEF NewEntry, Contexts!Entry
  <2> QED BY <2>2, Assumed
<1>3. Cached(es) /\ es[k] = NewEntry(r) /\ \A j \in Keys : j # k => es[j] = entry[j]
  BY <1>1, <1>2 DEF Cached, WithEntry
<1> HIDE DEF es, gone, k
<1>4. Cached(left) /\ \A j \in Keys : left[j] = IF j \in gone THEN None ELSE es[j]
  BY <1>3 DEF Cached, Contexts!Dropped
<1> HIDE DEF left
<1> QED BY <1>1, <1>2, <1>3, <1>4 DEF es, gone, k, left

LEMMA BuiltLists ==
  ASSUME ContextInv, NEW c \in Calls, NEW r, Building(c, r), call[c].key \notin revoked
  PROVE  LET k == call[c].key
             u == UserOf[k]
             gone == Contexts!Stale(u)
             left == Contexts!Dropped(WithEntry(k, r), gone)
         IN  /\ ListsOK(WithKey(u, k, gone), Contexts!Last(accounts, u), left)
             /\ EntriesOK(left, revoked, since)
<1> DEFINE k == call[c].key
           u == UserOf[k]
           gone == Contexts!Stale(u)
           left == Contexts!Dropped(WithEntry(k, r), gone)
           ks == WithKey(u, k, gone)
           accs == Contexts!Last(accounts, u)
           sans == Contexts!Sans(keys[u], gone)
<1>1. /\ k \in Keys /\ u \in Users /\ entry[k] = None /\ k \notin gone
      /\ gone \subseteq Listed(keys[u]) /\ \A i, j \in gone : i = j
      /\ \A j \in Listed(keys[u]) \ gone : ~entry[j].invalidated
      /\ Listed(keys[u]) = {j \in Keys : UserOf[j] = u /\ entry[j] # None}
      /\ Len(sans) + 1 <= KeysPerAccount
  BY DEF Building
<1>2. ListsOK(keys, accounts, entry) /\ EntriesOK(entry, revoked, since)
  BY DEF ContextInv
<1>3. /\ left[k] = NewEntry(r) /\ NewEntry(r) # None
      /\ \A j \in Keys : j # k => left[j] = IF j \in gone THEN None ELSE entry[j]
  BY LeftFacts
<1>u. u = UserOf[k]
  OBVIOUS
<1> HIDE DEF left, gone, u, k
<1>4. Once(sans, Keys) /\ Listed(sans) = Listed(keys[u]) \ gone
  <2>1. Once(keys[u], Keys)
    BY <1>1, <1>2 DEF ListsOK
  <2> QED BY <1>1, <2>1, SansFacts
<1> HIDE DEF sans
<1>5. /\ Once(Append(sans, k), Keys) /\ Listed(Append(sans, k)) = Listed(sans) \cup {k}
      /\ Append(sans, k) # <<>> /\ Len(Append(sans, k)) = Len(sans) + 1
  <2>1. k \notin Listed(sans)
    BY <1>1, <1>4
  <2> QED BY <1>1, <1>4, <2>1, AppendFacts
<1>6. DOMAIN ks = Users /\ ks[u] = Append(sans, k) /\ \A x \in Users : x # u => ks[x] = keys[x]
  BY <1>1, <1>2 DEF ListsOK, WithKey, sans
<1>7. ASSUME NEW x \in Users
      PROVE  /\ Once(ks[x], Keys) /\ Len(ks[x]) <= KeysPerAccount
             /\ Listed(ks[x]) = {j \in Keys : UserOf[j] = x /\ left[j] # None}
  <2>1. CASE x = u
    <3>1. \A j \in Keys : UserOf[j] = u /\ left[j] # None <=> j \in Listed(sans) \cup {k}
      BY <1>1, <1>3, <1>4, <1>u
    <3>2. Listed(sans) \cup {k} \subseteq Keys
      BY <1>1, <1>4
    <3>3. Listed(Append(sans, k)) = {j \in Keys : UserOf[j] = u /\ left[j] # None}
      BY <1>5, <3>1, <3>2
    <3>4. Len(Append(sans, k)) <= KeysPerAccount
      BY <1>1, <1>5
    <3> QED BY <1>5, <1>6, <2>1, <3>3, <3>4
  <2>2. CASE x # u
    <3>1. \A j \in Keys : UserOf[j] = x => left[j] = entry[j]
      BY <1>1, <1>3, <1>u, <2>2
    <3> QED BY <1>2, <1>6, <2>2, <3>1 DEF ListsOK
  <2> QED BY <2>1, <2>2
<1>8. Once(accs, Users) /\ Listed(accs) = Listed(accounts) \cup {u}
  <2>1. Once(accounts, Users)
    BY <1>2 DEF ListsOK
  <2> QED BY <1>1, <2>1, LastFacts
<1> HIDE DEF ks, accs
<1>9. Listed(accs) = {x \in Users : ks[x] # <<>>}
  BY <1>1, <1>2, <1>5, <1>6, <1>8 DEF ListsOK
<1>10. ListsOK(ks, accs, left)
  BY <1>6, <1>7, <1>8, <1>9 DEF ListsOK
<1>11. ASSUME NEW j \in Keys, left[j] # None
       PROVE  /\ left[j].invalidated =>
                   /\ j \in revoked
                   /\ \A i \in Keys : left[i] # None /\ UserOf[i] = UserOf[j] => i = j
              /\ ~left[j].invalidated /\ j \in revoked => since[j] <= left[j].age
  <2>1. CASE j = k
    <3>1. ~NewEntry(r).invalidated
      BY DEF NewEntry
    <3> QED BY <1>3, <2>1, <3>1 DEF k
  <2>2. CASE j # k
    <3>1. left[j] = entry[j] /\ entry[j] # None /\ j \notin gone
      BY <1>3, <1>11, <2>2
    <3>2. CASE left[j].invalidated
      <4>1. UserOf[j] # u
        BY <1>1, <3>1, <3>2
      <4>2. \A i \in Keys : UserOf[i] = UserOf[j] => i # k /\ (left[i] # None => entry[i] # None)
        BY <1>3, <1>u, <4>1
      <4> QED BY <1>2, <3>1, <3>2, <4>2 DEF EntriesOK
    <3>3. CASE ~left[j].invalidated
      BY <1>2, <3>1, <3>3 DEF EntriesOK
    <3> QED BY <3>2, <3>3
  <2> QED BY <2>1, <2>2
<1>12. EntriesOK(left, revoked, since)
  BY <1>11 DEF EntriesOK
<1> QED BY <1>10, <1>12 DEF k, u, gone, left, ks, accs

LEMMA BuiltServed ==
  ASSUME ContextInv, shut # "done", NEW c \in Calls, NEW r, Building(c, r)
  PROVE  LET k == call[c].key
             rs == WithRegistry(c, r)
             left == Contexts!Dropped(WithEntry(k, r), Contexts!Stale(UserOf[k]))
         IN  /\ Registered(rs) /\ ServedOK(left, rs)
             /\ IsOpen(rs, r)
             /\ \A q \in Contexts!Registries : q # r => rs[q] = registry[q]
<1> DEFINE k == call[c].key
           u == UserOf[k]
           gone == Contexts!Stale(u)
           left == Contexts!Dropped(WithEntry(k, r), gone)
           rs == WithRegistry(c, r)
<1>1. /\ k \in Keys /\ u \in Users /\ entry[k] = None /\ r \in Contexts!Registries
      /\ IF call[c].registry # None
         THEN r = call[c].registry /\ IsOpen(registry, r) /\ registry[r].user = u
         ELSE registry[r] = None /\ \A j \in Keys : UserOf[j] = u => entry[j] = None
      /\ gone \subseteq Listed(keys[u])
      /\ Listed(keys[u]) = {j \in Keys : UserOf[j] = u /\ entry[j] # None}
  BY DEF Building
<1>2. ServedOK(entry, registry) /\ Registered(registry) /\ Cached(entry)
  BY DEF ContextInv
<1>3. /\ left[k] = NewEntry(r) /\ NewEntry(r) # None
      /\ \A j \in Keys : j # k => left[j] = IF j \in gone THEN None ELSE entry[j]
  BY LeftFacts
<1>4. NewEntry(r).registry = r
  BY DEF NewEntry
<1>5. rs = IF call[c].registry # None THEN registry
           ELSE [registry EXCEPT ![r] = [user |-> u, state |-> "open", building |-> FALSE]]
  BY DEF WithRegistry
<1>u. u = UserOf[k]
  OBVIOUS
<1> HIDE DEF left, gone, rs, u, k
<1>6. \A j \in Keys : entry[j] # None => entry[j].registry \in Contexts!Registries
  BY <1>2 DEF Cached, Contexts!Entry
<1>7. Registered(rs) /\ IsOpen(rs, r) /\ rs[r].user = u
      /\ \A q \in Contexts!Registries : q # r => rs[q] = registry[q]
  <2>1. CASE call[c].registry # None
    BY <1>1, <1>2, <1>5, <2>1
  <2>2. CASE call[c].registry = None
    <3> DEFINE x == [user |-> u, state |-> "open", building |-> FALSE]
    <3>1. x \in Contexts!Registry /\ x.state = "open" /\ x.user = u
      BY <1>1 DEF Contexts!Registry
    <3>2. rs = [registry EXCEPT ![r] = x]
      BY <1>5, <2>2
    <3> HIDE DEF x
    <3> QED BY <1>1, <1>2, <3>1, <3>2, Assumed DEF Registered, IsOpen
  <2> QED BY <2>1, <2>2
\* Nothing else of the account is open.
<1>8. \A q \in Contexts!Registries : IsOpen(registry, q) /\ registry[q].user = u => q = r
  <2> SUFFICES ASSUME NEW q \in Contexts!Registries, IsOpen(registry, q), registry[q].user = u
               PROVE  q = r
    OBVIOUS
  <2>1. CASE call[c].registry # None
    BY <1>1, <1>2, <2>1 DEF ServedOK
  <2>2. CASE call[c].registry = None
    <3>1. PICK j \in Keys : entry[j] # None /\ entry[j].registry = q
      BY <1>2 DEF ServedOK
    <3>2. UserOf[j] = u
      BY <1>2, <3>1 DEF ServedOK
    <3> QED BY <1>1, <2>2, <3>1, <3>2
  <2> QED BY <2>1, <2>2
<1>9. ASSUME NEW j \in Keys, left[j] # None
      PROVE  IsOpen(rs, left[j].registry) /\ rs[left[j].registry].user = UserOf[j]
  <2>1. CASE j = k
    BY <1>3, <1>4, <1>7, <1>u, <2>1
  <2>2. CASE j # k
    <3>1. left[j] = entry[j] /\ entry[j] # None
      BY <1>3, <1>9, <2>2
    <3>2. /\ entry[j].registry \in Contexts!Registries /\ IsOpen(registry, entry[j].registry)
          /\ registry[entry[j].registry].user = UserOf[j]
      BY <1>2, <1>6, <3>1 DEF ServedOK
    <3>3. CASE entry[j].registry = r
      <4>1. registry[r] # None
        BY <3>2, <3>3 DEF IsOpen
      <4>2. call[c].registry # None
        BY <1>1, <4>1
      <4> QED BY <1>5, <1>7, <3>1, <3>2, <3>3, <4>2
    <3>4. CASE entry[j].registry # r
      BY <1>7, <3>1, <3>2, <3>4 DEF IsOpen
    <3> QED BY <3>3, <3>4
  <2> QED BY <2>1, <2>2
<1>10. ASSUME NEW q \in Contexts!Registries, IsOpen(rs, q)
       PROVE  /\ \E j \in Keys : left[j] # None /\ left[j].registry = q
              /\ \A p \in Contexts!Registries : IsOpen(rs, p) /\ rs[p].user = rs[q].user => p = q
  <2>1. \A p \in Contexts!Registries : p # r /\ IsOpen(rs, p) =>
          rs[p] = registry[p] /\ IsOpen(registry, p) /\ rs[p].user # u
    BY <1>7, <1>8 DEF IsOpen
  <2>2. CASE q = r
    BY <1>1, <1>3, <1>4, <1>7, <2>1, <2>2
  <2>3. CASE q # r
    <3>1. PICK j \in Keys : entry[j] # None /\ entry[j].registry = q
      BY <1>2, <1>10, <2>1, <2>3 DEF ServedOK
    <3>2. UserOf[j] = registry[q].user /\ registry[q].user # u
      BY <1>2, <1>10, <2>1, <2>3, <3>1 DEF ServedOK
    <3>3. left[j] = entry[j]
      BY <1>1, <1>3, <1>u, <3>2
    <3>4. \A p \in Contexts!Registries : IsOpen(rs, p) /\ rs[p].user = rs[q].user => p = q
      BY <1>2, <1>7, <1>10, <2>1, <2>3, <3>2 DEF ServedOK
    <3> QED BY <3>1, <3>3, <3>4
  <2> QED BY <2>2, <2>3
<1>11. ServedOK(left, rs)
  BY <1>9, <1>10 DEF ServedOK
<1> QED BY <1>7, <1>11 DEF left, rs, gone, u, k

LEMMA BuiltSettles ==
  ASSUME ContextInv, shut # "done", NEW c \in Calls, Contexts!Built(c)
  PROVE  Settles(c) /\ UNCHANGED <<revoked, since, shut>>
<1> DEFINE k == call[c].key
           u == UserOf[k]
           gone == Contexts!Stale(u)
<1>1. call[c].pc = "building" /\ k \notin revoked /\ UNCHANGED <<revoked, since, shut>>
  BY BuiltStep
<1>2. PICK r \in Contexts!Registries :
        /\ IF call[c].registry # None THEN r = call[c].registry ELSE registry[r] = None
        /\ Contexts!Settle(c, gone, WithEntry(k, r), WithRegistry(c, r),
                           WithKey(u, k, gone), Contexts!Last(accounts, u))
  BY BuiltStep
<1>3. Building(c, r)
  BY <1>1, <1>2, BuildingFacts
<1> DEFINE es == WithEntry(k, r)
           rs == WithRegistry(c, r)
           left == Contexts!Dropped(es, gone)
<1>4. /\ Cached(es) /\ es[k] = NewEntry(r) /\ NewEntry(r) # None
      /\ \A j \in Keys : j # k => es[j] = entry[j]
  BY <1>3, LeftFacts
<1>5. /\ ListsOK(WithKey(u, k, gone), Contexts!Last(accounts, u), left)
      /\ EntriesOK(left, revoked, since)
  BY <1>1, <1>3, BuiltLists
<1>6. /\ Registered(rs) /\ ServedOK(left, rs) /\ IsOpen(rs, r)
      /\ \A q \in Contexts!Registries : q # r => rs[q] = registry[q]
  BY <1>3, BuiltServed
<1>7. k \in Keys /\ k \notin gone
  BY <1>3 DEF Building
<1>8. /\ CallsOK(call, registry) /\ TailOK(tail, call)
      /\ MissOK(call, entry, registry) /\ ClosingOK(call, registry)
  BY DEF ContextInv
<1> HIDE DEF es, rs, left, gone, u
<1>9. \A q \in Contexts!Registries : ~IsClosing(rs, q)
  <2>1. \A d \in Calls : call[d].pc # "evicting"
    BY <1>1, <1>8, OthersWait
  <2>2. \A q \in Contexts!Registries : ~IsClosing(registry, q)
    BY <1>8, <2>1 DEF ClosingOK
  <2> QED BY <1>6, <2>2 DEF IsClosing, IsOpen
<1>10. \A d \in Calls : CallOK(call[d], rs)
  <2> SUFFICES ASSUME NEW d \in Calls
               PROVE  CallOK(call[d], rs)
    OBVIOUS
  <2>1. CallOK(call[d], registry) /\ call[d].registry \in Contexts!Registries \cup {None}
    BY <1>8, CallRegistry DEF CallsOK
  <2>2. call[d].registry # None => rs[call[d].registry] # None
    BY <1>6, <2>1 DEF CallOK, IsOpen
  <2> QED BY <2>1, <2>2 DEF CallOK
<1>11. \A d \in Calls : call[d].pc = "queued" /\ es[call[d].key] # None => es[call[d].key].age = 0
  <2> SUFFICES ASSUME NEW d \in Calls, call[d].pc = "queued", es[call[d].key] # None
               PROVE  es[call[d].key].age = 0
    OBVIOUS
  <2>1. call[d].key \in Keys
    BY <1>8 DEF CallsOK, CallOK
  <2>2. CASE call[d].key = k
    BY <1>4, <2>2 DEF NewEntry
  <2>3. CASE call[d].key # k
    BY <1>4, <1>8, <2>1, <2>3 DEF MissOK
  <2> QED BY <2>2, <2>3
<1>12. es[k] # None /\ es[k].age = 0 /\ ~es[k].invalidated /\ ~es[k].checking
  BY <1>4 DEF NewEntry
<1>13. Added(c, gone, es, rs, WithKey(u, k, gone), Contexts!Last(accounts, u))
  BY <1>1, <1>4, <1>5, <1>6, <1>7, <1>9, <1>10, <1>11, <1>12 DEF Added, left
<1>14. Contexts!Settle(c, gone, es, rs, WithKey(u, k, gone), Contexts!Last(accounts, u))
  BY <1>2 DEF es, rs, gone, u
<1>15. \A q \in Contexts!Registries : IsOpen(registry, q) => rs[q] = registry[q]
  <2>1. CASE call[c].registry # None
    BY <2>1 DEF rs, WithRegistry
  <2>2. CASE call[c].registry = None
    <3>1. registry[r] = None
      BY <1>2, <2>2
    <3> QED BY <1>6, <3>1 DEF IsOpen
  <2> QED BY <2>1, <2>2
<1> QED BY <1>1, <1>13, <1>14, <1>15 DEF Settles

LEMMA SettlesKeeps ==
  ASSUME ContextInv, shut # "done", NEW c \in Calls, Contexts!Built(c) \/ Contexts!Released(c)
  PROVE  ContextInv'
<1>1. Settles(c) /\ UNCHANGED <<revoked, since, shut>>
  BY BuiltSettles, ReleasedSettles
<1>2. PICK gone, es, rs, ks, accs :
        Added(c, gone, es, rs, ks, accs) /\ Contexts!Settle(c, gone, es, rs, ks, accs)
  BY <1>1 DEF Settles
<1> QED BY <1>1, <1>2, SettleKeeps

-----------------------------------------------------------------------------
(* The other steps.                                                        *)

\* A hit reorders the lists.
LEMMA HitKeeps ==
  ASSUME ListsOK(keys, accounts, entry), NEW k \in Keys, entry[k] # None, Contexts!Hit(k)
  PROVE  ListsOK(keys', accounts', entry)
<1> DEFINE u == UserOf[k]
<1>1. /\ DOMAIN keys = Users
      /\ \A v \in Users : /\ Once(keys[v], Keys) /\ Len(keys[v]) <= KeysPerAccount
                          /\ Listed(keys[v]) = {j \in Keys : UserOf[j] = v /\ entry[j] # None}
      /\ Once(accounts, Users) /\ Listed(accounts) = {v \in Users : keys[v] # <<>>}
  BY DEF ListsOK
<1>2. u \in Users /\ k \in Listed(keys[u])
  BY <1>1, Assumed
<1>3. /\ keys' = [keys EXCEPT ![u] = Contexts!Last(keys[u], k)]
      /\ accounts' = Contexts!Last(accounts, u)
  BY DEF Contexts!Hit
<1> HIDE DEF u
<1>4. /\ Once(Contexts!Last(keys[u], k), Keys)
      /\ Listed(Contexts!Last(keys[u], k)) = Listed(keys[u])
      /\ Contexts!Last(keys[u], k) # <<>>
  <2>1. Once(keys[u], Keys)
    BY <1>1, <1>2
  <2>2. /\ Once(Contexts!Last(keys[u], k), Keys)
        /\ Listed(Contexts!Last(keys[u], k)) = Listed(keys[u]) \cup {k}
        /\ Contexts!Last(keys[u], k) # <<>>
    BY <2>1, LastFacts
  <2> QED BY <1>2, <2>2
<1>5. Len(Contexts!Last(keys[u], k)) = Len(keys[u])
  BY <1>1, <1>2, <1>4, OnceLength
<1>6. keys[u] # <<>>
  BY <1>1, <1>2, EmptyOrNot
<1>7. /\ Once(Contexts!Last(accounts, u), Users)
      /\ Listed(Contexts!Last(accounts, u)) = Listed(accounts)
  <2>1. u \in Listed(accounts) /\ Once(accounts, Users)
    BY <1>1, <1>2, <1>6
  <2>2. /\ Once(Contexts!Last(accounts, u), Users)
        /\ Listed(Contexts!Last(accounts, u)) = Listed(accounts) \cup {u}
    BY <1>2, <2>1, LastFacts
  <2> QED BY <2>1, <2>2
<1>8. /\ DOMAIN keys' = Users /\ keys'[u] = Contexts!Last(keys[u], k)
      /\ \A v \in Users : v # u => keys'[v] = keys[v]
  BY <1>1, <1>2, <1>3
<1>9. ASSUME NEW v \in Users
      PROVE  /\ Once(keys'[v], Keys) /\ Len(keys'[v]) <= KeysPerAccount
             /\ Listed(keys'[v]) = {j \in Keys : UserOf[j] = v /\ entry[j] # None}
             /\ keys'[v] # <<>> <=> keys[v] # <<>>
  <2>1. CASE v = u
    BY <1>1, <1>2, <1>4, <1>5, <1>6, <1>8, <2>1
  <2>2. CASE v # u
    BY <1>1, <1>8, <2>2
  <2> QED BY <2>1, <2>2
<1>10. Listed(accounts') = {v \in Users : keys'[v] # <<>>}
  BY <1>1, <1>3, <1>7, <1>9
<1> QED BY <1>3, <1>7, <1>8, <1>9, <1>10 DEF ListsOK

\* Entries that are neither added nor given other indexes.
LEMMA ServedStays ==
  ASSUME NEW es, NEW es2, NEW rs, ServedOK(es, rs),
         \A j \in Keys : /\ es2[j] = None <=> es[j] = None
                         /\ es[j] # None => es2[j].registry = es[j].registry
  PROVE  ServedOK(es2, rs)
BY DEF ServedOK

\* A step that adds no context and closes no indexes, and takes no call into the queue of
\* misses or out of it.
LEMMA AsideStep ==
  ASSUME ContextInv, shut # "done", shut' \in {"no", "flushing"},
         Cached(entry'), ListsOK(keys', accounts', entry'),
         revoked' \subseteq Keys, since' \in [Keys -> 0..RecheckAfter],
         EntriesOK(entry', revoked', since'), ServedOK(entry', registry),
         UNCHANGED tail, DOMAIN call' = Calls,
         \A d \in Calls : \/ call'[d] = call[d]
                          \/ /\ call[d].pc \notin Missing /\ call'[d].pc \notin Missing
                             /\ CallOK(call'[d], registry),
         Loses(registry, registry', call'),
         \A j \in Keys : entry'[j] # None => entry[j] # None,
         tail # <<>> => \A j \in Keys : entry[j] # None /\ entry[j].age = 0 =>
           /\ entry'[j] # None => entry'[j].age = 0
           /\ ~entry[j].invalidated /\ ~entry[j].checking =>
                entry'[j] # None /\ ~entry'[j].invalidated /\ ~entry'[j].checking
  PROVE  ContextInv'
<1>1. /\ Registered(registry) /\ Registered(registry')
      /\ CallsOK(call, registry) /\ TailOK(tail, call)
      /\ MissOK(call, entry, registry) /\ ClosingOK(call, registry)
  BY DEF ContextInv, Loses
<1>2. MissOK(call, entry', registry)
  <2>1. ASSUME NEW d \in Calls, call[d].pc \in Missing
        PROVE  tail # <<>> /\ call[d].key \in Keys
    <3>1. Once(tail, Calls) /\ d \in Listed(tail)
      BY <1>1, <2>1 DEF TailOK
    <3>2. CallOK(call[d], registry)
      BY <1>1 DEF CallsOK
    <3> QED BY <2>1, <3>1, <3>2, EmptyOrNot DEF CallOK, Missing
  <2> QED BY <1>1, <2>1 DEF MissOK, Missing
<1>3. /\ CallsOK(call', registry) /\ TailOK(tail, call')
      /\ MissOK(call', entry', registry) /\ ClosingOK(call', registry)
  BY <1>1, <1>2, AsideKeeps
<1>4. /\ ServedOK(entry', registry') /\ CallsOK(call', registry')
      /\ MissOK(call', entry', registry') /\ ClosingOK(call', registry')
  BY <1>3, LosesKeeps
<1> QED BY <1>1, <1>3, <1>4 DEF ContextInv

\* Only calls change, and registries that nothing refers to.
LEMMA CallStep ==
  ASSUME ContextInv, shut # "done",
         ListsOK(keys', accounts', entry), UNCHANGED <<entry, tail, revoked, since, shut>>,
         DOMAIN call' = Calls,
         \A d \in Calls : \/ call'[d] = call[d]
                          \/ /\ call[d].pc \notin Missing /\ call'[d].pc \notin Missing
                             /\ CallOK(call'[d], registry),
         Loses(registry, registry', call')
  PROVE  ContextInv'
<1>1. /\ Cached(entry') /\ EntriesOK(entry', revoked', since') /\ ServedOK(entry', registry)
      /\ revoked' \subseteq Keys /\ since' \in [Keys -> 0..RecheckAfter]
      /\ shut' \in {"no", "flushing"} /\ ListsOK(keys', accounts', entry')
  BY DEF ContextInv
<1> QED BY <1>1, AsideStep

LEMMA NothingLost ==
  ASSUME Registered(registry), UNCHANGED registry, NEW cs
  PROVE  Loses(registry, registry', cs)
BY DEF Loses, Registered

LEMMA HitStep ==
  ASSUME ContextInv, shut # "done", NEW c \in Calls, NEW k \in Keys, Contexts!ResolveHit(c, k)
  PROVE  ContextInv'
<1> DEFINE g == Contexts!Given(k, entry[k])
<1>1. /\ call[c] = Contexts!Idle /\ entry[k] # None /\ Contexts!Hit(k)
      /\ call' = [call EXCEPT ![c] = g]
      /\ UNCHANGED <<entry, registry, tail, revoked, since, shut>>
  BY DEF Contexts!ResolveHit, Contexts!Asks
<1>2. /\ ListsOK(keys, accounts, entry) /\ Cached(entry) /\ ServedOK(entry, registry)
      /\ Registered(registry) /\ DOMAIN call = Calls
  BY DEF ContextInv, CallsOK
<1>3. ListsOK(keys', accounts', entry)
  BY <1>1, <1>2, HitKeeps
<1>4. entry[k] \in Contexts!Entry /\ registry[entry[k].registry] # None
  BY <1>1, <1>2 DEF Cached, ServedOK, IsOpen
<1>5. CallOK(g, registry) /\ g.pc \in {"idle", "resolved"} /\ call[c].pc = "idle"
  BY <1>1, <1>4, GivenFacts DEF Contexts!Idle
<1> HIDE DEF g
<1>6. DOMAIN call' = Calls /\ \A d \in Calls :
        \/ call'[d] = call[d]
        \/ call[d].pc \notin Missing /\ call'[d].pc \notin Missing /\ CallOK(call'[d], registry)
  BY <1>1, <1>2, <1>5 DEF Missing
<1>7. Loses(registry, registry', call')
  BY <1>1, <1>2, NothingLost
<1> QED BY <1>1, <1>3, <1>6, <1>7, CallStep

\* A key that is due is not one whose context is being settled.
LEMMA DueStep ==
  ASSUME ContextInv, shut # "done", NEW c \in Calls, NEW k \in Keys, Contexts!ResolveDue(c, k)
  PROVE  ContextInv'
<1> DEFINE e == [entry[k] EXCEPT !.checking = TRUE]
           x == [Contexts!Idle EXCEPT !.pc = "checking", !.key = k]
<1>1. /\ call[c] = Contexts!Idle /\ entry[k] # None /\ Contexts!Hit(k)
      /\ ~Contexts!Trusted(entry[k]) /\ call' = [call EXCEPT ![c] = x]
      /\ entry' = [entry EXCEPT ![k] = e]
      /\ UNCHANGED <<registry, tail, revoked, since, shut>>
  BY DEF Contexts!ResolveDue, Contexts!Asks
<1>2. /\ ListsOK(keys, accounts, entry) /\ Cached(entry) /\ ServedOK(entry, registry)
      /\ EntriesOK(entry, revoked, since) /\ Registered(registry) /\ DOMAIN call = Calls
      /\ revoked \subseteq Keys /\ since \in [Keys -> 0..RecheckAfter]
      /\ shut \in {"no", "flushing", "done"}
  BY DEF ContextInv, CallsOK
<1>3. ListsOK(keys', accounts', entry)
  BY <1>1, <1>2, HitKeeps
<1>4. entry[k] \in Contexts!Entry
  BY <1>1, <1>2 DEF Cached
<1>5. /\ e \in Contexts!Entry /\ e # None /\ e.registry = entry[k].registry
      /\ e.invalidated = entry[k].invalidated /\ e.age = entry[k].age
  BY <1>4, Assumed DEF Contexts!Entry
<1>6. /\ CallOK(x, registry) /\ x.pc = "checking" /\ call[c].pc = "idle"
  <2>1. /\ x.pc = "checking" /\ x.key = k /\ x.registry = None /\ x \in Contexts!Call
        /\ call[c].pc = "idle"
    <3>1. Contexts!Idle \in Contexts!Call /\ Contexts!Idle.registry = None /\ Contexts!Idle.pc = "idle"
      BY DEF Contexts!Idle, Contexts!Call
    <3>2. x.pc = "checking" /\ x.key = k /\ x.registry = None /\ x \in Contexts!Call
      BY <3>1 DEF Contexts!Call
    <3> QED BY <1>1, <3>1, <3>2
  <2> HIDE DEF x
  <2> QED BY <2>1 DEF CallOK
<1>7. entry[k].age # 0
  <2>1. entry[k].age \in 0..RecheckAfter /\ ~(entry[k].age < RecheckAfter)
    BY <1>1, <1>4 DEF Contexts!Trusted, Contexts!Entry
  <2> QED BY <2>1, Assumed
<1> HIDE DEF e, x
<1>8. /\ Cached(entry') /\ entry'[k] = e
      /\ \A j \in Keys : j # k => entry'[j] = entry[j]
  BY <1>1, <1>2, <1>5 DEF Cached
<1>9. \A j \in Keys : entry'[j] = None <=> entry[j] = None
  BY <1>1, <1>5, <1>8
<1>10. ListsOK(keys', accounts', entry')
  BY <1>3, <1>9 DEF ListsOK
<1>11. EntriesOK(entry', revoked', since')
  BY <1>1, <1>2, <1>5, <1>8, <1>9 DEF EntriesOK
<1>12. ServedOK(entry', registry)
  BY <1>2, <1>5, <1>8, <1>9, ServedStays
<1>13. DOMAIN call' = Calls /\ \A d \in Calls :
         \/ call'[d] = call[d]
         \/ call[d].pc \notin Missing /\ call'[d].pc \notin Missing /\ CallOK(call'[d], registry)
  BY <1>1, <1>2, <1>6 DEF Missing
<1>14. Loses(registry, registry', call')
  BY <1>1, <1>2, NothingLost
<1>15. \A j \in Keys : entry[j] # None /\ entry[j].age = 0 => entry'[j] = entry[j]
  BY <1>7, <1>8
<1>16. revoked' \subseteq Keys /\ since' \in [Keys -> 0..RecheckAfter] /\ shut' \in {"no", "flushing"}
  BY <1>1, <1>2
<1>17. UNCHANGED tail
  BY <1>1
<1> QED BY <1>8, <1>9, <1>10, <1>11, <1>12, <1>13, <1>14, <1>15, <1>16, <1>17, AsideStep

\* Whoever waits for the check of a key is answered alike.
LEMMA AnswerAside ==
  ASSUME CallsOK(call, registry), NEW k \in Keys, NEW e \in Contexts!Entry,
         registry[e.registry] # None, Contexts!Answer(k, e)
  PROVE  /\ DOMAIN call' = Calls
         /\ \A d \in Calls : \/ call'[d] = call[d]
                             \/ /\ call[d].pc \notin Missing /\ call'[d].pc \notin Missing
                                /\ CallOK(call'[d], registry)
<1> DEFINE g == Contexts!Given(k, e)
<1>1. DOMAIN call' = Calls
  BY DEF Contexts!Answer
<1>2. CallOK(g, registry) /\ g.pc \in {"idle", "resolved"}
  BY GivenFacts
<1>3. \A d \in Calls : call'[d] = call[d] \/ (call[d].pc = "checking" /\ call'[d] = g)
  BY DEF Contexts!Answer, Contexts!CheckedBy
<1> HIDE DEF g
<1> QED BY <1>1, <1>2, <1>3 DEF Missing

LEMMA ConfirmedStep ==
  ASSUME ContextInv, shut # "done", NEW k \in Keys, Contexts!Confirmed(k)
  PROVE  ContextInv'
<1> DEFINE e == [entry[k] EXCEPT !.age = 0, !.checking = FALSE]
<1>1. /\ entry[k] # None /\ since' = [since EXCEPT ![k] = 0]
      /\ entry' = [entry EXCEPT ![k].age = 0, ![k].checking = FALSE]
      /\ Contexts!Answer(k, entry[k])
      /\ UNCHANGED <<keys, accounts, registry, tail, revoked, shut>>
  BY DEF Contexts!Confirmed
<1>2. /\ ListsOK(keys, accounts, entry) /\ Cached(entry) /\ ServedOK(entry, registry)
      /\ EntriesOK(entry, revoked, since) /\ Registered(registry) /\ CallsOK(call, registry)
      /\ revoked \subseteq Keys /\ since \in [Keys -> 0..RecheckAfter]
      /\ shut \in {"no", "flushing", "done"}
  BY DEF ContextInv
<1>3. entry[k] \in Contexts!Entry /\ registry[entry[k].registry] # None
  BY <1>1, <1>2 DEF Cached, ServedOK, IsOpen
<1>4. /\ e \in Contexts!Entry /\ e # None /\ e.registry = entry[k].registry
      /\ e.invalidated = entry[k].invalidated /\ e.age = 0 /\ ~e.checking
  <2>1. 0 \in 0..RecheckAfter
    BY Assumed
  <2>2. /\ e \in Contexts!Entry /\ e.registry = entry[k].registry
        /\ e.invalidated = entry[k].invalidated /\ e.age = 0 /\ ~e.checking
    BY <1>3, <2>1 DEF Contexts!Entry
  <2> QED BY <2>2, Assumed
<1>5. entry' = [entry EXCEPT ![k] = e]
  BY <1>1
<1> HIDE DEF e
<1>6. /\ Cached(entry') /\ entry'[k] = e
      /\ \A j \in Keys : j # k => entry'[j] = entry[j]
  BY <1>2, <1>4, <1>5 DEF Cached
<1>7. \A j \in Keys : entry'[j] = None <=> entry[j] = None
  BY <1>1, <1>4, <1>6
<1>8. ListsOK(keys', accounts', entry')
  BY <1>1, <1>2, <1>7 DEF ListsOK
<1>9. /\ since' \in [Keys -> 0..RecheckAfter] /\ since'[k] = 0
      /\ \A j \in Keys : j # k => since'[j] = since[j]
  BY <1>1, <1>2, Assumed
<1>10. EntriesOK(entry', revoked', since')
  <2>1. ASSUME NEW j \in Keys, entry'[j] # None
        PROVE  entry'[j].invalidated = entry[j].invalidated /\ entry[j] # None
    BY <1>4, <1>6, <1>7, <2>1
  <2>2. ASSUME NEW j \in Keys, entry'[j] # None, ~entry'[j].invalidated, j \in revoked
        PROVE  since'[j] <= entry'[j].age
    <3>1. CASE j = k
      BY <1>4, <1>6, <1>9, <3>1
    <3>2. CASE j # k
      BY <1>2, <1>6, <1>9, <2>2, <3>2 DEF EntriesOK
    <3> QED BY <3>1, <3>2
  <2> QED BY <1>1, <1>2, <1>7, <2>1, <2>2 DEF EntriesOK
<1>11. ServedOK(entry', registry)
  BY <1>2, <1>4, <1>6, <1>7, ServedStays
<1>12. DOMAIN call' = Calls /\ \A d \in Calls :
         \/ call'[d] = call[d]
         \/ call[d].pc \notin Missing /\ call'[d].pc \notin Missing /\ CallOK(call'[d], registry)
  BY <1>1, <1>2, <1>3, AnswerAside
<1>13. Loses(registry, registry', call')
  BY <1>1, <1>2, NothingLost
<1>14. \A j \in Keys : entry[j] # None /\ entry[j].age = 0 =>
         /\ entry'[j] # None /\ entry'[j].age = 0
         /\ ~entry[j].invalidated /\ ~entry[j].checking => ~entry'[j].invalidated /\ ~entry'[j].checking
  BY <1>4, <1>6
<1>15. revoked' \subseteq Keys /\ shut' \in {"no", "flushing"} /\ UNCHANGED tail
  BY <1>1, <1>2
<1> QED BY <1>6, <1>7, <1>8, <1>9, <1>10, <1>11, <1>12, <1>13, <1>14, <1>15, AsideStep

\* A refused key that is not its account's only one is deleted.
LEMMA DeletedLists ==
  ASSUME ListsOK(keys, accounts, entry), NEW k \in Keys, entry[k] # None,
         Contexts!Deletable(k),
         keys' = [keys EXCEPT ![UserOf[k]] = Contexts!Without(@, k)],
         entry' = [entry EXCEPT ![k] = None], DOMAIN entry = Keys
  PROVE  /\ ListsOK(keys', accounts, entry')
         /\ \E j \in Keys \ {k} : entry[j] # None /\ UserOf[j] = UserOf[k]
<1> DEFINE u == UserOf[k]
           w == Contexts!Without(keys[u], k)
<1>1. /\ DOMAIN keys = Users
      /\ \A v \in Users : /\ Once(keys[v], Keys) /\ Len(keys[v]) <= KeysPerAccount
                          /\ Listed(keys[v]) = {j \in Keys : UserOf[j] = v /\ entry[j] # None}
      /\ Once(accounts, Users) /\ Listed(accounts) = {v \in Users : keys[v] # <<>>}
  BY DEF ListsOK
<1>2. u \in Users /\ k \in Listed(keys[u])
  BY <1>1, Assumed
<1>3. keys' = [keys EXCEPT ![u] = w] /\ Len(keys[u]) > 1
  BY DEF Contexts!Deletable
<1>4. Once(w, Keys) /\ Listed(w) = Listed(keys[u]) \ {k}
  BY <1>1, <1>2, WithoutFacts
<1> HIDE DEF w, u
<1>5. /\ IsFiniteSet(Listed(keys[u])) /\ Len(keys[u]) = Cardinality(Listed(keys[u]))
      /\ Len(w) = Cardinality(Listed(w)) /\ Len(keys[u]) \in Nat
  BY <1>1, <1>2, <1>4, OnceLength, OnceFacts
<1>6. Len(w) = Len(keys[u]) - 1
  BY <1>2, <1>4, <1>5, FS_RemoveElement
<1>7. w # <<>> /\ Len(w) <= KeysPerAccount /\ keys[u] # <<>>
  <2>1. Len(w) >= 1 /\ Len(w) <= KeysPerAccount
    BY <1>1, <1>2, <1>3, <1>5, <1>6, Assumed
  <2> QED BY <1>3, <2>1
<1>8. /\ DOMAIN keys' = Users /\ keys'[u] = w
      /\ \A v \in Users : v # u => keys'[v] = keys[v]
  BY <1>1, <1>2, <1>3
<1>9. \A j \in Keys : entry'[j] # None <=> entry[j] # None /\ j # k
  OBVIOUS
<1>10. ASSUME NEW v \in Users
       PROVE  /\ Once(keys'[v], Keys) /\ Len(keys'[v]) <= KeysPerAccount
              /\ Listed(keys'[v]) = {j \in Keys : UserOf[j] = v /\ entry'[j] # None}
              /\ keys'[v] # <<>> <=> keys[v] # <<>>
  <2>1. CASE v = u
    <3>1. Listed(w) = {j \in Keys : UserOf[j] = u /\ entry'[j] # None}
      BY <1>1, <1>2, <1>4, <1>9
    <3> QED BY <1>4, <1>7, <1>8, <2>1, <3>1
  <2>2. CASE v # u
    <3>1. {j \in Keys : UserOf[j] = v /\ entry'[j] # None}
            = {j \in Keys : UserOf[j] = v /\ entry[j] # None}
      BY <1>9, <2>2 DEF u
    <3> QED BY <1>1, <1>8, <2>2, <3>1
  <2> QED BY <2>1, <2>2
<1>11. Listed(accounts) = {v \in Users : keys'[v] # <<>>}
  BY <1>1, <1>10
<1>12. ListsOK(keys', accounts, entry')
  BY <1>1, <1>8, <1>10, <1>11 DEF ListsOK
<1>13. \E j \in Keys \ {k} : entry[j] # None /\ UserOf[j] = u
  <2>1. Listed(w) # {}
    BY <1>4, <1>7, EmptyOrNot
  <2>2. PICK j \in Listed(keys[u]) : j # k
    BY <1>4, <2>1
  <2> QED BY <1>1, <1>2, <2>2
<1> QED BY <1>12, <1>13 DEF u

LEMMA RefusedStep ==
  ASSUME ContextInv, shut # "done", NEW k \in Keys, Contexts!Refused(k)
  PROVE  ContextInv'
<1> DEFINE e == [entry[k] EXCEPT !.age = 0, !.checking = FALSE, !.invalidated = TRUE]
<1>1. /\ entry[k] # None /\ entry[k].checking /\ k \in revoked
      /\ Contexts!Answer(k, e)
      /\ IF Contexts!Deletable(k)
         THEN /\ keys' = [keys EXCEPT ![UserOf[k]] = Contexts!Without(@, k)]
              /\ entry' = [entry EXCEPT ![k] = None]
         ELSE entry' = [entry EXCEPT ![k] = e] /\ UNCHANGED keys
      /\ UNCHANGED <<accounts, registry, tail, revoked, since, shut>>
  BY DEF Contexts!Refused
<1>2. /\ ListsOK(keys, accounts, entry) /\ Cached(entry) /\ ServedOK(entry, registry)
      /\ EntriesOK(entry, revoked, since) /\ Registered(registry) /\ CallsOK(call, registry)
      /\ revoked \subseteq Keys /\ since \in [Keys -> 0..RecheckAfter]
      /\ shut \in {"no", "flushing", "done"}
  BY DEF ContextInv
<1>3. entry[k] \in Contexts!Entry /\ registry[entry[k].registry] # None
  BY <1>1, <1>2 DEF Cached, ServedOK, IsOpen
<1>4. /\ e \in Contexts!Entry /\ e # None /\ e.registry = entry[k].registry
      /\ e.invalidated /\ e.age = 0
  <2>1. 0 \in 0..RecheckAfter
    BY Assumed
  <2>2. /\ e \in Contexts!Entry /\ e.registry = entry[k].registry /\ e.invalidated /\ e.age = 0
    BY <1>3, <2>1 DEF Contexts!Entry
  <2> QED BY <2>2, Assumed
<1> HIDE DEF e
<1>5. DOMAIN call' = Calls /\ \A d \in Calls :
         \/ call'[d] = call[d]
         \/ call[d].pc \notin Missing /\ call'[d].pc \notin Missing /\ CallOK(call'[d], registry)
  BY <1>1, <1>2, <1>3, <1>4, AnswerAside
<1>6. Loses(registry, registry', call')
  BY <1>1, <1>2, NothingLost
<1>7. /\ DOMAIN entry = Keys
      /\ \A j \in Keys : j # k => entry'[j] = entry[j]
      /\ entry'[k] = IF Contexts!Deletable(k) THEN None ELSE e
  BY <1>1, <1>2 DEF Cached
<1>8. /\ Cached(entry')
      /\ \A j \in Keys : entry'[j] # None => entry[j] # None
      /\ \A j \in Keys : entry[j] # None /\ entry[j].age = 0 =>
           /\ entry'[j] # None => entry'[j].age = 0
           /\ ~entry[j].invalidated /\ ~entry[j].checking =>
                entry'[j] # None /\ ~entry'[j].invalidated /\ ~entry'[j].checking
  <2>1. Cached(entry')
    BY <1>1, <1>2, <1>4, <1>7 DEF Cached
  <2> QED BY <1>1, <1>4, <1>7, <2>1
<1>9. CASE Contexts!Deletable(k)
  <2>1. /\ ListsOK(keys', accounts, entry')
        /\ \E j \in Keys \ {k} : entry[j] # None /\ UserOf[j] = UserOf[k]
    BY <1>1, <1>2, <1>7, <1>9, DeletedLists
  <2>2. PICK j \in Keys \ {k} : entry[j] # None /\ UserOf[j] = UserOf[k]
    BY <2>1
  <2>3. EntriesOK(entry', revoked', since')
    BY <1>1, <1>2, <1>7, <1>9 DEF EntriesOK
  <2>4. entry[j].registry = entry[k].registry
    <3>1. entry[j].registry \in Contexts!Registries /\ entry[k].registry \in Contexts!Registries
      BY <1>2, <1>3, <2>2 DEF Cached, Contexts!Entry
    <3> QED BY <1>1, <1>2, <2>2, <3>1 DEF ServedOK
  <2>5. ServedOK(entry', registry)
    <3>1. \A i \in Keys : entry'[i] # None => i # k /\ entry'[i] = entry[i]
      BY <1>7, <1>9
    <3>2. \A i \in Keys : entry[i] # None =>
            \E h \in Keys : entry'[h] # None /\ entry'[h].registry = entry[i].registry
      BY <1>7, <2>2, <2>4
    <3> QED BY <1>2, <3>1, <3>2 DEF ServedOK
  <2>6. ListsOK(keys', accounts', entry')
    BY <1>1, <2>1
  <2>7. revoked' \subseteq Keys /\ since' \in [Keys -> 0..RecheckAfter] /\ shut' \in {"no", "flushing"}
    BY <1>1, <1>2
  <2>8. UNCHANGED tail
    BY <1>1
  <2> QED BY <1>5, <1>6, <1>8, <2>3, <2>5, <2>6, <2>7, <2>8, AsideStep
<1>10. CASE ~Contexts!Deletable(k)
  <2>1. \A j \in Keys : entry'[j] = None <=> entry[j] = None
    BY <1>1, <1>4, <1>7, <1>10
  <2>2. ListsOK(keys', accounts', entry')
    BY <1>1, <1>2, <1>10, <2>1 DEF ListsOK
  <2>3. \A j \in Keys : entry[j] # None /\ UserOf[j] = UserOf[k] => j = k
    <3> DEFINE s == keys[UserOf[k]]
    <3>1. /\ UserOf[k] \in Users /\ Once(s, Keys)
          /\ Listed(s) = {j \in Keys : UserOf[j] = UserOf[k] /\ entry[j] # None}
      BY <1>2, Assumed DEF ListsOK
    <3>2. Len(s) \in Nat /\ ~(Len(s) > 1)
      BY <1>10, <3>1, OnceFacts DEF Contexts!Deletable
    <3> HIDE DEF s
    <3>3. \A i, j \in 1..Len(s) : i = j
      BY <3>2
    <3>4. \A x, y \in Listed(s) : x = y
      BY <3>3 DEF Listed
    <3> QED BY <1>1, <3>1, <3>4
  <2>4. EntriesOK(entry', revoked', since')
    <3> SUFFICES ASSUME NEW j \in Keys, entry'[j] # None
                 PROVE  /\ entry'[j].invalidated =>
                             j \in revoked /\ \A i \in Keys : entry[i] # None /\ UserOf[i] = UserOf[j] => i = j
                        /\ ~entry'[j].invalidated /\ j \in revoked => since[j] <= entry'[j].age
      BY <1>1, <2>1 DEF EntriesOK
    <3>1. CASE j = k
      BY <1>1, <1>4, <1>7, <1>10, <2>3, <3>1
    <3>2. CASE j # k
      BY <1>2, <1>7, <3>2 DEF EntriesOK
    <3> QED BY <3>1, <3>2
  <2>5. ServedOK(entry', registry)
    BY <1>2, <1>4, <1>7, <1>10, <2>1, ServedStays
  <2>6. revoked' \subseteq Keys /\ since' \in [Keys -> 0..RecheckAfter] /\ shut' \in {"no", "flushing"}
    BY <1>1, <1>2
  <2>7. UNCHANGED tail
    BY <1>1
  <2> QED BY <1>5, <1>6, <1>8, <2>2, <2>4, <2>5, <2>6, <2>7, AsideStep
<1> QED BY <1>9, <1>10

LEMMA LateStep ==
  ASSUME ContextInv, shut # "done", NEW c \in Calls, Contexts!RefusedLate(c)
  PROVE  ContextInv'
<1>1. /\ call[c].pc = "retired" /\ call' = [call EXCEPT ![c] = Contexts!Idle]
      /\ UNCHANGED <<keys, accounts, entry, registry, tail, revoked, since, shut>>
  BY DEF Contexts!RefusedLate
<1>2. ListsOK(keys, accounts, entry) /\ Registered(registry) /\ DOMAIN call = Calls
  BY DEF ContextInv, CallsOK
<1>3. CallOK(Contexts!Idle, registry) /\ Contexts!Idle.pc = "idle"
  BY DEF CallOK, Contexts!Idle, Contexts!Call
<1>4. DOMAIN call' = Calls /\ \A d \in Calls :
        \/ call'[d] = call[d]
        \/ call[d].pc \notin Missing /\ call'[d].pc \notin Missing /\ CallOK(call'[d], registry)
  BY <1>1, <1>2, <1>3 DEF Missing
<1>5. Loses(registry, registry', call') /\ ListsOK(keys', accounts', entry)
  BY <1>1, <1>2, NothingLost
<1> QED BY <1>1, <1>4, <1>5, CallStep

LEMMA SearchStep ==
  ASSUME ContextInv, shut # "done", NEW c \in Calls, Contexts!StartSearch(c)
  PROVE  ContextInv'
<1> DEFINE x == [call[c] EXCEPT !.pc = "searching"]
<1>1. /\ call[c].pc = "resolved" /\ call' = [call EXCEPT ![c] = x]
      /\ UNCHANGED <<keys, accounts, entry, registry, tail, revoked, since, shut>>
  BY DEF Contexts!StartSearch
<1>2. /\ ListsOK(keys, accounts, entry) /\ Registered(registry) /\ DOMAIN call = Calls
      /\ CallOK(call[c], registry)
  BY DEF ContextInv, CallsOK
<1>3. CallOK(x, registry) /\ x.pc = "searching"
  <2>1. call[c] \in Contexts!Call
    BY <1>2 DEF CallOK
  <2>2. /\ x \in Contexts!Call /\ x.pc = "searching"
        /\ x.key = call[c].key /\ x.registry = call[c].registry
    BY <2>1 DEF Contexts!Call
  <2> HIDE DEF x
  <2> QED BY <1>1, <1>2, <2>2 DEF CallOK
<1> HIDE DEF x
<1>4. DOMAIN call' = Calls /\ \A d \in Calls :
        \/ call'[d] = call[d]
        \/ call[d].pc \notin Missing /\ call'[d].pc \notin Missing /\ CallOK(call'[d], registry)
  BY <1>1, <1>2, <1>3 DEF Missing
<1>5. Loses(registry, registry', call') /\ ListsOK(keys', accounts', entry)
  BY <1>1, <1>2, NothingLost
<1> QED BY <1>1, <1>4, <1>5, CallStep

\* A call that is done gives its registry up, perhaps as the last.
LEMMA DoneStep ==
  ASSUME ContextInv, shut # "done", NEW c \in Calls, call[c].pc \in {"resolved", "searching"},
         NEW rs, Registered(rs),
         \A r \in Contexts!Registries :
           /\ rs[r] = None <=> registry[r] = None
           /\ registry[r] # None => rs[r].state = registry[r].state /\ rs[r].user = registry[r].user,
         call' = [call EXCEPT ![c] = Contexts!Idle],
         registry' = Contexts!Collected(rs, call'),
         UNCHANGED <<keys, accounts, entry, tail, revoked, since, shut>>
  PROVE  ContextInv'
<1>1. ListsOK(keys, accounts, entry) /\ Registered(registry) /\ DOMAIN call = Calls
  BY DEF ContextInv, CallsOK
<1>2. CallOK(Contexts!Idle, registry) /\ Contexts!Idle.pc = "idle"
  BY DEF CallOK, Contexts!Idle, Contexts!Call
<1>3. DOMAIN call' = Calls /\ \A d \in Calls :
        \/ call'[d] = call[d]
        \/ call[d].pc \notin Missing /\ call'[d].pc \notin Missing /\ CallOK(call'[d], registry)
  BY <1>1, <1>2 DEF Missing
<1>4. Loses(rs, registry', call')
  BY CollectedLoses
<1>5. Loses(registry, registry', call')
  BY <1>1, <1>4 DEF Loses
<1>6. ListsOK(keys', accounts', entry)
  BY <1>1
<1> QED BY <1>3, <1>5, <1>6, CallStep

\* A build of the index begins in a registry, or ends.
LEMMA BuildingFlag ==
  ASSUME Registered(registry), NEW r \in Contexts!Registries, registry[r] # None,
         NEW b \in BOOLEAN
  PROVE  LET rs == [registry EXCEPT ![r].building = b] IN
         /\ Registered(rs)
         /\ \A q \in Contexts!Registries :
              /\ rs[q] = None <=> registry[q] = None
              /\ registry[q] # None => rs[q].state = registry[q].state /\ rs[q].user = registry[q].user
<1> DEFINE x == [registry[r] EXCEPT !.building = b]
           rs == [registry EXCEPT ![r].building = b]
<1>1. /\ x \in Contexts!Registry /\ x.state = registry[r].state /\ x.user = registry[r].user
  BY DEF Registered, Contexts!Registry
<1>2. x # None
  BY <1>1, Assumed
<1>3. rs = [registry EXCEPT ![r] = x]
  OBVIOUS
<1> HIDE DEF x, rs
<1>4. DOMAIN registry = Contexts!Registries
  BY DEF Registered
<1>5. rs[r] = x /\ \A q \in Contexts!Registries : q # r => rs[q] = registry[q]
  BY <1>3, <1>4
<1>6. Registered(rs)
  BY <1>1, <1>3 DEF Registered
<1>7. \A q \in Contexts!Registries :
        /\ rs[q] = None <=> registry[q] = None
        /\ registry[q] # None => rs[q].state = registry[q].state /\ rs[q].user = registry[q].user
  BY <1>1, <1>2, <1>5
<1> QED BY <1>6, <1>7 DEF rs

LEMMA EndStep ==
  ASSUME ContextInv, shut # "done", NEW c \in Calls,
         Contexts!StartBuild(c) \/ Contexts!Ends(c)
  PROVE  ContextInv'
<1>1. Registered(registry) /\ CallOK(call[c], registry)
  BY DEF ContextInv, CallsOK
<1>2. CASE Contexts!StartBuild(c)
  <2> DEFINE r == call[c].registry
             b == registry[r].state = "open"
             rs == [registry EXCEPT ![r].building = b]
  <2>1. /\ call[c].pc = "resolved" /\ call' = [call EXCEPT ![c] = Contexts!Idle]
        /\ registry' = Contexts!Collected(rs, call')
        /\ UNCHANGED <<keys, accounts, entry, tail, revoked, since, shut>>
    BY <1>2 DEF Contexts!StartBuild
  <2>2. r \in Contexts!Registries /\ registry[r] # None /\ b \in BOOLEAN
    BY <1>1, <2>1, CallRegistry DEF CallOK
  <2> HIDE DEF r, b
  <2>3. /\ Registered(rs)
        /\ \A q \in Contexts!Registries :
             /\ rs[q] = None <=> registry[q] = None
             /\ registry[q] # None => rs[q].state = registry[q].state /\ rs[q].user = registry[q].user
    BY <1>1, <2>2, BuildingFlag
  <2> HIDE DEF rs
  <2> QED BY <2>1, <2>3, DoneStep
<1>3. CASE Contexts!Ends(c)
  <2>1. /\ call[c].pc \in {"resolved", "searching"} /\ call' = [call EXCEPT ![c] = Contexts!Idle]
        /\ registry' = Contexts!Collected(registry, call')
        /\ UNCHANGED <<keys, accounts, entry, tail, revoked, since, shut>>
    BY <1>3 DEF Contexts!Ends
  <2> QED BY <1>1, <2>1, DoneStep
<1> QED BY <1>2, <1>3

LEMMA BuildEndStep ==
  ASSUME ContextInv, shut # "done", NEW r \in Contexts!Registries, Contexts!BuildEnds(r)
  PROVE  ContextInv'
<1>1. /\ registry[r] # None /\ registry' = [registry EXCEPT ![r].building = FALSE]
      /\ UNCHANGED <<keys, accounts, entry, call, tail, revoked, since, shut>>
  BY DEF Contexts!BuildEnds
<1>2. ListsOK(keys, accounts, entry) /\ Registered(registry) /\ DOMAIN call = Calls
  BY DEF ContextInv, CallsOK
<1>3. /\ Registered(registry')
      /\ \A q \in Contexts!Registries :
           /\ registry'[q] = None <=> registry[q] = None
           /\ registry[q] # None =>
                registry'[q].state = registry[q].state /\ registry'[q].user = registry[q].user
  BY <1>1, <1>2, BuildingFlag
<1>4. Loses(registry, registry', call')
  BY <1>2, <1>3 DEF Loses
<1>5. ListsOK(keys', accounts', entry) /\ DOMAIN call' = Calls /\ \A d \in Calls : call'[d] = call[d]
  BY <1>1, <1>2
<1> QED BY <1>1, <1>4, <1>5, CallStep

\* The clock stands while a context is being settled.
LEMMA TickStep ==
  ASSUME ContextInv, shut # "done", Contexts!Tick
  PROVE  ContextInv'
<1> DEFINE older(k) == [entry[k] EXCEPT !.age = @ + 1]
           ages(k) == entry[k] # None /\ entry[k].age < RecheckAfter /\ ~entry[k].invalidated
<1>1. /\ tail = <<>> /\ entry' = [k \in Keys |-> IF ages(k) THEN older(k) ELSE entry[k]]
      /\ since' = [k \in Keys |-> IF k \in revoked /\ since[k] < RecheckAfter
                                  THEN since[k] + 1 ELSE since[k]]
      /\ UNCHANGED <<keys, accounts, registry, call, tail, revoked, shut>>
  BY DEF Contexts!Tick
<1>2. /\ ListsOK(keys, accounts, entry) /\ Cached(entry) /\ ServedOK(entry, registry)
      /\ EntriesOK(entry, revoked, since) /\ Registered(registry) /\ DOMAIN call = Calls
      /\ revoked \subseteq Keys /\ since \in [Keys -> 0..RecheckAfter]
      /\ shut \in {"no", "flushing", "done"}
  BY DEF ContextInv, CallsOK
<1>3. ASSUME NEW k \in Keys, entry[k] # None
      PROVE  /\ entry'[k] \in Contexts!Entry
             /\ entry'[k].registry = entry[k].registry
             /\ entry'[k].invalidated = entry[k].invalidated
             /\ ~entry[k].invalidated => IF entry[k].age < RecheckAfter
                  THEN entry'[k].age = entry[k].age + 1 ELSE entry'[k].age = RecheckAfter
  <2>1. entry[k] \in Contexts!Entry /\ entry[k].age \in 0..RecheckAfter
    BY <1>2, <1>3 DEF Cached, Contexts!Entry
  <2>2. CASE ages(k)
    <3>1. entry[k].age + 1 \in 0..RecheckAfter
      BY <2>1, <2>2, Assumed
    <3>2. /\ older(k) \in Contexts!Entry /\ older(k).age = entry[k].age + 1
          /\ older(k).registry = entry[k].registry /\ older(k).invalidated = entry[k].invalidated
      BY <2>1, <3>1 DEF Contexts!Entry
    <3>3. entry'[k] = older(k)
      BY <1>1, <2>2
    <3> QED BY <2>2, <3>2, <3>3
  <2>3. CASE ~ages(k)
    <3>1. entry'[k] = entry[k]
      BY <1>1, <2>3
    <3> QED BY <1>3, <2>1, <2>3, <3>1, Assumed
  <2> QED BY <2>2, <2>3
<1>4. \A k \in Keys : entry[k] = None => entry'[k] = None
  BY <1>1
<1> HIDE DEF older, ages
<1>5. /\ Cached(entry')
      /\ \A j \in Keys : entry'[j] = None <=> entry[j] = None
  BY <1>1, <1>3, <1>4, Assumed DEF Cached
<1>6. ListsOK(keys', accounts', entry')
  BY <1>1, <1>2, <1>5 DEF ListsOK
<1>7. ServedOK(entry', registry)
  BY <1>2, <1>3, <1>5, ServedStays
<1>8. /\ since' \in [Keys -> 0..RecheckAfter]
      /\ \A k \in Keys : since'[k] <= RecheckAfter /\ since'[k] <= since[k] + 1
  <2>1. ASSUME NEW k \in Keys
        PROVE  /\ since'[k] \in 0..RecheckAfter /\ since'[k] <= RecheckAfter
               /\ since'[k] <= since[k] + 1
    <3>1. since[k] \in 0..RecheckAfter
      BY <1>2
    <3>2. since'[k] = IF k \in revoked /\ since[k] < RecheckAfter THEN since[k] + 1 ELSE since[k]
      BY <1>1
    <3> QED BY <3>1, <3>2, Assumed
  <2> QED BY <1>1, <2>1
<1>9. EntriesOK(entry', revoked', since')
  <2> SUFFICES ASSUME NEW k \in Keys, entry'[k] # None
               PROVE  /\ entry'[k].invalidated =>
                           k \in revoked /\ \A j \in Keys : entry[j] # None /\ UserOf[j] = UserOf[k] => j = k
                      /\ ~entry'[k].invalidated /\ k \in revoked => since'[k] <= entry'[k].age
    BY <1>1, <1>5 DEF EntriesOK
  <2>1. entry[k] # None
    BY <1>5
  <2>2. entry'[k].invalidated = entry[k].invalidated
    BY <1>3, <2>1
  <2>3. ASSUME ~entry'[k].invalidated, k \in revoked
        PROVE  since'[k] <= entry'[k].age
    <3>1. since[k] <= entry[k].age /\ entry[k].age \in Int /\ since[k] \in Int /\ since'[k] \in Int
      <4>1. entry[k].age \in 0..RecheckAfter
        BY <1>2, <2>1 DEF Cached, Contexts!Entry
      <4>2. since[k] \in 0..RecheckAfter /\ since'[k] \in 0..RecheckAfter
        BY <1>2, <1>8
      <4> QED BY <1>2, <2>1, <2>2, <2>3, <4>1, <4>2, Assumed DEF EntriesOK
    <3>2. IF entry[k].age < RecheckAfter
          THEN entry'[k].age = entry[k].age + 1 ELSE entry'[k].age = RecheckAfter
      BY <1>3, <2>1, <2>2, <2>3
    <3>3. since'[k] <= RecheckAfter /\ since'[k] <= since[k] + 1
      BY <1>8
    <3> QED BY <3>1, <3>2, <3>3, Assumed
  <2> QED BY <1>2, <2>1, <2>2, <2>3 DEF EntriesOK
<1>10. Loses(registry, registry', call')
  BY <1>1, <1>2, NothingLost
<1>11. /\ revoked' \subseteq Keys /\ shut' \in {"no", "flushing"} /\ UNCHANGED tail
       /\ tail = <<>> /\ DOMAIN call' = Calls /\ \A d \in Calls : call'[d] = call[d]
  BY <1>1, <1>2
<1> QED BY <1>5, <1>6, <1>7, <1>8, <1>9, <1>10, <1>11, AsideStep

LEMMA RevokeStep ==
  ASSUME ContextInv, shut # "done", NEW k \in Keys, Contexts!Revoke(k)
  PROVE  ContextInv'
<1>1. /\ revoked' = revoked \cup {k} /\ since' = [since EXCEPT ![k] = 0]
      /\ UNCHANGED <<keys, accounts, entry, registry, call, tail, shut>>
  BY DEF Contexts!Revoke
<1>2. /\ ListsOK(keys, accounts, entry) /\ Cached(entry) /\ ServedOK(entry, registry)
      /\ EntriesOK(entry, revoked, since) /\ Registered(registry) /\ DOMAIN call = Calls
      /\ revoked \subseteq Keys /\ since \in [Keys -> 0..RecheckAfter]
      /\ shut \in {"no", "flushing", "done"}
  BY DEF ContextInv, CallsOK
<1>3. /\ since' \in [Keys -> 0..RecheckAfter] /\ since'[k] = 0
      /\ \A j \in Keys : j # k => since'[j] = since[j]
  BY <1>1, <1>2, Assumed
<1>4. EntriesOK(entry', revoked', since')
  <2> SUFFICES ASSUME NEW j \in Keys, entry[j] # None
               PROVE  /\ entry[j].invalidated =>
                           j \in revoked' /\ \A i \in Keys : entry[i] # None /\ UserOf[i] = UserOf[j] => i = j
                      /\ ~entry[j].invalidated /\ j \in revoked' => since'[j] <= entry[j].age
    BY <1>1 DEF EntriesOK
  <2>1. entry[j].age \in 0..RecheckAfter
    BY <1>2 DEF Cached, Contexts!Entry
  <2>2. CASE j = k
    <3>1. 0 <= entry[j].age
      BY <2>1, Assumed
    <3> QED BY <1>1, <1>2, <1>3, <2>2, <3>1 DEF EntriesOK
  <2>3. CASE j # k
    BY <1>1, <1>2, <1>3, <2>3 DEF EntriesOK
  <2> QED BY <2>2, <2>3
<1>5. Loses(registry, registry', call')
  BY <1>1, <1>2, NothingLost
<1>6. /\ revoked' \subseteq Keys /\ shut' \in {"no", "flushing"} /\ UNCHANGED tail
      /\ DOMAIN call' = Calls /\ \A d \in Calls : call'[d] = call[d]
      /\ Cached(entry') /\ ListsOK(keys', accounts', entry') /\ ServedOK(entry', registry)
      /\ UNCHANGED entry
  BY <1>1, <1>2
<1> QED BY <1>3, <1>4, <1>5, <1>6, AsideStep

LEMMA FlushStep ==
  ASSUME ContextInv, shut # "done", Contexts!Flush
  PROVE  ContextInv'
<1>1. /\ shut' = "flushing"
      /\ UNCHANGED <<keys, accounts, entry, registry, call, tail, revoked, since>>
  BY DEF Contexts!Flush
<1>2. Registered(registry)
  BY DEF ContextInv
<1>3. /\ DOMAIN call' = Calls /\ \A d \in Calls : call'[d] = call[d]
      /\ Cached(entry') /\ ListsOK(keys', accounts', entry') /\ ServedOK(entry', registry)
      /\ revoked' \subseteq Keys /\ since' \in [Keys -> 0..RecheckAfter]
      /\ EntriesOK(entry', revoked', since') /\ UNCHANGED <<entry, tail>>
      /\ shut' \in {"no", "flushing"}
  BY <1>1 DEF ContextInv, CallsOK
<1>4. Loses(registry, registry', call')
  BY <1>1, <1>2, NothingLost
<1> QED BY <1>3, <1>4, AsideStep

LEMMA MissStep ==
  ASSUME ContextInv, shut # "done", NEW c \in Calls, NEW k \in Keys, Contexts!ResolveMiss(c, k)
  PROVE  ContextInv'
<1> DEFINE x == [Contexts!Idle EXCEPT !.pc = "queued", !.key = k]
<1>1. /\ call[c] = Contexts!Idle /\ entry[k] = None /\ call' = [call EXCEPT ![c] = x]
      /\ tail' = Append(tail, c)
      /\ UNCHANGED <<keys, accounts, entry, registry, revoked, since, shut>>
  BY DEF Contexts!ResolveMiss, Contexts!Asks
<1>2. /\ CallsOK(call, registry) /\ TailOK(tail, call)
      /\ MissOK(call, entry, registry) /\ ClosingOK(call, registry)
  BY DEF ContextInv
<1>3. /\ CallOK(x, registry) /\ x.pc = "queued" /\ x.key = k /\ call[c].pc = "idle"
  <2>1. Contexts!Idle \in Contexts!Call /\ Contexts!Idle.registry = None /\ Contexts!Idle.pc = "idle"
    BY DEF Contexts!Idle, Contexts!Call
  <2>2. x.pc = "queued" /\ x.key = k /\ x.registry = None /\ x \in Contexts!Call
    BY <2>1 DEF Contexts!Call
  <2> HIDE DEF x
  <2> QED BY <1>1, <2>1, <2>2 DEF CallOK
<1> HIDE DEF x
<1>4. /\ DOMAIN call' = Calls /\ call'[c] = x
      /\ \A d \in Calls : d # c => call'[d] = call[d]
  BY <1>1, <1>2 DEF CallsOK
<1>5. CallsOK(call', registry)
  BY <1>2, <1>3, <1>4 DEF CallsOK
<1>6. TailOK(tail', call')
  <2>1. Once(tail, Calls) /\ Listed(tail) = {d \in Calls : call[d].pc \in Missing}
    BY <1>2 DEF TailOK
  <2>2. c \notin Listed(tail)
    BY <1>3, <2>1 DEF Missing
  <2>3. /\ Once(tail', Calls) /\ Listed(tail') = Listed(tail) \cup {c} /\ tail' # <<>>
        /\ tail # <<>> => Head(tail') = Head(tail)
    BY <1>1, <2>1, <2>2, AppendFacts
  <2>4. Listed(tail') = {d \in Calls : call'[d].pc \in Missing}
    BY <1>3, <1>4, <2>1, <2>3 DEF Missing
  <2>5. \A d \in Calls : call'[d].pc \in {"building", "evicting"} => tail' # <<>> /\ d = Head(tail')
    BY <1>2, <1>3, <1>4, <2>3 DEF TailOK
  <2> QED BY <2>3, <2>4, <2>5 DEF TailOK
<1>7. MissOK(call', entry, registry)
  <2> SUFFICES ASSUME NEW d \in Calls, d = c
               PROVE  call'[d].pc = "queued" /\ entry[call'[d].key] = None
    BY <1>2, <1>4 DEF MissOK
  <2> QED BY <1>1, <1>3, <1>4
<1>8. ClosingOK(call', registry)
  <2>1. \A d \in Calls : call[d].pc = "evicting" => call'[d] = call[d]
    BY <1>3, <1>4
  <2> QED BY <1>2, <2>1 DEF ClosingOK
<1> QED BY <1>1, <1>5, <1>6, <1>7, <1>8 DEF ContextInv

\* The first miss is settled without a context being added.
LEMMA FirstLeaves ==
  ASSUME CallsOK(call, registry), TailOK(tail, call), MissOK(call, entry, registry),
         ClosingOK(call, registry), NEW c \in Calls,
         call[c].pc \in {"queued", "building"}, tail # <<>>, c = Head(tail),
         NEW x, CallOK(x, registry), x.pc \notin Missing,
         call' = [call EXCEPT ![c] = x], tail' = Contexts!Without(tail, c)
  PROVE  /\ CallsOK(call', registry) /\ TailOK(tail', call')
         /\ MissOK(call', entry, registry) /\ ClosingOK(call', registry)
<1>1. /\ DOMAIN call' = Calls /\ call'[c] = x
      /\ \A d \in Calls : d # c => call'[d] = call[d]
  BY DEF CallsOK
<1>2. CallsOK(call', registry)
  BY <1>1 DEF CallsOK
<1>3. TailOK(tail', call')
  <2>1. Once(tail, Calls) /\ Listed(tail) = {d \in Calls : call[d].pc \in Missing}
    BY DEF TailOK
  <2>2. Once(tail', Calls) /\ Listed(tail') = Listed(tail) \ {c}
    BY <2>1, WithoutFacts
  <2>3. Listed(tail') = {d \in Calls : call'[d].pc \in Missing}
    BY <1>1, <2>1, <2>2
  <2>4. \A d \in Calls : call'[d].pc \notin {"building", "evicting"}
    BY <1>1 DEF TailOK, Missing
  <2> QED BY <2>2, <2>3, <2>4 DEF TailOK
<1>4. MissOK(call', entry, registry)
  <2>1. \A d \in Calls : call'[d].pc \in Missing => call'[d] = call[d]
    BY <1>1
  <2> QED BY <2>1 DEF MissOK, Missing
<1>5. ClosingOK(call', registry)
  <2>1. \A d \in Calls : call[d].pc = "evicting" => call'[d] = call[d]
    BY <1>1
  <2> QED BY <2>1 DEF ClosingOK
<1> QED BY <1>2, <1>3, <1>4, <1>5

LEMMA MissHitStep ==
  ASSUME ContextInv, shut # "done", NEW c \in Calls, Contexts!MissHits(c)
  PROVE  ContextInv'
<1> DEFINE k == call[c].key
           g == Contexts!Given(k, entry[k])
<1>1. /\ tail # <<>> /\ c = Head(tail) /\ call[c].pc = "queued" /\ entry[k] # None
      /\ Contexts!Hit(k) /\ tail' = Contexts!Without(tail, c)
      /\ UNCHANGED <<entry, registry, revoked, since, shut>>
  BY DEF Contexts!MissHits, Contexts!Turn
<1>2. call' = [call EXCEPT ![c] = g]
  BY DEF Contexts!MissHits
<1>3. /\ ListsOK(keys, accounts, entry) /\ Cached(entry) /\ ServedOK(entry, registry)
      /\ CallsOK(call, registry) /\ TailOK(tail, call)
      /\ MissOK(call, entry, registry) /\ ClosingOK(call, registry)
  BY DEF ContextInv
<1>4. k \in Keys
  BY <1>1, <1>3, CallRegistry DEF CallsOK
<1>5. entry[k] \in Contexts!Entry /\ registry[entry[k].registry] # None
  BY <1>1, <1>3, <1>4 DEF Cached, ServedOK, IsOpen
<1>6. CallOK(g, registry) /\ g.pc \notin Missing
  <2>1. CallOK(g, registry) /\ g.pc \in {"idle", "resolved"}
    BY <1>4, <1>5, GivenFacts
  <2> QED BY <2>1 DEF Missing
<1> HIDE DEF g, k
<1>7. /\ CallsOK(call', registry) /\ TailOK(tail', call')
      /\ MissOK(call', entry, registry) /\ ClosingOK(call', registry)
  BY <1>1, <1>2, <1>3, <1>6, FirstLeaves
<1>8. ListsOK(keys', accounts', entry)
  BY <1>1, <1>3, <1>4, HitKeeps
<1> QED BY <1>1, <1>7, <1>8 DEF ContextInv

LEMMA BuildFailsStep ==
  ASSUME ContextInv, shut # "done", NEW c \in Calls, Contexts!BuildFails(c)
  PROVE  ContextInv'
<1>1. /\ call[c].pc = "building" /\ call' = [call EXCEPT ![c] = Contexts!Idle]
      /\ tail' = Contexts!Without(tail, c)
      /\ UNCHANGED <<keys, accounts, entry, registry, revoked, since, shut>>
  BY DEF Contexts!BuildFails, Contexts!Settled
<1>2. /\ CallsOK(call, registry) /\ TailOK(tail, call)
      /\ MissOK(call, entry, registry) /\ ClosingOK(call, registry)
  BY DEF ContextInv
<1>3. tail # <<>> /\ c = Head(tail)
  BY <1>1, <1>2 DEF TailOK
<1>4. CallOK(Contexts!Idle, registry) /\ Contexts!Idle.pc \notin Missing
  BY DEF CallOK, Contexts!Idle, Contexts!Call, Missing
<1>5. /\ CallsOK(call', registry) /\ TailOK(tail', call')
      /\ MissOK(call', entry, registry) /\ ClosingOK(call', registry)
  BY <1>1, <1>2, <1>3, <1>4, FirstLeaves
<1> QED BY <1>1, <1>5 DEF ContextInv

\* A context begins to be built with the indexes of its account, if there are any.
LEMMA BuildStep ==
  ASSUME ContextInv, shut # "done", NEW c \in Calls, Contexts!Build(c)
  PROVE  ContextInv'
<1> DEFINE k == call[c].key
           u == UserOf[k]
           r == Contexts!Sibling(k)
           x == [call[c] EXCEPT !.pc = "building", !.registry = r]
<1>1. /\ tail # <<>> /\ c = Head(tail) /\ call[c].pc = "queued" /\ entry[k] = None
      /\ UNCHANGED <<keys, accounts, entry, registry, tail, revoked, since, shut>>
  BY DEF Contexts!Build, Contexts!Turn
<1>2. call' = [call EXCEPT ![c] = x]
  BY DEF Contexts!Build
<1>3. /\ ListsOK(keys, accounts, entry) /\ Cached(entry) /\ ServedOK(entry, registry)
      /\ CallsOK(call, registry) /\ TailOK(tail, call)
      /\ MissOK(call, entry, registry) /\ ClosingOK(call, registry)
  BY DEF ContextInv
<1>4. CallOK(call[c], registry) /\ k \in Keys /\ u \in Users
  BY <1>1, <1>3, CallRegistry, Assumed DEF CallsOK
<1>5. IF r = None THEN \A j \in Keys : UserOf[j] = u => entry[j] = None
      ELSE r \in Contexts!Registries /\ IsOpen(registry, r) /\ registry[r].user = u
  <2>1. Once(keys[u], Keys) /\ Listed(keys[u]) = {j \in Keys : UserOf[j] = u /\ entry[j] # None}
    BY <1>3, <1>4 DEF ListsOK
  <2>2. CASE keys[u] = <<>>
    <3>1. r = None
      BY <2>2 DEF Contexts!Sibling
    <3>2. Listed(keys[u]) = {}
      BY <2>1, <2>2, EmptyOrNot
    <3> HIDE DEF r, u
    <3> QED BY <2>1, <3>1, <3>2
  <2>3. CASE keys[u] # <<>>
    <3> DEFINE h == Head(keys[u])
    <3>1. r = entry[h].registry
      BY <2>3 DEF Contexts!Sibling
    <3>2. h \in Keys /\ UserOf[h] = u /\ entry[h] # None
      BY <2>1, <2>3, EmptyOrNot
    <3> HIDE DEF r, u, h
    <3>3. entry[h].registry \in Contexts!Registries
      BY <1>3, <3>2 DEF Cached, Contexts!Entry
    <3> QED BY <1>3, <3>1, <3>2, <3>3, Assumed DEF ServedOK
  <2> QED BY <2>2, <2>3
<1> HIDE DEF r
<1>6. /\ CallOK(x, registry) /\ x.pc = "building" /\ x.key = k /\ x.registry = r
  <2>1. call[c] \in Contexts!Call /\ r \in Contexts!Registries \cup {None}
    BY <1>4, <1>5 DEF CallOK
  <2>2. /\ x \in Contexts!Call /\ x.pc = "building" /\ x.key = k /\ x.registry = r
    BY <2>1 DEF Contexts!Call
  <2> HIDE DEF x
  <2> QED BY <1>4, <1>5, <2>2 DEF CallOK, IsOpen
<1> HIDE DEF x
<1>7. /\ DOMAIN call' = Calls /\ call'[c] = x
      /\ \A d \in Calls : d # c => call'[d] = call[d]
  BY <1>2, <1>3 DEF CallsOK
<1>8. CallsOK(call', registry)
  BY <1>3, <1>6, <1>7 DEF CallsOK
<1>9. TailOK(tail, call')
  <2>1. \A d \in Calls : call'[d].pc \in Missing <=> call[d].pc \in Missing
    BY <1>1, <1>6, <1>7 DEF Missing
  <2>2. Once(tail, Calls) /\ Listed(tail) = {d \in Calls : call'[d].pc \in Missing}
    BY <1>3, <2>1 DEF TailOK
  <2>3. \A d \in Calls : call'[d].pc \in {"building", "evicting"} => tail # <<>> /\ d = Head(tail)
    BY <1>1, <1>3, <1>7 DEF TailOK
  <2> QED BY <2>2, <2>3 DEF TailOK
<1>10. MissOK(call', entry, registry)
  <2> SUFFICES ASSUME NEW d \in Calls, d = c
               PROVE  /\ call'[d].pc = "building" /\ entry[call'[d].key] = None
                      /\ IF call'[d].registry = None
                         THEN \A j \in Keys : UserOf[j] = UserOf[call'[d].key] => entry[j] = None
                         ELSE /\ IsOpen(registry, call'[d].registry)
                              /\ registry[call'[d].registry].user = UserOf[call'[d].key]
    BY <1>3, <1>7 DEF MissOK
  <2>1. call'[d] = x
    BY <1>7
  <2> QED BY <1>1, <1>5, <1>6, <2>1
<1>11. ClosingOK(call', registry)
  <2>1. \A d \in Calls : call[d].pc = "evicting" => call'[d] = call[d]
    BY <1>1, <1>7
  <2> QED BY <1>3, <2>1 DEF ClosingOK
<1> QED BY <1>1, <1>8, <1>9, <1>10, <1>11 DEF ContextInv

\* With no miss under way, what the accounts hold is all that is open.
LEMMA FlushIndexesStep ==
  ASSUME ContextInv, shut # "done", Contexts!FlushIndexes
  PROVE  ContextInv'
<1> DEFINE held == {entry[Head(keys[u])].registry : u \in Contexts!Elements(accounts)}
           x(r) == [registry[r] EXCEPT !.state = "closed", !.building = FALSE]
<1>1. /\ tail = <<>> /\ shut' = "done"
      /\ registry' = [r \in Contexts!Registries |-> IF r \in held THEN x(r) ELSE registry[r]]
      /\ UNCHANGED <<keys, accounts, entry, call, tail, revoked, since>>
  BY DEF Contexts!FlushIndexes, Contexts!MissesSettled
<1>2. /\ ListsOK(keys, accounts, entry) /\ Cached(entry) /\ ServedOK(entry, registry)
      /\ Registered(registry) /\ CallsOK(call, registry) /\ TailOK(tail, call)
      /\ MissOK(call, entry, registry) /\ ClosingOK(call, registry)
  BY DEF ContextInv
<1>3. /\ Once(accounts, Users) /\ Listed(accounts) = {u \in Users : keys[u] # <<>>}
      /\ Contexts!Elements(accounts) = Listed(accounts)
  BY <1>2, OnceFacts DEF ListsOK
<1>4. \A u \in Listed(accounts) :
        LET q == entry[Head(keys[u])].registry IN
        q \in Contexts!Registries /\ IsOpen(registry, q) /\ registry[q].user = u
  <2> SUFFICES ASSUME NEW u \in Listed(accounts)
               PROVE  LET q == entry[Head(keys[u])].registry IN
                      q \in Contexts!Registries /\ IsOpen(registry, q) /\ registry[q].user = u
    OBVIOUS
  <2> DEFINE h == Head(keys[u])
  <2>1. /\ Once(keys[u], Keys) /\ keys[u] # <<>>
        /\ Listed(keys[u]) = {j \in Keys : UserOf[j] = u /\ entry[j] # None}
    BY <1>2, <1>3 DEF ListsOK
  <2>2. h \in Keys /\ UserOf[h] = u /\ entry[h] # None
    BY <2>1, EmptyOrNot
  <2> HIDE DEF h
  <2>3. entry[h].registry \in Contexts!Registries
    BY <1>2, <2>2 DEF Cached, Contexts!Entry
  <2> QED BY <1>2, <2>2, <2>3 DEF ServedOK, h
<1>5. \A r \in Contexts!Registries : IsOpen(registry, r) <=> r \in held
  <2>1. ASSUME NEW r \in Contexts!Registries, IsOpen(registry, r)
        PROVE  r \in held
    <3>1. PICK k \in Keys : entry[k] # None /\ entry[k].registry = r
      BY <1>2, <2>1 DEF ServedOK
    <3>2. registry[r].user = UserOf[k] /\ UserOf[k] \in Users
      BY <1>2, <3>1, Assumed DEF ServedOK
    <3> DEFINE u == UserOf[k]
    <3>3. Once(keys[u], Keys) /\ k \in Listed(keys[u])
      BY <1>2, <3>1, <3>2 DEF ListsOK
    <3>4. u \in Listed(accounts)
      BY <1>3, <3>2, <3>3, EmptyOrNot
    <3>5. entry[Head(keys[u])].registry = r
      BY <1>2, <1>4, <2>1, <3>2, <3>4 DEF ServedOK
    <3> QED BY <1>3, <3>4, <3>5
  <2>2. \A r \in Contexts!Registries : r \in held => IsOpen(registry, r)
    BY <1>3, <1>4
  <2> QED BY <2>1, <2>2
<1> HIDE DEF held
<1>6. \A r \in Contexts!Registries : r \in held =>
        x(r) \in Contexts!Registry /\ x(r) # None /\ x(r).state = "closed"
  <2> SUFFICES ASSUME NEW r \in Contexts!Registries, r \in held
               PROVE  x(r) \in Contexts!Registry /\ x(r) # None /\ x(r).state = "closed"
    OBVIOUS
  <2>1. registry[r] \in Contexts!Registry
    BY <1>2, <1>5 DEF Registered, IsOpen
  <2>2. x(r) \in Contexts!Registry /\ x(r).state = "closed"
    BY <2>1 DEF Contexts!Registry
  <2> QED BY <2>2, Assumed
<1> HIDE DEF x
<1>7. /\ Registered(registry')
      /\ \A r \in Contexts!Registries : registry[r] # None => registry'[r] # None
  BY <1>1, <1>2, <1>6 DEF Registered
<1>8. \A d \in Calls : call[d].pc \notin Missing
  <2>1. Listed(tail) = {}
    BY <1>1, NoElements
  <2> QED BY <1>2, <2>1 DEF TailOK
<1>9. \A r \in Contexts!Registries : ~IsClosing(registry, r)
  BY <1>2, <1>8 DEF ClosingOK, Missing
<1>10. \A r \in Contexts!Registries : registry'[r] # None => registry'[r].state \notin {"open", "closing"}
  <2> SUFFICES ASSUME NEW r \in Contexts!Registries, registry'[r] # None
               PROVE  registry'[r].state \notin {"open", "closing"}
    OBVIOUS
  <2>1. CASE r \in held
    BY <1>1, <1>6, <2>1
  <2>2. CASE r \notin held
    BY <1>1, <1>5, <1>9, <2>2 DEF IsOpen, IsClosing
  <2> QED BY <2>1, <2>2
<1>11. CallsOK(call, registry')
  <2>1. \A d \in Calls : CallOK(call[d], registry) /\ call[d].registry \in Contexts!Registries \cup {None}
    BY <1>2, CallRegistry DEF CallsOK
  <2>2. \A d \in Calls : CallOK(call[d], registry')
    BY <1>7, <2>1 DEF CallOK
  <2> QED BY <1>2, <2>2 DEF CallsOK
<1>12. MissOK(call, entry, registry') /\ ClosingOK(call, registry')
  BY <1>8, <1>10 DEF MissOK, ClosingOK, IsClosing, Missing
<1>13. \A r \in Contexts!Registries : ~Contexts!InUse(r)'
  BY <1>10 DEF Contexts!InUse
<1>14. /\ Cached(entry') /\ revoked' \subseteq Keys /\ since' \in [Keys -> 0..RecheckAfter]
       /\ ListsOK(keys', accounts', entry') /\ EntriesOK(entry', revoked', since')
       /\ TailOK(tail', call')
  BY <1>1 DEF ContextInv
<1> QED BY <1>1, <1>7, <1>11, <1>12, <1>13, <1>14 DEF ContextInv

-----------------------------------------------------------------------------
(* The invariant holds, and what it says.                                  *)

\* The lists and the calls are functions.
Tables == keys = [u \in Users |-> keys[u]] /\ call = [c \in Calls |-> call[c]]

LEMMA TablesKept ==
  ASSUME Tables, [Contexts!Next]_contextVars
  PROVE  Tables'
<1>1. CASE UNCHANGED contextVars
  BY <1>1 DEF contextVars, Tables
<1>2. ASSUME keys' = keys \/ \E u, s : keys' = [keys EXCEPT ![u] = s]
      PROVE  keys' = [u \in Users |-> keys'[u]]
  BY <1>2 DEF Tables
<1>3. ASSUME call' = call \/ \E c, x : call' = [call EXCEPT ![c] = x]
      PROVE  call' = [c \in Calls |-> call'[c]]
  BY <1>3 DEF Tables
<1>4. ASSUME NEW k, Contexts!Hit(k)
      PROVE  keys' = [u \in Users |-> keys'[u]]
  BY <1>2, <1>4 DEF Contexts!Hit
<1>5. ASSUME NEW c \in Calls, NEW gone, NEW es, NEW rs, NEW ks, NEW accs,
             ks = [u \in Users |-> ks[u]], Contexts!Settle(c, gone, es, rs, ks, accs)
      PROVE  Tables'
  <2> DEFINE v == Contexts!First(accs, {u \in Contexts!Elements(accs) :
                    Contexts!Evictable(u, UserOf[call[c].key], es, rs, ks)})
  <2>1. \/ keys' = ks /\ call' = [Contexts!Waiting(gone) EXCEPT ![c] =
                                   Contexts!Given(call[c].key, es[call[c].key])]
        \/ \E all, q : /\ keys' = [ks EXCEPT ![v] = <<>>]
                       /\ call' = [Contexts!Waiting(all) EXCEPT ![c].pc = "evicting", ![c].registry = q]
    BY <1>5 DEF Contexts!Settle
  <2> HIDE DEF v
  <2>2. keys' = [u \in Users |-> keys'[u]]
    BY <1>5, <2>1
  <2>3. call' = [d \in Calls |-> call'[d]]
    BY <2>1 DEF Contexts!Waiting
  <2> QED BY <2>2, <2>3 DEF Tables
<1>6. CASE Contexts!Next
  <2>1. ASSUME NEW c \in Calls, Contexts!Built(c)
        PROVE  Tables'
    <3>1. \E gone, es, rs, ks, accs :
            ks = [u \in Users |-> ks[u]] /\ Contexts!Settle(c, gone, es, rs, ks, accs)
      <4> DEFINE u == UserOf[call[c].key]
                 ks == [keys EXCEPT ![u] = Append(Contexts!Sans(keys[u], Contexts!Stale(u)), call[c].key)]
      <4>1. \E es, rs : Contexts!Settle(c, Contexts!Stale(u), es, rs, ks, Contexts!Last(accounts, u))
        BY <2>1 DEF Contexts!Built
      <4>2. ks = [x \in Users |-> ks[x]]
        BY DEF Tables
      <4> HIDE DEF ks, u
      <4> QED BY <4>1, <4>2
    <3> QED BY <1>5, <3>1
  <2>2. ASSUME NEW c \in Calls, Contexts!Released(c)
        PROVE  Tables'
    BY <1>5, <2>2 DEF Contexts!Released, Tables
  <2>3. ASSUME NEW c \in Calls,
               Contexts!MissHits(c) \/ Contexts!Build(c) \/ Contexts!BuildFails(c) \/ Contexts!RefusedLate(c)
        PROVE  Tables'
    <3>1. call' = [d \in Calls |-> call'[d]]
      BY <1>3, <2>3 DEF Contexts!MissHits, Contexts!Build, Contexts!BuildFails, Contexts!RefusedLate
    <3>2. keys' = [u \in Users |-> keys'[u]]
      BY <1>2, <1>4, <2>3
         DEF Contexts!MissHits, Contexts!Build, Contexts!BuildFails, Contexts!RefusedLate
    <3> QED BY <3>1, <3>2 DEF Tables
  <2>4. ASSUME NEW k \in Keys, Contexts!Confirmed(k) \/ Contexts!Refused(k)
        PROVE  Tables'
    <3>1. call' = [d \in Calls |-> call'[d]]
      BY <2>4 DEF Contexts!Confirmed, Contexts!Refused, Contexts!Answer
    <3>2. keys' = [u \in Users |-> keys'[u]]
      BY <1>2, <2>4 DEF Contexts!Confirmed, Contexts!Refused
    <3> QED BY <3>1, <3>2 DEF Tables
  <2>5. ASSUME NEW c \in Calls, NEW k \in Keys,
               Contexts!ResolveHit(c, k) \/ Contexts!ResolveDue(c, k) \/ Contexts!ResolveMiss(c, k)
        PROVE  Tables'
    <3>1. call' = [d \in Calls |-> call'[d]]
      BY <1>3, <2>5 DEF Contexts!ResolveHit, Contexts!ResolveDue, Contexts!ResolveMiss
    <3>2. keys' = [u \in Users |-> keys'[u]]
      BY <1>2, <1>4, <2>5 DEF Contexts!ResolveHit, Contexts!ResolveDue, Contexts!ResolveMiss
    <3> QED BY <3>1, <3>2 DEF Tables
  <2>6. ASSUME NEW c \in Calls,
               Contexts!StartSearch(c) \/ Contexts!StartBuild(c) \/ Contexts!Ends(c)
        PROVE  Tables'
    <3>1. call' = [d \in Calls |-> call'[d]]
      BY <1>3, <2>6 DEF Contexts!StartSearch, Contexts!StartBuild, Contexts!Ends
    <3> QED BY <2>6, <3>1 DEF Contexts!StartSearch, Contexts!StartBuild, Contexts!Ends, Tables
  <2>7. ASSUME \/ \E r \in Contexts!Registries : Contexts!BuildEnds(r)
               \/ \E k \in Keys : Contexts!Revoke(k)
               \/ Contexts!Tick \/ Contexts!Flush \/ Contexts!FlushIndexes
        PROVE  Tables'
    BY <2>7 DEF Contexts!BuildEnds, Contexts!Revoke, Contexts!Tick, Contexts!Flush,
                Contexts!FlushIndexes, Tables
  <2> QED BY <1>6, <2>1, <2>2, <2>3, <2>4, <2>5, <2>6, <2>7 DEF Contexts!Next, Contexts!Answering
<1> QED BY <1>1, <1>6

LEMMA ContextInvStarts ==
  ASSUME Contexts!Init
  PROVE  ContextInv
<1>1. /\ keys = [u \in Users |-> <<>>] /\ accounts = <<>> /\ entry = [k \in Keys |-> None]
      /\ registry = [r \in Contexts!Registries |-> None]
      /\ call = [c \in Calls |-> Contexts!Idle] /\ tail = <<>>
      /\ revoked = {} /\ since = [k \in Keys |-> 0] /\ shut = "no"
  BY DEF Contexts!Init
<1>2. /\ Cached(entry) /\ Registered(registry) /\ revoked \subseteq Keys
      /\ since \in [Keys -> 0..RecheckAfter] /\ shut \in {"no", "flushing", "done"} /\ shut # "done"
  BY <1>1, Assumed DEF Cached, Registered
<1>3. ListsOK(keys, accounts, entry)
  <2>1. Len(<<>>) = 0 /\ 0 <= KeysPerAccount
    BY Assumed
  <2>2. Once(<<>>, Keys) /\ Once(<<>>, Users) /\ Listed(<<>>) = {}
    BY NoElements
  <2> QED BY <1>1, <2>1, <2>2 DEF ListsOK
<1>4. EntriesOK(entry, revoked, since) /\ ServedOK(entry, registry)
  BY <1>1 DEF EntriesOK, ServedOK, IsOpen
<1>5. Contexts!Idle.pc = "idle" /\ CallOK(Contexts!Idle, registry)
  BY DEF CallOK, Contexts!Idle, Contexts!Call
<1>6. CallsOK(call, registry) /\ \A c \in Calls : call[c].pc = "idle"
  BY <1>1, <1>5 DEF CallsOK
<1>7. TailOK(tail, call)
  <2>1. Once(<<>>, Calls) /\ Listed(<<>>) = {}
    BY NoElements
  <2> QED BY <1>1, <1>6, <2>1 DEF TailOK, Missing
<1>8. MissOK(call, entry, registry) /\ ClosingOK(call, registry)
  BY <1>1, <1>6 DEF MissOK, ClosingOK, IsClosing
<1> QED BY <1>2, <1>3, <1>4, <1>6, <1>7, <1>8 DEF ContextInv

LEMMA ContextInvKept ==
  ASSUME ContextInv, [Contexts!Next]_contextVars
  PROVE  ContextInv'
<1>1. CASE UNCHANGED contextVars
  BY <1>1 DEF contextVars, ContextInv, Contexts!InUse
<1>2. CASE Contexts!Next
  <2>1. shut # "done"
    BY <1>2 DEF Contexts!Next
  <2>2. CASE Contexts!Answering
    <3>1. ASSUME NEW c \in Calls,
                 \/ Contexts!MissHits(c) \/ Contexts!Build(c) \/ Contexts!BuildFails(c)
                 \/ Contexts!Built(c) \/ Contexts!Released(c) \/ Contexts!RefusedLate(c)
          PROVE  ContextInv'
      BY <2>1, <3>1, MissHitStep, BuildStep, BuildFailsStep, SettlesKeeps, LateStep
    <3>2. ASSUME NEW k \in Keys, Contexts!Confirmed(k) \/ Contexts!Refused(k)
          PROVE  ContextInv'
      BY <2>1, <3>2, ConfirmedStep, RefusedStep
    <3> QED BY <2>2, <3>1, <3>2 DEF Contexts!Answering
  <2>3. ASSUME NEW c \in Calls, NEW k \in Keys,
               Contexts!ResolveHit(c, k) \/ Contexts!ResolveDue(c, k) \/ Contexts!ResolveMiss(c, k)
        PROVE  ContextInv'
    BY <2>1, <2>3, HitStep, DueStep, MissStep
  <2>4. ASSUME NEW c \in Calls,
               Contexts!StartSearch(c) \/ Contexts!StartBuild(c) \/ Contexts!Ends(c)
        PROVE  ContextInv'
    BY <2>1, <2>4, SearchStep, EndStep
  <2>5. ASSUME NEW r \in Contexts!Registries, Contexts!BuildEnds(r)
        PROVE  ContextInv'
    BY <2>1, <2>5, BuildEndStep
  <2>6. ASSUME NEW k \in Keys, Contexts!Revoke(k)
        PROVE  ContextInv'
    BY <2>1, <2>6, RevokeStep
  <2>7. CASE Contexts!Tick \/ Contexts!Flush \/ Contexts!FlushIndexes
    BY <2>1, <2>7, TickStep, FlushStep, FlushIndexesStep
  <2> QED BY <1>2, <2>2, <2>3, <2>4, <2>5, <2>6, <2>7 DEF Contexts!Next
<1> QED BY <1>1, <1>2

\* The invariant says more than what the runs check.
LEMMA ContextInvShows ==
  ASSUME ContextInv, Tables
  PROVE  AccountIndexes
<1>1. /\ Cached(entry) /\ Registered(registry)
      /\ revoked \subseteq Keys /\ since \in [Keys -> 0..RecheckAfter]
      /\ shut \in {"no", "flushing", "done"}
      /\ ListsOK(keys, accounts, entry) /\ EntriesOK(entry, revoked, since)
      /\ shut # "done" => ServedOK(entry, registry)
      /\ shut = "done" => \A r \in Contexts!Registries : ~Contexts!InUse(r)
      /\ CallsOK(call, registry) /\ TailOK(tail, call)
      /\ MissOK(call, entry, registry) /\ ClosingOK(call, registry)
  BY DEF ContextInv
<1>2. \A u \in Users :
        /\ Once(keys[u], Keys) /\ Len(keys[u]) <= KeysPerAccount
        /\ Contexts!Elements(keys[u]) = {k \in Keys : UserOf[k] = u /\ entry[k] # None}
        /\ Contexts!Cardinality(Contexts!Elements(keys[u])) = Len(keys[u])
  BY <1>1, OnceFacts, OnceLength, SameCount DEF ListsOK
<1>3. /\ Contexts!Elements(accounts) = {u \in Users : keys[u] # <<>>}
      /\ Len(accounts) = Contexts!Cardinality(Contexts!Elements(accounts))
  BY <1>1, OnceFacts, OnceLength, SameCount DEF ListsOK
<1>4. Contexts!ContextsTypeOK
  <2>1. keys \in [Users -> Seq(Keys)]
    <3>1. \A u \in Users : keys[u] \in Seq(Keys)
      BY <1>2 DEF Once
    <3>2. keys = [u \in Users |-> keys[u]]
      BY DEF Tables
    <3> QED BY <3>1, <3>2
  <2>2. call \in [Calls -> Contexts!Call]
    <3>1. \A c \in Calls : call[c] \in Contexts!Call
      BY <1>1 DEF CallsOK, CallOK
    <3>2. call = [c \in Calls |-> call[c]]
      BY DEF Tables
    <3> QED BY <3>1, <3>2
  <2>3. tail \in Seq(Calls)
    BY <1>1 DEF TailOK, Once
  <2> QED BY <1>1, <1>2, <1>3, <2>1, <2>2, <2>3 DEF Contexts!ContextsTypeOK, Cached, Registered
<1>5. Contexts!OpenedOnce
  <2> SUFFICES ASSUME NEW r \in Contexts!Registries, NEW s \in Contexts!Registries,
                      Contexts!InUse(r), Contexts!InUse(s), registry[r].user = registry[s].user
               PROVE  r = s
    BY DEF Contexts!OpenedOnce
  <2>1. /\ shut # "done" /\ ServedOK(entry, registry)
        /\ IsOpen(registry, r) \/ IsClosing(registry, r)
        /\ IsOpen(registry, s) \/ IsClosing(registry, s)
    BY <1>1 DEF Contexts!InUse, IsOpen, IsClosing
  \* What is being closed is that of the one call that evicts, and of no cached account.
  <2>2. ASSUME NEW q \in Contexts!Registries, IsClosing(registry, q)
        PROVE  /\ tail # <<>> /\ call[Head(tail)].registry = q
               /\ \A k \in Keys : UserOf[k] = registry[q].user => entry[k] = None
    <3>1. PICK c \in Calls : call[c].pc = "evicting" /\ call[c].registry = q
      BY <1>1, <2>2 DEF ClosingOK
    <3>2. tail # <<>> /\ c = Head(tail)
      BY <1>1, <3>1 DEF TailOK
    <3> QED BY <1>1, <3>1, <3>2 DEF MissOK
  <2>3. ASSUME NEW q \in Contexts!Registries, IsOpen(registry, q)
        PROVE  \E k \in Keys : entry[k] # None /\ UserOf[k] = registry[q].user
    BY <2>1, <2>3 DEF ServedOK
  <2>4. CASE IsOpen(registry, r) /\ IsOpen(registry, s)
    BY <2>1, <2>4 DEF ServedOK
  <2>5. CASE IsClosing(registry, r) /\ IsClosing(registry, s)
    BY <2>2, <2>5
  <2>6. CASE \/ IsOpen(registry, r) /\ IsClosing(registry, s)
             \/ IsClosing(registry, r) /\ IsOpen(registry, s)
    BY <2>2, <2>3, <2>6
  <2> QED BY <2>1, <2>4, <2>5, <2>6
<1>6. Contexts!OpenIffCached
  <2> SUFFICES ASSUME shut # "done", NEW r \in Contexts!Registries, registry[r] # None
               PROVE  /\ registry[r].state = "open" <=>
                           \E k \in Contexts!Elements(keys[registry[r].user]) : entry[k].registry = r
                      /\ \A k \in Keys : entry[k] # None /\ entry[k].registry = r =>
                           registry[r].user = UserOf[k]
    BY DEF Contexts!OpenIffCached
  <2>1. registry[r].user \in Users
    BY <1>1 DEF Registered, Contexts!Registry
  <2>2. Contexts!Elements(keys[registry[r].user])
          = {k \in Keys : UserOf[k] = registry[r].user /\ entry[k] # None}
    BY <1>2, <2>1
  <2>3. \A k \in Keys : entry[k] # None /\ entry[k].registry = r =>
          registry[r].state = "open" /\ registry[r].user = UserOf[k]
    BY <1>1 DEF ServedOK, IsOpen
  <2>4. ASSUME registry[r].state = "open"
        PROVE  \E k \in Contexts!Elements(keys[registry[r].user]) : entry[k].registry = r
    <3>1. PICK k \in Keys : entry[k] # None /\ entry[k].registry = r
      BY <1>1, <2>4 DEF ServedOK, IsOpen
    <3> QED BY <2>2, <2>3, <3>1
  <2> QED BY <2>2, <2>3, <2>4
<1>7. Contexts!RetiredMeansRefused /\ Contexts!FlushClosesAll
  BY <1>1 DEF Contexts!RetiredMeansRefused, Contexts!FlushClosesAll, EntriesOK
<1> QED BY <1>4, <1>5, <1>6, <1>7 DEF AccountIndexes, Contexts!AccountIndexes

LEMMA ContextInvHolds == AccountsSpec => [](ContextInv /\ Tables)
<1>1. AccountsInit => ContextInv /\ Tables
  <2>1. Contexts!Init => Tables
    BY DEF Contexts!Init, Tables
  <2> QED BY <2>1, ContextInvStarts DEF AccountsInit
<1>2. ContextInv /\ Tables /\ [AccountsNext]_accountsVars => (ContextInv /\ Tables)'
  <2>1. [AccountsNext]_accountsVars => [Contexts!Next]_contextVars
    BY DEF AccountsNext, accountsVars
  <2> QED BY <2>1, ContextInvKept, TablesKept
<1> QED BY <1>1, <1>2, PTL DEF AccountsSpec

\* An account's indexes are opened once, open while it is cached and closed when the server
\* has shut down, and only a refused key's context is retired (server.ts:576, ContextCache).
THEOREM AccountIndexesHolds == AccountsSpec => []AccountIndexes
<1>1. ContextInv /\ Tables => AccountIndexes
  BY ContextInvShows
<1> QED BY <1>1, ContextInvHolds, PTL

-----------------------------------------------------------------------------
(* What a step closes, and whom it serves.                                 *)

\* What is closed in a step was neither built nor searched.
ClosesIdle ==
  \A r \in Contexts!Registries :
    /\ registry[r] # None /\ registry[r].state = "open"
    /\ registry'[r] # None /\ registry'[r].state = "closing"
    => ~registry[r].building /\ ~Contexts!Leased(r)

\* A key served in a step has not been refused for as long as it is trusted.
ServesTrusted ==
  \A c \in Calls : Contexts!Gets(c) /\ call'[c].key \in revoked =>
    since'[call'[c].key] < RecheckAfter

LEMMA SettlesInTime ==
  ASSUME ContextInv, NEW c \in Calls, Settles(c), UNCHANGED since
  PROVE  ClosesIdle /\ ServesTrusted
<1>1. PICK gone, es, rs, ks, accs :
        /\ Added(c, gone, es, rs, ks, accs) /\ Contexts!Settle(c, gone, es, rs, ks, accs)
        /\ \A q \in Contexts!Registries : IsOpen(registry, q) => rs[q] = registry[q]
  BY DEF Settles
<1> DEFINE k == call[c].key
           g == Contexts!Given(k, es[k])
<1>2. /\ Registered(rs) /\ \A r \in Contexts!Registries : ~IsClosing(rs, r)
      /\ EntriesOK(Contexts!Dropped(es, gone), revoked, since)
      /\ k \in Keys \ gone /\ es[k] # None /\ es[k].age = 0 /\ ~es[k].invalidated
  BY <1>1 DEF Added
<1>3. DOMAIN call = Calls
  BY DEF ContextInv, CallsOK
<1>4. \/ /\ call' = [Contexts!Waiting(gone) EXCEPT ![c] = g]
         /\ registry' = Contexts!Collected(rs, call')
      \/ \E v \in Users : Releases(c, gone, es, rs, ks, accs, v)
  BY <1>1, SettleCases
\* A call that waits for a dropped key is not served.
<1>5. \A all : DOMAIN Contexts!Waiting(all) = Calls /\
        \A d \in Calls : Contexts!Waiting(all)[d] = call[d] \/ Contexts!Waiting(all)[d].pc = "retired"
  <2> SUFFICES ASSUME NEW all, NEW d \in Calls
               PROVE  /\ DOMAIN Contexts!Waiting(all) = Calls
                      /\ \/ Contexts!Waiting(all)[d] = call[d]
                         \/ Contexts!Waiting(all)[d].pc = "retired"
    BY DEF Contexts!Waiting
  <2>1. CallOK(call[d], registry)
    BY DEF ContextInv, CallsOK
  <2>2. [call[d] EXCEPT !.pc = "retired"].pc = "retired"
    BY <2>1 DEF CallOK, Contexts!Call
  <2> QED BY <2>2 DEF Contexts!Waiting
<1>6. since[k] < RecheckAfter \/ k \notin revoked
  <2>1. Contexts!Dropped(es, gone)[k] = es[k]
    BY <1>2 DEF Contexts!Dropped
  <2>2. k \in revoked => since[k] <= 0
    BY <1>2, <2>1 DEF EntriesOK
  <2>3. since[k] \in 0..RecheckAfter
    BY <1>2 DEF ContextInv
  <2> QED BY <2>2, <2>3, Assumed
<1>7. CASE /\ call' = [Contexts!Waiting(gone) EXCEPT ![c] = g]
           /\ registry' = Contexts!Collected(rs, call')
  <2>1. g.key = k
    BY <1>2 DEF Contexts!Given
  <2> HIDE DEF g, k
  <2>2. ClosesIdle
    BY <1>2, <1>7 DEF ClosesIdle, Contexts!Collected, IsClosing
  <2>3. \A d \in Calls : IF d = c THEN call'[d] = g
                         ELSE call'[d] = call[d] \/ call'[d].pc = "retired"
    BY <1>5, <1>7
  <2> QED BY <1>6, <2>1, <2>2, <2>3 DEF ServesTrusted, Contexts!Gets
<1>8. ASSUME NEW v \in Users, Releases(c, gone, es, rs, ks, accs, v)
      PROVE  ClosesIdle /\ ServesTrusted
  <2> DEFINE r == es[Head(ks[v])].registry
             all == gone \cup Contexts!Elements(ks[v])
             w == Contexts!Waiting(all)
             rs1 == [rs EXCEPT ![r].state = "closing"]
  <2>1. /\ ~rs[r].building /\ ~Contexts!Leased(r)
        /\ call' = [w EXCEPT ![c].pc = "evicting", ![c].registry = r]
        /\ registry' = Contexts!Collected(rs1, call')
    BY <1>8 DEF Releases
  <2>2. \A q \in Contexts!Registries : q # r => rs1[q] = rs[q]
    BY <1>2 DEF Registered
  <2>3. /\ DOMAIN w = Calls
        /\ \A d \in Calls : w[d] = call[d] \/ w[d].pc = "retired"
    BY <1>5
  <2>4. call[c].pc \in {"building", "evicting"} /\ call[c] \in Contexts!Call
    BY <1>1 DEF Added, ContextInv, CallsOK, CallOK
  <2>5. w[c] = call[c]
    BY <2>4 DEF Contexts!Waiting
  <2> HIDE DEF rs1, w, all
  <2>6. call'[c].pc = "evicting"
    <3> HIDE DEF r
    <3> QED BY <2>1, <2>3, <2>4, <2>5 DEF Contexts!Call
  <2>7. \A d \in Calls : d # c => call'[d] = call[d] \/ call'[d].pc = "retired"
    BY <2>1, <2>3
  <2>8. ServesTrusted
    BY <2>6, <2>7 DEF ServesTrusted, Contexts!Gets
  <2>9. ClosesIdle
    <3> SUFFICES ASSUME NEW q \in Contexts!Registries, IsOpen(registry, q), IsClosing(registry', q)
                 PROVE  ~registry[q].building /\ ~Contexts!Leased(q)
      BY DEF ClosesIdle, IsOpen, IsClosing
    <3>1. q = r
      BY <1>2, <2>1, <2>2 DEF Contexts!Collected, IsClosing
    <3> QED BY <1>1, <2>1, <3>1
  <2> QED BY <2>8, <2>9
<1> QED BY <1>4, <1>7, <1>8

\* The other steps close nothing that is open.
LEMMA OthersCloseNothing ==
  ASSUME ContextInv, Contexts!Next, ~ \E c \in Calls : Contexts!Built(c) \/ Contexts!Released(c)
  PROVE  ClosesIdle
<1>1. Registered(registry) /\ CallsOK(call, registry)
  BY DEF ContextInv
<1>2. CASE UNCHANGED registry
  BY <1>2 DEF ClosesIdle
<1>3. ASSUME NEW c \in Calls, Contexts!StartBuild(c)
      PROVE  ClosesIdle
  <2> DEFINE r == call[c].registry
             b == registry[r].state = "open"
             rs == [registry EXCEPT ![r].building = b]
  <2>1. call[c].pc = "resolved" /\ registry' = Contexts!Collected(rs, call') /\ CallOK(call[c], registry)
    BY <1>1, <1>3 DEF Contexts!StartBuild, CallsOK
  <2>2. r \in Contexts!Registries /\ registry[r] # None /\ b \in BOOLEAN
    BY <2>1, CallRegistry DEF CallOK
  <2> HIDE DEF r, b
  <2>3. \A q \in Contexts!Registries : registry[q] # None => rs[q].state = registry[q].state
    BY <1>1, <2>2, BuildingFlag
  <2> HIDE DEF rs
  <2>4. \A q \in Contexts!Registries : registry'[q] = None \/ registry'[q] = rs[q]
    BY <2>1 DEF Contexts!Collected
  <2> QED BY <2>3, <2>4 DEF ClosesIdle
<1>4. ASSUME NEW c \in Calls, Contexts!Ends(c)
      PROVE  ClosesIdle
  <2>1. registry' = Contexts!Collected(registry, call')
    BY <1>4 DEF Contexts!Ends
  <2> QED BY <2>1 DEF Contexts!Collected, ClosesIdle
<1>5. ASSUME NEW r \in Contexts!Registries, Contexts!BuildEnds(r)
      PROVE  ClosesIdle
  <2>1. registry[r] # None /\ registry' = [registry EXCEPT ![r].building = FALSE]
    BY <1>5 DEF Contexts!BuildEnds
  <2>2. \A q \in Contexts!Registries : registry[q] # None => registry'[q].state = registry[q].state
    BY <1>1, <2>1, BuildingFlag
  <2> QED BY <2>2 DEF ClosesIdle
<1>6. CASE Contexts!FlushIndexes
  <2> DEFINE x(r) == [registry[r] EXCEPT !.state = "closed", !.building = FALSE]
  <2>1. \A r \in Contexts!Registries : registry'[r] = x(r) \/ registry'[r] = registry[r]
    BY <1>6 DEF Contexts!FlushIndexes
  <2>2. \A r \in Contexts!Registries : registry[r] # None => x(r).state = "closed"
    BY <1>1 DEF Registered, Contexts!Registry
  <2> HIDE DEF x
  <2> QED BY <2>1, <2>2 DEF ClosesIdle
<1>7. \/ UNCHANGED registry \/ Contexts!FlushIndexes
      \/ \E c \in Calls : Contexts!StartBuild(c) \/ Contexts!Ends(c)
      \/ \E r \in Contexts!Registries : Contexts!BuildEnds(r)
  BY DEF Contexts!Next, Contexts!Answering, Contexts!MissHits, Contexts!Build, Contexts!BuildFails,
         Contexts!RefusedLate, Contexts!Confirmed, Contexts!Refused, Contexts!ResolveHit,
         Contexts!ResolveDue, Contexts!ResolveMiss, Contexts!StartSearch, Contexts!Revoke,
         Contexts!Tick, Contexts!Flush
<1> QED BY <1>2, <1>3, <1>4, <1>5, <1>6, <1>7

\* Whoever is answered from the cache is given a key that is trusted.
LEMMA HitsServeTrusted ==
  ASSUME ContextInv, NEW c \in Calls, NEW k \in Keys, entry[k] # None, entry[k].age < RecheckAfter,
         call' = [call EXCEPT ![c] = Contexts!Given(k, entry[k])], UNCHANGED since
  PROVE  ServesTrusted
<1> DEFINE g == Contexts!Given(k, entry[k])
<1>1. g.pc = "resolved" => g.key = k /\ ~entry[k].invalidated
  BY DEF Contexts!Given, Contexts!Idle
<1>2. ~entry[k].invalidated /\ k \in revoked => since[k] < RecheckAfter
  <2>1. entry[k].age \in 0..RecheckAfter /\ since[k] \in 0..RecheckAfter
    BY DEF ContextInv, Cached, Contexts!Entry
  <2>2. ~entry[k].invalidated /\ k \in revoked => since[k] <= entry[k].age
    BY DEF ContextInv, EntriesOK
  <2> QED BY <2>1, <2>2, Assumed
<1> HIDE DEF g
<1>3. \A d \in Calls : call'[d] = call[d] \/ call'[d] = g
  BY DEF ContextInv, CallsOK, g
<1> QED BY <1>1, <1>2, <1>3 DEF ServesTrusted, Contexts!Gets

LEMMA OthersServeTrusted ==
  ASSUME ContextInv, Contexts!Next, ~ \E c \in Calls : Contexts!Built(c) \/ Contexts!Released(c)
  PROVE  ServesTrusted
<1>1. /\ CallsOK(call, registry) /\ Cached(entry) /\ MissOK(call, entry, registry)
      /\ EntriesOK(entry, revoked, since) /\ since \in [Keys -> 0..RecheckAfter]
  BY DEF ContextInv
<1>2. \A c \in Calls : call[c] \in Contexts!Call
  BY <1>1 DEF CallsOK, CallOK
<1>3. ASSUME \A c \in Calls : call'[c] = call[c] \/ call'[c].pc # "resolved"
      PROVE  ServesTrusted
  BY <1>3 DEF ServesTrusted, Contexts!Gets
<1>4. ASSUME NEW c \in Calls, NEW x, call' = [call EXCEPT ![c] = x], x.pc # "resolved"
      PROVE  ServesTrusted
  BY <1>1, <1>3, <1>4 DEF CallsOK
<1>i. Contexts!Idle.pc = "idle"
  BY DEF Contexts!Idle
<1>5. ASSUME NEW c \in Calls, NEW k \in Keys, Contexts!ResolveHit(c, k)
      PROVE  ServesTrusted
  <2>1. /\ entry[k] # None /\ call' = [call EXCEPT ![c] = Contexts!Given(k, entry[k])]
        /\ UNCHANGED since
        /\ entry[k].invalidated \/ entry[k].age < RecheckAfter
    BY <1>5 DEF Contexts!ResolveHit, Contexts!Trusted
  <2>2. CASE entry[k].invalidated
    <3>1. call' = [call EXCEPT ![c] = Contexts!Idle]
      BY <2>1, <2>2 DEF Contexts!Given
    <3> QED BY <1>4, <1>i, <3>1
  <2>3. CASE entry[k].age < RecheckAfter
    BY <2>1, <2>3, HitsServeTrusted
  <2> QED BY <2>1, <2>2, <2>3
<1>6. ASSUME NEW c \in Calls, NEW k \in Keys, Contexts!ResolveDue(c, k) \/ Contexts!ResolveMiss(c, k)
      PROVE  ServesTrusted
  <2>1. \E p \in {"checking", "queued"} : call' = [call EXCEPT ![c] = [Contexts!Idle EXCEPT !.pc = p, !.key = k]]
    BY <1>6 DEF Contexts!ResolveDue, Contexts!ResolveMiss
  <2>2. \A p \in {"checking", "queued"} : [Contexts!Idle EXCEPT !.pc = p, !.key = k].pc = p
    BY DEF Contexts!Idle
  <2> QED BY <1>4, <2>1, <2>2
<1>7. ASSUME NEW c \in Calls, Contexts!MissHits(c)
      PROVE  ServesTrusted
  <2>1. /\ call[c].pc = "queued" /\ entry[call[c].key] # None /\ UNCHANGED since
        /\ call' = [call EXCEPT ![c] = Contexts!Given(call[c].key, entry[call[c].key])]
    BY <1>7 DEF Contexts!MissHits
  <2>2. call[c].key \in Keys /\ entry[call[c].key].age = 0
    BY <1>1, <2>1, CallRegistry DEF CallsOK, MissOK
  <2>3. entry[call[c].key].age < RecheckAfter
    BY <2>2, Assumed
  <2> QED BY <2>1, <2>2, <2>3, HitsServeTrusted
<1>8. ASSUME NEW c \in Calls, Contexts!Build(c) \/ Contexts!StartSearch(c)
      PROVE  ServesTrusted
  <2>1. CASE Contexts!Build(c)
    <3>1. call' = [call EXCEPT ![c] = [call[c] EXCEPT !.pc = "building",
                                                   !.registry = Contexts!Sibling(call[c].key)]]
      BY <2>1 DEF Contexts!Build
    <3>2. [call[c] EXCEPT !.pc = "building", !.registry = Contexts!Sibling(call[c].key)].pc = "building"
      BY <1>2 DEF Contexts!Call
    <3> QED BY <1>4, <3>1, <3>2
  <2>2. CASE Contexts!StartSearch(c)
    <3>1. call' = [call EXCEPT ![c] = [call[c] EXCEPT !.pc = "searching"]]
      BY <2>2 DEF Contexts!StartSearch
    <3>2. [call[c] EXCEPT !.pc = "searching"].pc = "searching"
      BY <1>2 DEF Contexts!Call
    <3> QED BY <1>4, <3>1, <3>2
  <2> QED BY <1>8, <2>1, <2>2
<1>9. ASSUME NEW c \in Calls,
             \/ Contexts!BuildFails(c) \/ Contexts!RefusedLate(c)
             \/ Contexts!StartBuild(c) \/ Contexts!Ends(c)
      PROVE  ServesTrusted
  <2>1. call' = [call EXCEPT ![c] = Contexts!Idle]
    BY <1>9 DEF Contexts!BuildFails, Contexts!RefusedLate, Contexts!StartBuild, Contexts!Ends
  <2> QED BY <1>4, <1>i, <2>1
\* An answer that confirms the key starts its time anew; one that refuses it serves nobody.
<1>10. ASSUME NEW k \in Keys, Contexts!Confirmed(k)
       PROVE  ServesTrusted
  <2>1. /\ since' = [since EXCEPT ![k] = 0]
        /\ \A d \in Calls : call'[d] = call[d] \/ call'[d] = Contexts!Given(k, entry[k])
    BY <1>10 DEF Contexts!Confirmed, Contexts!Answer
  <2>2. Contexts!Given(k, entry[k]).pc = "resolved" => Contexts!Given(k, entry[k]).key = k
    BY DEF Contexts!Given, Contexts!Idle
  <2>3. since'[k] = 0 /\ 0 < RecheckAfter
    BY <1>1, <2>1, Assumed
  <2> QED BY <2>1, <2>2, <2>3 DEF ServesTrusted, Contexts!Gets
<1>11. ASSUME NEW k \in Keys, Contexts!Refused(k)
       PROVE  ServesTrusted
  <2> DEFINE e == [entry[k] EXCEPT !.age = 0, !.checking = FALSE, !.invalidated = TRUE]
  <2>1. entry[k] # None /\ Contexts!Answer(k, e)
    BY <1>11 DEF Contexts!Refused
  <2>2. e.invalidated
    BY <1>1, <2>1 DEF Cached, Contexts!Entry
  <2> HIDE DEF e
  <2>3. Contexts!Given(k, e) = Contexts!Idle
    BY <2>2 DEF Contexts!Given
  <2> QED BY <1>3, <1>i, <2>1, <2>3 DEF Contexts!Answer
<1>12. ASSUME \/ \E r \in Contexts!Registries : Contexts!BuildEnds(r)
              \/ \E k \in Keys : Contexts!Revoke(k)
              \/ Contexts!Tick \/ Contexts!Flush \/ Contexts!FlushIndexes
       PROVE  ServesTrusted
  BY <1>3, <1>12 DEF Contexts!BuildEnds, Contexts!Revoke, Contexts!Tick, Contexts!Flush,
                     Contexts!FlushIndexes
<1> QED BY <1>5, <1>6, <1>7, <1>8, <1>9, <1>10, <1>11, <1>12 DEF Contexts!Next, Contexts!Answering

\* What is closed to make room is idle, through whichever key, and a key that zotero.org
\* refuses stops serving in the time a check is trusted for (server.ts:615, recheck).
THEOREM GoInTimeHolds == AccountsSpec => GoInTime
<1>1. ContextInv /\ [AccountsNext]_accountsVars => [ClosesIdle]_(Contexts!vars) /\ [ServesTrusted]_(Contexts!vars)
  <2> SUFFICES ASSUME ContextInv, [AccountsNext]_accountsVars, ~ UNCHANGED Contexts!vars
               PROVE  ClosesIdle /\ ServesTrusted
    OBVIOUS
  <2>1. Contexts!Next
    BY DEF AccountsNext, accountsVars, contextVars, Contexts!vars
  <2>2. CASE \E c \in Calls : Contexts!Built(c) \/ Contexts!Released(c)
    <3>1. PICK c \in Calls : Contexts!Built(c) \/ Contexts!Released(c)
      BY <2>2
    <3>2. shut # "done"
      BY <2>1 DEF Contexts!Next
    <3>3. Settles(c) /\ UNCHANGED <<revoked, since, shut>>
      BY <3>1, <3>2, BuiltSettles, ReleasedSettles
    <3> QED BY <3>3, SettlesInTime
  <2>3. CASE ~ \E c \in Calls : Contexts!Built(c) \/ Contexts!Released(c)
    BY <2>1, <2>3, OthersCloseNothing, OthersServeTrusted
  <2> QED BY <2>2, <2>3
<1>2. AccountsSpec => [][ClosesIdle]_(Contexts!vars) /\ [][ServesTrusted]_(Contexts!vars)
  <2>1. AccountsSpec => [][AccountsNext]_accountsVars
    BY DEF AccountsSpec
  <2> QED BY <1>1, <2>1, ContextInvHolds, PTL
<1> QED BY <1>2 DEF GoInTime, Contexts!GoInTime, Contexts!EvictsIdle, Contexts!RevokedCutOff,
                    ClosesIdle, ServesTrusted
=============================================================================
