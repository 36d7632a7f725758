---------------------------- MODULE LibraryProofs ----------------------------
(***************************************************************************)
(* What is done to the items of a library keeps its promises for any       *)
(* items, duplicates, attachments, notes and entries, and whatever the     *)
(* library's users do meanwhile: an import saves once, a merge loses       *)
(* nothing, and the catch-ups of an index job miss nothing.  Each part has *)
(* an invariant of its own, on its own variables; a step of another part   *)
(* leaves them as they are.                                                *)
(***************************************************************************)
EXTENDS MCLibrary, FiniteSetTheorems, WellFoundedInduction, TLAPS

-----------------------------------------------------------------------------
(* Import.                                                                 *)

Stages == {"read", "scan", "check", "local", "connector", "place", "attach", "cloud", "done"}
Told == {None, "saved", "warned", "failed", "choose", "nothing found", "refused"}
ImportCall == [at : Stages, items : SUBSET Entries, blank : SUBSET Entries, rest : SUBSET Entries, told : Told]

\* An entry is saved once, but for what the local API had taken when it broke off.
Once == \A e \in Entries : saved[e] <= IF e \in broke THEN 2 ELSE 1

\* What is to be saved was read as something; the local API is sent what it was not sent
\* yet; and the next routes find saved what it had taken when it broke off.
ImportInv ==
  /\ saved \in [Entries -> 0..2] /\ call \in ImportCall
  /\ call.items \cap call.blank = {} /\ call.rest \subseteq call.items
  /\ \A e \in call.blank : saved[e] = 0
  /\ call.at \in {"read", "scan"} => call.blank = {} /\ call.rest = {}
  /\ call.at \in {"read", "scan", "check"} => \A e \in Entries : saved[e] = 0
  /\ call.at \in {"read", "scan", "check", "local"} => broke = {}
  /\ \A e \in call.rest : call.at = "local" => saved[e] = 0
  /\ call.at \in {"connector", "cloud"} => \A e \in Entries : saved[e] <= IF e \in broke THEN 1 ELSE 0
  /\ \A e \in Entries \ call.items : saved[e] = 0
  /\ broke \subseteq call.items
  /\ Once

LEMMA ImportInvInit == Init => ImportInv
BY DEF Init, Imports!ImportInit, Imports!Fresh, ImportInv, ImportCall, Once, Stages, Told

\* A reader passes on what it found something in, and sets the rest aside.
LEMMA FileReadingSorts ==
  ASSUME ImportInv, call.at = "read",
         NEW p \in Imports!Payloads, NEW r \in Imports!Readers, Imports!FileReading(p, r)
  PROVE  /\ call' \in ImportCall /\ call'.items \cap call'.blank = {} /\ call'.rest = call.rest
         /\ call'.at \in {"check", "done"} /\ (call'.items = call.items \/ call'.at = "check")
<1>1. p.all \subseteq Entries /\ p.usable[r] \subseteq p.all /\ Imports!Importable(p, r) \subseteq p.usable[r]
  BY DEF Imports!Payloads, Imports!Importable
<1>2. CASE Imports!Answers("failed")
  BY <1>2 DEF Imports!Answers, Imports!Becomes, ImportInv, ImportCall, Stages, Told
<1>3. CASE Imports!Becomes([call EXCEPT !.at = "check", !.items = Imports!Importable(p, r),
                                        !.blank = p.all \ p.usable[r]])
  <2> DEFINE its == Imports!Importable(p, r)
             left == p.all \ p.usable[r]
  <2>1. its \subseteq Entries /\ left \subseteq Entries /\ its \cap left = {}
    BY <1>1
  <2>2. call' = [call EXCEPT !.at = "check", !.items = its, !.blank = left]
    BY <1>3 DEF Imports!Becomes
  <2> HIDE DEF its, left
  <2> QED BY <2>1, <2>2 DEF ImportInv, ImportCall, Stages
<1> QED BY <1>2, <1>3 DEF Imports!FileReading

\* Reading saves nothing, and sets aside what it found nothing in.
LEMMA ReadingKeeps ==
  ASSUME ImportInv,
         Imports!ReadFile \/ Imports!ReadIdentifier \/ Imports!ReadPage \/ Imports!ReadPdf \/ Imports!ScanPdf
  PROVE  ImportInv'
<1>1. /\ saved' = saved /\ broke' = broke /\ broke = {} /\ \A e \in Entries : saved[e] = 0
      /\ call \in ImportCall /\ call.items \cap call.blank = {} /\ call.blank = {}
      /\ call.at \in {"read", "scan"} /\ saved \in [Entries -> 0..2]
  BY DEF Imports!ReadFile, Imports!ReadIdentifier, Imports!ReadPage, Imports!ReadPdf, Imports!ScanPdf,
         Imports!Unwritten, Imports!At, ImportInv, Stages
<1>0. call.rest = {}
  BY <1>1 DEF ImportInv
<1> DEFINE Fine == /\ call' \in ImportCall /\ call'.items \cap call'.blank = {} /\ call'.rest = {}
                   /\ call'.at \in {"read", "scan", "check", "done"}
                   /\ call'.at \in {"read", "scan"} => call'.blank = {}
<1>2. SUFFICES Fine
  BY <1>1 DEF ImportInv, ImportCall, Once
<1>3. ASSUME NEW told \in Told, Imports!Answers(told) PROVE Fine
  BY <1>0, <1>1, <1>3 DEF Imports!Answers, Imports!Becomes, ImportCall, Stages
<1>4. ASSUME NEW es \in SUBSET Entries, Imports!Takes(es) PROVE Fine
  BY <1>0, <1>1, <1>4 DEF Imports!Takes, Imports!Becomes, ImportCall, Stages
<1>5. Imports!FromServer => Fine
  BY <1>4 DEF Imports!FromServer
<1>6. Imports!FromBuiltin => Fine
  BY <1>3, <1>4 DEF Imports!FromBuiltin, Told
<1>7. CASE Imports!ReadFile
  <2>1. PICK p \in Imports!Payloads :
           \/ Imports!FileReading(p, "server") \/ Imports!FileReading(p, "own") \/ Imports!Answers("failed")
    BY <1>7 DEF Imports!ReadFile, Imports!OwnReading
  <2>2. call.at = "read"
    BY <1>7 DEF Imports!ReadFile, Imports!At
  <2> QED BY <1>0, <1>3, <2>1, <2>2, FileReadingSorts DEF Imports!Readers, Told
<1>8. CASE Imports!ReadIdentifier
  BY <1>5, <1>6, <1>8 DEF Imports!ReadIdentifier
<1>9. CASE Imports!ReadPage
  BY <1>3, <1>5, <1>9 DEF Imports!ReadPage, Told
<1>10. CASE Imports!ReadPdf
  <2>1. CASE Imports!Becomes([call EXCEPT !.at = "scan"])
    BY <1>0, <1>1, <2>1 DEF Imports!Becomes, ImportCall, Stages
  <2> QED BY <1>3, <1>10, <2>1 DEF Imports!ReadPdf, Told
<1>11. CASE Imports!ScanPdf
  BY <1>3, <1>5, <1>6, <1>11 DEF Imports!ScanPdf, Told
<1> HIDE DEF Fine
<1> QED BY <1>7, <1>8, <1>9, <1>10, <1>11

\* A step of a save: what it writes was not written, or only by a route that broke off.
LEMMA SavingStep ==
  ASSUME ImportInv, call' \in ImportCall, call'.items = call.items, call'.blank = call.blank,
         call'.rest \subseteq call.items, call'.at \in {"place", "attach", "done"},
         NEW es \in SUBSET call.items, Imports!Writes(es) \/ saved' = saved, broke' = broke,
         saved' = saved \/ \A e \in es : saved[e] <= IF e \in broke THEN 1 ELSE 0
  PROVE  ImportInv'
<1>1. /\ saved \in [Entries -> 0..2] /\ Once /\ call \in ImportCall /\ call.items \cap call.blank = {}
      /\ \A e \in call.blank : saved[e] = 0
  BY DEF ImportInv
<1>2. call.blank \subseteq Entries /\ call.items \subseteq Entries
  BY <1>1 DEF ImportCall
<1>3. /\ saved' \in [Entries -> 0..2] /\ Once' /\ \A e \in call.blank : saved'[e] = 0
      /\ \A e \in Entries \ call.items : saved'[e] = 0
  <2>1. CASE saved' = saved
    BY <1>1, <2>1 DEF Once, ImportInv
  <2>2. CASE saved' # saved
    <3>1. saved' = [e \in Entries |-> IF e \in es THEN saved[e] + 1 ELSE saved[e]]
      BY <2>2 DEF Imports!Writes
    <3>2. ASSUME NEW e \in Entries
          PROVE  /\ saved'[e] \in 0..2 /\ saved'[e] <= (IF e \in broke THEN 2 ELSE 1)
                 /\ e \in call.blank \/ e \notin call.items => saved'[e] = 0
      <4>1. CASE e \in es
        <5>1. saved[e] <= (IF e \in broke THEN 1 ELSE 0) /\ saved[e] \in 0..2 /\ saved'[e] = saved[e] + 1
          BY <1>1, <2>2, <3>1, <4>1
        <5>2. e \notin call.blank /\ e \in call.items
          BY <1>1, <4>1
        <5> QED BY <5>1, <5>2
      <4>2. CASE e \notin es
        BY <1>1, <3>1, <4>2 DEF Once, ImportInv
      <4> QED BY <4>1, <4>2
    <3> QED BY <1>2, <3>1, <3>2 DEF Once
  <2> QED BY <2>1, <2>2
<1> QED BY <1>3 DEF ImportInv, ImportCall

\* The local API is sent what it was not sent yet.
LEMMA SendLocalKeeps ==
  ASSUME ImportInv, Imports!SendLocal
  PROVE  ImportInv'
<1>1. /\ call.at = "local" /\ broke' = broke /\ broke = {} /\ call \in ImportCall
      /\ saved \in [Entries -> 0..2] /\ Once /\ call.rest \subseteq call.items
      /\ call.items \cap call.blank = {} /\ call.items \subseteq Entries
      /\ \A e \in call.rest : saved[e] = 0
      /\ \A e \in call.blank : saved[e] = 0
  BY DEF Imports!SendLocal, Imports!At, ImportInv, ImportCall
<1>2. PICK batch \in Imports!Batches, taken \in SUBSET call.rest :
        /\ taken \subseteq batch /\ Imports!Writes(taken)
        /\ \/ batch # call.rest /\ Imports!Becomes([call EXCEPT !.rest = @ \ batch])
           \/ /\ batch = call.rest
              /\ IF Imports!RejectedEvery(Imports!Written \cup taken)
                 THEN Imports!Becomes([call EXCEPT !.at = "connector"])
                 ELSE Imports!Landed(Imports!Written \cup taken)
           \/ Imports!Answers("failed")
  BY DEF Imports!SendLocal
<1>3. \A e \in taken : saved[e] <= IF e \in broke THEN 1 ELSE 0
  BY <1>1
<1>4. ASSUME NEW told \in Told, Imports!Answers(told)
      PROVE  ImportInv'
  <2>1. /\ call' \in ImportCall /\ call'.items = call.items /\ call'.blank = call.blank
        /\ call'.rest = call.rest /\ call'.at = "done"
    BY <1>1, <1>4 DEF Imports!Answers, Imports!Becomes, ImportCall, Stages
  <2> QED BY <1>1, <1>2, <1>3, <2>1, SavingStep
<1>5. CASE Imports!Becomes([call EXCEPT !.rest = @ \ batch])
  <2>1. /\ call' \in ImportCall /\ call'.items = call.items /\ call'.blank = call.blank
        /\ call'.rest = call.rest \ batch /\ call'.at = "local"
    BY <1>1, <1>5 DEF Imports!Becomes, ImportCall
  <2>2. saved' = [e \in Entries |-> IF e \in taken THEN saved[e] + 1 ELSE saved[e]]
    BY <1>2 DEF Imports!Writes
  <2>3. ASSUME NEW e \in Entries
        PROVE  /\ saved'[e] \in 0..1 /\ (e \in call.blank => saved'[e] = 0)
               /\ e \in call'.rest \/ e \notin call.items => saved'[e] = 0
    <3>1. CASE e \in taken
      <4>1. saved'[e] = 1 /\ e \notin call.blank /\ e \notin call'.rest /\ e \in call.items
        BY <1>1, <1>2, <2>1, <2>2, <3>1
      <4> QED BY <4>1
    <3>2. CASE e \notin taken
      <4>1. saved'[e] = saved[e] /\ saved[e] \in 0..2 /\ saved[e] <= 1
        BY <1>1, <2>2, <3>2 DEF Once
      <4> QED BY <1>1, <2>1, <4>1 DEF ImportInv
    <3> QED BY <3>1, <3>2
  <2>4. saved' \in [Entries -> 0..2]
    BY <2>2, <2>3
  <2>5. call'.rest \subseteq Entries /\ call.blank \subseteq Entries /\ call'.rest \subseteq call.items
    BY <1>1, <2>1 DEF ImportCall
  <2>6. Once'
    BY <1>1, <2>3 DEF Once
  <2> QED BY <1>1, <2>1, <2>3, <2>4, <2>5, <2>6 DEF ImportInv
<1>6. CASE /\ Imports!RejectedEvery(Imports!Written \cup taken)
           /\ Imports!Becomes([call EXCEPT !.at = "connector"])
  <2>1. /\ call' \in ImportCall /\ call'.items = call.items /\ call'.blank = call.blank
        /\ call'.rest = call.rest /\ call'.at = "connector"
    BY <1>1, <1>6 DEF Imports!Becomes, ImportCall, Stages
  <2>2. taken = {} /\ \A e \in call.items : saved[e] = 0
    BY <1>1, <1>6 DEF Imports!RejectedEvery, Imports!Written
  <2>3. saved' = saved
    BY <1>1, <1>2, <2>2 DEF Imports!Writes
  <2>4. \A e \in Entries : saved[e] = 0
    BY <2>2 DEF ImportInv
  <2> QED BY <1>1, <2>1, <2>3, <2>4 DEF ImportInv, Once
<1>7. ASSUME Imports!Landed(Imports!Written \cup taken)
      PROVE  \E told \in Told : Imports!Answers(told)
  BY <1>7 DEF Imports!Landed, Told
<1> QED BY <1>2, <1>4, <1>5, <1>6, <1>7 DEF Told

\* The routes after it are given all of the items.
LEMMA SavingKeeps ==
  ASSUME ImportInv,
         \/ Imports!Check \/ Imports!LocalUnavailable \/ Imports!SaveConnector
         \/ Imports!Place \/ Imports!Attach \/ Imports!SaveCloud
  PROVE  ImportInv'
<1>1. /\ call \in ImportCall /\ saved \in [Entries -> 0..2] /\ call.items \cap call.blank = {}
      /\ call.rest \subseteq call.items /\ call.items \subseteq Entries
  BY DEF ImportInv, ImportCall
<1>2. ASSUME NEW told \in Told, Imports!Answers(told)
      PROVE  /\ call' \in ImportCall /\ call'.items = call.items /\ call'.blank = call.blank
             /\ call'.at = "done" /\ call'.rest = call.rest
  BY <1>1, <1>2 DEF Imports!Answers, Imports!Becomes, ImportCall, Stages
<1>3. ASSUME NEW stage \in Stages, Imports!Becomes([call EXCEPT !.at = stage])
      PROVE  /\ call' \in ImportCall /\ call'.items = call.items /\ call'.blank = call.blank
             /\ call'.at = stage /\ call'.rest = call.rest
  BY <1>1, <1>3 DEF Imports!Becomes, ImportCall
<1>4. ASSUME NEW told \in Told, Imports!Answers(told), Imports!Unwritten
      PROVE  ImportInv'
  BY <1>1, <1>2, <1>4, SavingStep DEF Imports!Unwritten
<1>5. ASSUME NEW told \in Told, Imports!Answers(told), broke' = broke,
             NEW es \in SUBSET call.items, Imports!Writes(es),
             \A e \in Entries : saved[e] <= IF e \in broke THEN 1 ELSE 0
      PROVE  ImportInv'
  BY <1>1, <1>2, <1>5, SavingStep
<1>6. ASSUME NEW taken, Imports!Landed(taken)
      PROVE  \E told \in Told : Imports!Answers(told)
  BY <1>6 DEF Imports!Landed, Told
<1>7. CASE Imports!Check
  <2>1. CASE Imports!Becomes([call EXCEPT !.at = "local", !.rest = call.items])
    <3>1. /\ call' \in ImportCall /\ call'.items = call.items /\ call'.blank = call.blank
          /\ call'.at = "local" /\ call'.rest = call.items
      BY <1>1, <2>1 DEF Imports!Becomes, ImportCall, Stages
    <3> QED BY <1>1, <1>7, <3>1 DEF Imports!Check, Imports!At, Imports!Unwritten, ImportInv, Once
  <2> QED BY <1>4, <1>7, <2>1 DEF Imports!Check, Told
<1>8. CASE Imports!LocalUnavailable
  <2>1. /\ call' \in ImportCall /\ call'.items = call.items /\ call'.blank = call.blank
        /\ call'.at = "connector" /\ call'.rest = call.rest /\ saved' = saved
        /\ broke' = Imports!Written /\ call.at = "local" /\ broke = {}
    BY <1>3, <1>8 DEF Imports!LocalUnavailable, Imports!At, ImportInv, Stages
  <2>2. ASSUME NEW e \in Entries
        PROVE  /\ saved[e] <= (IF e \in Imports!Written THEN 1 ELSE 0)
    <3>1. saved[e] \in 0..2 /\ saved[e] <= 1
      BY <1>1, <2>1 DEF ImportInv, Once
    <3>2. CASE e \in call.items
      BY <3>1, <3>2 DEF Imports!Written
    <3>3. CASE e \notin call.items
      BY <3>1, <3>3 DEF ImportInv
    <3> QED BY <3>2, <3>3
  <2>3. Imports!Written \subseteq call.items
    BY DEF Imports!Written
  <2>4. Once'
    BY <1>1, <2>1, <2>2 DEF Once
  <2> QED BY <1>1, <2>1, <2>2, <2>3, <2>4 DEF ImportInv
<1>9. CASE Imports!SaveConnector
  <2>1. call.at = "connector" /\ \A e \in Entries : saved[e] <= IF e \in broke THEN 1 ELSE 0
    BY <1>9 DEF Imports!SaveConnector, Imports!At, ImportInv
  <2>2. CASE Imports!Becomes([call EXCEPT !.at = "cloud"]) /\ Imports!Unwritten
    BY <1>1, <1>3, <2>1, <2>2 DEF Imports!Unwritten, ImportInv, Once, Stages
  <2>3. CASE Imports!Writes(call.items) /\ Imports!Becomes([call EXCEPT !.at = "place"]) /\ broke' = broke
    BY <1>1, <1>3, <2>1, <2>3, SavingStep DEF Stages
  <2> QED BY <1>4, <1>5, <1>9, <2>1, <2>2, <2>3 DEF Imports!SaveConnector, Told
<1>10. CASE Imports!Place
  <2>1. CASE Imports!Becomes([call EXCEPT !.at = "attach"])
    BY <1>1, <1>3, <1>10, <2>1, SavingStep DEF Imports!Place, Imports!Unwritten, Stages
  <2> QED BY <1>4, <1>10, <2>1 DEF Imports!Place, Told
<1>11. CASE Imports!Attach
  BY <1>4, <1>11 DEF Imports!Attach, Told
<1>12. CASE Imports!SaveCloud
  <2>1. \A e \in Entries : saved[e] <= IF e \in broke THEN 1 ELSE 0
    BY <1>12 DEF Imports!SaveCloud, Imports!At, ImportInv
  <2> QED BY <1>4, <1>5, <1>6, <1>12, <2>1 DEF Imports!SaveCloud, Told
<1> QED BY <1>7, <1>8, <1>9, <1>10, <1>11, <1>12

LEMMA ImportInvKept == ImportInv /\ [Next]_vars => ImportInv'
<1> SUFFICES ASSUME ImportInv, [Next]_vars PROVE ImportInv'
  OBVIOUS
<1>1. CASE UNCHANGED importVars
  BY <1>1 DEF importVars, ImportInv, Once
<1>2. CASE Imports!ImportNext
  BY <1>2, ReadingKeeps, SendLocalKeeps, SavingKeeps DEF Imports!ImportNext
<1> QED BY <1>1, <1>2 DEF Next, vars

\* No entry of an import is saved twice, whichever routes refused it on the way, and none
\* that its reader found nothing in becomes a blank row of the library
\* (tools/import.ts:829, :1347); but for what a local save of several requests had written
\* when it broke off (:725), which is saved twice at the most.
THEOREM SavedOnceHolds == Spec => []SavedOnce
<1>1. ImportInv => SavedOnce
  <2> SUFFICES ASSUME ImportInv, NEW e \in Entries
               PROVE  saved[e] <= CASE e \in call.blank -> 0 [] e \in broke -> 2 [] OTHER -> 1
    BY DEF SavedOnce, Imports!SavedOnce
  <2>1. /\ e \in call.blank => saved[e] = 0
        /\ e \in broke => saved[e] <= 2 /\ e \notin call.blank
        /\ e \notin broke => saved[e] <= 1
    BY DEF ImportInv, Once
  <2> QED BY <2>1
<1> QED BY <1>1, ImportInvInit, ImportInvKept, PTL DEF Spec

-----------------------------------------------------------------------------
(* The user's own words.                                                   *)

WordRow == [item : Items, child : Children, version : Nat]
WordIndex ==
  [items : SUBSET Items, held : SUBSET WordRow, stamp : Nat, checkpoint : Nat, lost : SUBSET Children]
Census == [open : BOOLEAN, words : SUBSET WordRow, degraded : BOOLEAN]
WordJob ==
  [op : {"none", "build", "update"}, at : {"none", "items", "attribute", "targets", "end"}, wants : BOOLEAN,
   crawlVersion : Nat, todo : SUBSET Items, refreshed : SUBSET Items, targets : SUBSET Items,
   unheld : SUBSET Children, census : Census, gap : BOOLEAN, saved : WordIndex]

WordsTypeOK ==
  /\ clock \in Nat \ {0} /\ itemVer \in [Items -> Nat] /\ childVer \in [Children -> Nat]
  /\ home \in [Children -> Items \cup {None}] /\ gone \subseteq Children
  /\ words \in WordIndex /\ owed \in BOOLEAN /\ wordsJob \in WordJob

\* The passages of a child as it is.
IsNow(r) == r.child \in Words!Live /\ r = Words!Row(r.child)

\* No passage is of what a child was, and no child is missing, but under an item that
\* changed since.
NoneStale(held, v) ==
  \A r \in held : childVer[r.child] <= v => IsNow(r) \/ itemVer[r.item] > v
NoneMissing(held, lost, v) ==
  \A c \in Words!Live \ lost : childVer[c] <= v => Words!Row(c) \in held \/ itemVer[home[c]] > v
HonestAt(held, lost, v) == NoneStale(held, v) /\ NoneMissing(held, lost, v)

\* A child that was let go of is not held.
LostIsLost(held, lost) == \A r \in held : r.child \notin lost

\* Versions, and where the jobs stand.
Numbered ==
  /\ words.stamp <= clock /\ words.checkpoint <= clock /\ wordsJob.crawlVersion <= clock
  /\ words.checkpoint > 0 => words.stamp = 0
  /\ wordsJob.op = "none" => wordsJob = Words!NoJob
  /\ wordsJob.op = "build" => /\ words.checkpoint > 0 /\ words.checkpoint = wordsJob.crawlVersion
                              /\ wordsJob.at = "items" /\ wordsJob.todo = Items \ words.items
                              /\ owed \/ wordsJob.wants
  /\ wordsJob.op = "update" => /\ words.stamp > 0 /\ words.checkpoint = 0 /\ words.stamp <= wordsJob.crawlVersion
                               /\ wordsJob.saved.stamp = words.stamp /\ wordsJob.saved.checkpoint = 0
                               /\ \A i \in wordsJob.todo : itemVer[i] > words.stamp
                               /\ wordsJob.at # "none"
  /\ wordsJob.at \in {"attribute", "targets", "end"} => wordsJob.op = "update" /\ wordsJob.todo = {}
  /\ wordsJob.at \in {"attribute", "targets"} => wordsJob.wants
  /\ wordsJob.at = "end" => wordsJob.gap \/ ~wordsJob.wants

\* What a census says stands unless a later version says otherwise, and a whole one leaves
\* no child out.
CensusHonest ==
  /\ wordsJob.census.open => wordsJob.wants
  /\ ~wordsJob.census.open => wordsJob.census.words = {} /\ ~wordsJob.census.degraded
  /\ \A r \in wordsJob.census.words : childVer[r.child] <= wordsJob.crawlVersion => IsNow(r)
  /\ wordsJob.census.open /\ ~wordsJob.census.degraded =>
       \A c \in Words!Live : childVer[c] <= wordsJob.crawlVersion => Words!Row(c) \in wordsJob.census.words

\* The stamp means what it says, through an update and in what a rollback restores.
StampHonest ==
  ~owed /\ words.stamp > 0 =>
    /\ HonestAt(words.held, words.lost, words.stamp)
    /\ wordsJob.op = "update" => HonestAt(wordsJob.saved.held, wordsJob.saved.lost, words.stamp)

\* What a build has indexed is as it was when the build began.
BuildHonest ==
  ~owed /\ words.checkpoint > 0 =>
    /\ \A r \in words.held : childVer[r.child] <= words.checkpoint => IsNow(r)
    /\ \A c \in Words!Live \ words.lost :
         childVer[c] <= words.checkpoint /\ home[c] \in words.items => Words!Row(c) \in words.held

\* The delta: what is not as it was when the update began is in it, or newer than the stamp.
DeltaHonest ==
  ~owed /\ wordsJob.at = "items" /\ wordsJob.op = "update" /\ wordsJob.wants /\ ~wordsJob.gap =>
    /\ \A r \in words.held : childVer[r.child] <= wordsJob.crawlVersion =>
         \/ IsNow(r) \/ r.item \in wordsJob.todo
         \/ Words!Newer(r.child) /\ r.item \notin wordsJob.refreshed
    /\ \A c \in Words!Live \ words.lost : childVer[c] <= wordsJob.crawlVersion =>
         \/ Words!Row(c) \in words.held \/ home[c] \in wordsJob.todo
         \/ Words!Newer(c) /\ home[c] \notin wordsJob.refreshed

\* What the delta refreshed is there.
Refreshed ==
  wordsJob.at \in {"items", "attribute"} /\ wordsJob.op = "update" /\ wordsJob.wants /\ ~wordsJob.gap =>
    \A c \in Words!Live : childVer[c] <= wordsJob.crawlVersion /\ home[c] \in wordsJob.refreshed =>
      Words!Row(c) \in words.held

\* The catch-up: what is still to be read again.
CatchUpHonest ==
  ~owed /\ wordsJob.at \in {"attribute", "targets"} /\ ~wordsJob.gap =>
    /\ \A r \in words.held : childVer[r.child] <= wordsJob.crawlVersion =>
         IsNow(r) \/ r.item \in wordsJob.targets
    /\ \A c \in Words!Live \ words.lost : childVer[c] <= wordsJob.crawlVersion =>
         \/ \E r \in words.held : r.child = c
         \/ home[c] \in wordsJob.targets
         \/ wordsJob.at = "attribute" /\ c \in wordsJob.unheld

WordsInv ==
  /\ WordsTypeOK /\ Numbered /\ CensusHonest
  /\ LostIsLost(words.held, words.lost) /\ LostIsLost(wordsJob.saved.held, wordsJob.saved.lost)
  /\ StampHonest /\ BuildHonest /\ DeltaHonest /\ Refreshed /\ CatchUpHonest

LEMMA NothingHeard ==
  /\ Words!EmptyIndex \in WordIndex /\ Words!NoCensus \in Census /\ Words!NoJob \in WordJob
  /\ Words!EmptyIndex.held = {} /\ Words!EmptyIndex.lost = {} /\ Words!EmptyIndex.stamp = 0
  /\ Words!EmptyIndex.checkpoint = 0 /\ Words!EmptyIndex.items = {}
  /\ Words!NoJob.op = "none" /\ Words!NoJob.at = "none" /\ Words!NoJob.crawlVersion = 0
  /\ Words!NoJob.census = Words!NoCensus /\ Words!NoJob.saved = Words!EmptyIndex
  /\ ~Words!NoCensus.open /\ Words!NoCensus.words = {} /\ ~Words!NoCensus.degraded
<1>1. Words!EmptyIndex \in WordIndex /\ Words!NoCensus \in Census
  BY DEF Words!EmptyIndex, Words!NoCensus, WordIndex, Census
<1>2. Words!NoJob \in WordJob
  BY <1>1 DEF Words!NoJob, WordJob
<1> QED BY <1>1, <1>2 DEF Words!NoJob, Words!EmptyIndex, Words!NoCensus

LEMMA RowIs ==
  ASSUME WordsTypeOK, NEW c \in Words!Live
  PROVE  /\ c \in Children /\ home[c] \in Items /\ Words!Row(c) \in WordRow
         /\ Words!Row(c).child = c /\ Words!Row(c).item = home[c] /\ IsNow(Words!Row(c))
<1>1. c \in Children /\ home[c] \in Items /\ childVer[c] \in Nat
  BY DEF Words!Live, WordsTypeOK
<1> QED BY <1>1 DEF Words!Row, WordRow, IsNow

\* While no user changes anything, what a reader would find stays.
LEMMA LibraryStands ==
  ASSUME UNCHANGED <<clock, itemVer, home, gone, childVer>>
  PROVE  /\ Words!Live' = Words!Live /\ \A c : Words!Row(c)' = Words!Row(c)
         /\ \A r : IsNow(r)' <=> IsNow(r)
         /\ \A held, v : NoneStale(held, v)' <=> NoneStale(held, v)
         /\ \A held, lost, v : NoneMissing(held, lost, v)' <=> NoneMissing(held, lost, v)
         /\ \A held, lost, v : HonestAt(held, lost, v)' <=> HonestAt(held, lost, v)
<1>1. Words!Live' = Words!Live /\ \A c : Words!Row(c)' = Words!Row(c)
  BY DEF Words!Live, Words!Row
<1>2. \A r : IsNow(r)' <=> IsNow(r)
  BY <1>1 DEF IsNow
<1>3. \A held, v : NoneStale(held, v)' <=> NoneStale(held, v)
  BY <1>2 DEF NoneStale
<1>4. \A held, lost, v : NoneMissing(held, lost, v)' <=> NoneMissing(held, lost, v)
  BY <1>1 DEF NoneMissing
<1> QED BY <1>1, <1>2, <1>3, <1>4 DEF HonestAt

LEMMA WordsInvInit == Init => WordsInv
<1> SUFFICES ASSUME Init PROVE WordsInv
  OBVIOUS
<1>1. /\ clock = 1 /\ itemVer = [i \in Items |-> 1] /\ childVer = [c \in Children |-> 1]
      /\ home \in [Children -> Items \cup {None}] /\ gone = {}
      /\ words = Words!EmptyIndex /\ owed = FALSE /\ wordsJob = Words!NoJob
  BY DEF Init, Words!WordsInit
<1>2. WordsTypeOK
  <2>1. words \in WordIndex /\ wordsJob \in WordJob
    BY <1>1, NothingHeard
  <2>2. owed \in BOOLEAN
    BY <1>1
  <2>3. /\ clock \in Nat \ {0} /\ itemVer \in [Items -> Nat] /\ childVer \in [Children -> Nat]
        /\ home \in [Children -> Items \cup {None}] /\ gone \subseteq Children
    BY <1>1
  <2> QED BY <2>1, <2>2, <2>3 DEF WordsTypeOK
<1>3. /\ words.stamp = 0 /\ words.checkpoint = 0 /\ words.held = {} /\ wordsJob.op = "none"
      /\ wordsJob.at = "none" /\ wordsJob.crawlVersion = 0 /\ ~wordsJob.census.open
      /\ wordsJob.census.words = {} /\ ~wordsJob.census.degraded /\ wordsJob.saved.held = {}
  BY <1>1, NothingHeard
<1>4. Numbered
  BY <1>1, <1>3 DEF Numbered
<1>5. CensusHonest
  BY <1>3 DEF CensusHonest
<1>6. LostIsLost(words.held, words.lost) /\ LostIsLost(wordsJob.saved.held, wordsJob.saved.lost)
  BY <1>3 DEF LostIsLost
<1> QED BY <1>2, <1>3, <1>4, <1>5, <1>6
     DEF WordsInv, StampHonest, BuildHonest, DeltaHonest, Refreshed, CatchUpHonest

-----------------------------------------------------------------------------
(* What the users do.                                                      *)

LibraryStep ==
  \/ \E c \in Children : Words!RemoveChild(c) \/ \E i \in Items : Words!WriteChild(c, i)
  \/ \E i \in Items : Words!EditItem(i)

LEMMA LibraryMoves ==
  ASSUME WordsTypeOK, LibraryStep
  PROVE  /\ clock' = clock + 1 /\ UNCHANGED <<words, owed, wordsJob>> /\ WordsTypeOK'
         /\ \A c \in Children :
              \/ childVer'[c] = clock + 1
              \/ /\ childVer'[c] = childVer[c] /\ home'[c] = home[c]
                 /\ (c \in Words!Live)' <=> c \in Words!Live
         /\ \A i \in Items : itemVer'[i] = clock + 1 \/ itemVer'[i] = itemVer[i]
<1>1. ASSUME NEW c \in Children, Words!RemoveChild(c)
      PROVE  /\ clock' = clock + 1 /\ UNCHANGED <<words, owed, wordsJob, itemVer, home>>
             /\ childVer' = [childVer EXCEPT ![c] = clock + 1] /\ gone' = gone \cup {c}
  BY <1>1 DEF Words!RemoveChild
<1>2. ASSUME NEW c \in Children, NEW i \in Items, Words!WriteChild(c, i)
      PROVE  /\ clock' = clock + 1 /\ UNCHANGED <<words, owed, wordsJob, itemVer>>
             /\ childVer' = [childVer EXCEPT ![c] = clock + 1] /\ gone' = gone \ {c}
             /\ home' = [home EXCEPT ![c] = i]
  BY <1>2 DEF Words!WriteChild
<1>3. ASSUME NEW i \in Items, Words!EditItem(i)
      PROVE  /\ clock' = clock + 1 /\ UNCHANGED <<words, owed, wordsJob, home, gone, childVer>>
             /\ itemVer' = [itemVer EXCEPT ![i] = clock + 1]
  BY <1>3 DEF Words!EditItem
<1> QED BY <1>1, <1>2, <1>3 DEF LibraryStep, WordsTypeOK, Words!Live

\* A version up to a past one is of what did not change since.
LEMMA Past ==
  ASSUME WordsTypeOK, LibraryStep, NEW v \in Nat, v <= clock
  PROVE  /\ \A c \in Children : childVer'[c] <= v =>
              /\ childVer[c] <= v /\ home'[c] = home[c] /\ Words!Row(c)' = Words!Row(c)
              /\ (c \in Words!Live)' <=> c \in Words!Live
         /\ \A i \in Items : itemVer[i] > v => itemVer'[i] > v
         /\ \A r \in WordRow : childVer'[r.child] <= v => (IsNow(r)' <=> IsNow(r))
         /\ \A held \in SUBSET WordRow : \A lost : HonestAt(held, lost, v) => HonestAt(held, lost, v)'
<1>1. /\ \A c \in Children : childVer'[c] <= v =>
              /\ childVer'[c] = childVer[c] /\ home'[c] = home[c]
              /\ (c \in Words!Live)' <=> c \in Words!Live
      /\ \A i \in Items : itemVer[i] > v => itemVer'[i] > v
      /\ clock \in Nat
  BY LibraryMoves DEF WordsTypeOK
<1>2. \A c \in Children : childVer'[c] <= v => Words!Row(c)' = Words!Row(c)
  BY <1>1 DEF Words!Row
<1>3. \A r \in WordRow : r.child \in Children /\ r.item \in Items
  BY DEF WordRow
<1>4. \A r \in WordRow : childVer'[r.child] <= v => (IsNow(r)' <=> IsNow(r))
  BY <1>1, <1>2, <1>3 DEF IsNow
<1>5. ASSUME NEW held \in SUBSET WordRow, NEW lost, HonestAt(held, lost, v) PROVE HonestAt(held, lost, v)'
  <2>1. NoneStale(held, v)'
    BY <1>1, <1>3, <1>4, <1>5 DEF HonestAt, NoneStale
  <2>2. ASSUME NEW c \in Words!Live', c \notin lost, childVer'[c] <= v
        PROVE  Words!Row(c)' \in held \/ itemVer'[home'[c]] > v
    <3>1. c \in Children
      BY <2>2 DEF Words!Live
    <3>2. c \in Words!Live /\ childVer[c] <= v /\ home'[c] = home[c] /\ Words!Row(c)' = Words!Row(c)
      BY <1>1, <1>2, <2>2, <3>1
    <3>3. home[c] \in Items
      BY <3>2, RowIs
    <3> QED BY <1>1, <1>5, <2>2, <3>2, <3>3 DEF HonestAt, NoneMissing
  <2> QED BY <2>1, <2>2 DEF HonestAt, NoneMissing
<1> QED BY <1>1, <1>2, <1>4, <1>5

LEMMA LibraryKeepsWords == ASSUME WordsInv, LibraryStep PROVE WordsInv'
<1>1. /\ WordsTypeOK /\ Numbered /\ CensusHonest /\ StampHonest /\ BuildHonest /\ DeltaHonest /\ Refreshed /\ CatchUpHonest
  BY DEF WordsInv
<1>2. clock' = clock + 1 /\ UNCHANGED <<words, owed, wordsJob>> /\ WordsTypeOK'
  BY <1>1, LibraryMoves
<1>3. /\ clock \in Nat /\ words.stamp \in Nat /\ words.checkpoint \in Nat /\ wordsJob.crawlVersion \in Nat
      /\ words.stamp <= clock /\ words.checkpoint <= clock /\ wordsJob.crawlVersion <= clock
      /\ words.held \in SUBSET WordRow /\ wordsJob.saved.held \in SUBSET WordRow
      /\ wordsJob.census.words \in SUBSET WordRow /\ wordsJob.todo \subseteq Items
  BY <1>1 DEF WordsTypeOK, WordIndex, WordJob, Census, Numbered
<1>4. \A r \in WordRow : r.child \in Children
  BY DEF WordRow
<1>5. \A c \in Words!Live' : c \in Children
  BY DEF Words!Live
<1>6. Numbered'
  BY <1>1, <1>2, <1>3, Past DEF Numbered
<1>7. CensusHonest'
  BY <1>1, <1>2, <1>3, <1>4, <1>5, Past DEF CensusHonest
<1>8. StampHonest'
  BY <1>1, <1>2, <1>3, Past DEF StampHonest
<1>9. BuildHonest'
  BY <1>1, <1>2, <1>3, <1>4, <1>5, Past DEF BuildHonest
<1>10. \A c : Words!Newer(c)' <=> childVer'[c] > wordsJob.saved.stamp
  BY <1>2 DEF Words!Newer
<1>11. \A c \in Children : childVer'[c] <= wordsJob.crawlVersion => (Words!Newer(c)' <=> Words!Newer(c))
  <2>1. \A c \in Children : childVer'[c] <= wordsJob.crawlVersion => childVer'[c] = childVer[c]
    BY <1>1, <1>3, LibraryMoves DEF WordsTypeOK
  <2> QED BY <1>10, <2>1 DEF Words!Newer
<1>12. DeltaHonest'
  BY <1>1, <1>2, <1>3, <1>4, <1>5, <1>11, Past DEF DeltaHonest
<1>13. Refreshed'
  BY <1>1, <1>2, <1>3, <1>5, Past DEF Refreshed
<1>14. CatchUpHonest'
  BY <1>1, <1>2, <1>3, <1>4, <1>5, Past DEF CatchUpHonest
<1> QED BY <1>2, <1>6, <1>7, <1>8, <1>9, <1>12, <1>13, <1>14 DEF WordsInv

-----------------------------------------------------------------------------
(* An item's own words, replaced.                                          *)

LEMMA WordTypes ==
  ASSUME WordsTypeOK
  PROVE  /\ words.items \subseteq Items /\ words.held \subseteq WordRow /\ words.stamp \in Nat
         /\ words.checkpoint \in Nat /\ words.lost \subseteq Children /\ clock \in Nat \ {0}
         /\ wordsJob.todo \subseteq Items /\ wordsJob.refreshed \subseteq Items
         /\ wordsJob.targets \subseteq Items /\ wordsJob.unheld \subseteq Children
         /\ wordsJob.crawlVersion \in Nat /\ wordsJob.census \in Census /\ wordsJob.saved \in WordIndex
         /\ wordsJob.census.words \subseteq WordRow /\ wordsJob.saved.held \subseteq WordRow
         /\ wordsJob.saved.stamp \in Nat /\ wordsJob.gap \in BOOLEAN /\ wordsJob.wants \in BOOLEAN
         /\ wordsJob.at \in {"none", "items", "attribute", "targets", "end"}
         /\ \A c \in Children : childVer[c] \in Nat
         /\ \A i \in Items : itemVer[i] \in Nat
         /\ \A r \in WordRow : r.child \in Children /\ r.item \in Items
BY DEF WordsTypeOK, WordIndex, WordJob, Census, WordRow

LEMMA WithWordsIs ==
  ASSUME WordsTypeOK, NEW i \in Items
  PROVE  /\ Words!WithWords(i) \in WordIndex /\ Words!WithWords(i).items = words.items
         /\ Words!WithWords(i).stamp = words.stamp /\ Words!WithWords(i).checkpoint = words.checkpoint
         /\ \A r : r \in Words!WithWords(i).held <=>
              (r \in words.held /\ r.item # i) \/ (r \in wordsJob.census.words /\ r.item = i)
         /\ \A c : c \in Words!WithWords(i).lost <=>
              /\ \A r \in Words!WithWords(i).held : r.child # c
              /\ \/ c \in words.lost
                 \/ /\ \E r \in words.held : r.item = i /\ r.child = c
                    /\ \E r \in wordsJob.census.words : r.child = c
         /\ LostIsLost(Words!WithWords(i).held, Words!WithWords(i).lost)
<1> DEFINE held == (words.held \ Words!Under(i, words.held)) \cup Words!InCensus(i)
           left == Words!ChildrenOf(Words!Under(i, words.held)) \cap Words!ChildrenOf(wordsJob.census.words)
           lost == (words.lost \cup left) \ Words!ChildrenOf(held)
<1>1. Words!WithWords(i) = [words EXCEPT !.held = held, !.lost = lost]
  BY DEF Words!WithWords
<1>2. \A r : r \in held <=> (r \in words.held /\ r.item # i) \/ (r \in wordsJob.census.words /\ r.item = i)
  BY DEF Words!Under, Words!InCensus
<1>3. \A c : c \in left <=> /\ \E r \in words.held : r.item = i /\ r.child = c
                            /\ \E r \in wordsJob.census.words : r.child = c
  BY DEF Words!ChildrenOf, Words!Under
<1>4. \A c : c \in Words!ChildrenOf(held) <=> \E r \in held : r.child = c
  BY DEF Words!ChildrenOf
<1>5. held \subseteq WordRow /\ lost \subseteq Children
  BY <1>2, <1>3, WordTypes
<1>6. \A c : c \in lost <=> (\A r \in held : r.child # c) /\ (c \in words.lost \/ c \in left)
  BY <1>4
<1> HIDE DEF held, left, lost
<1>7. /\ Words!WithWords(i) \in WordIndex /\ Words!WithWords(i).held = held /\ Words!WithWords(i).lost = lost
      /\ Words!WithWords(i).items = words.items /\ Words!WithWords(i).stamp = words.stamp
      /\ Words!WithWords(i).checkpoint = words.checkpoint
  BY <1>1, <1>5 DEF WordsTypeOK, WordIndex
<1>8. LostIsLost(held, lost)
  BY <1>6 DEF LostIsLost
<1> QED BY <1>2, <1>3, <1>6, <1>7, <1>8

\* What a census brings is as it is, and nothing else of the item stays; a child let go of
\* that is no longer so is under this item.
LEMMA Replaced ==
  ASSUME WordsInv, NEW i \in Items
  PROVE  /\ \A r \in Words!WithWords(i).held :
              \/ r \in words.held /\ r.item # i
              \/ r \in WordRow /\ r.item = i /\ (childVer[r.child] <= wordsJob.crawlVersion => IsNow(r))
         /\ \A c \in Words!Live : childVer[c] <= wordsJob.crawlVersion /\ home[c] # i =>
              /\ Words!Row(c) \in words.held => Words!Row(c) \in Words!WithWords(i).held
              /\ c \in words.lost => c \in Words!WithWords(i).lost
         /\ wordsJob.census.open /\ ~wordsJob.census.degraded =>
              \A c \in Words!Live : childVer[c] <= wordsJob.crawlVersion =>
                /\ home[c] = i => Words!Row(c) \in Words!WithWords(i).held
                /\ c \notin Words!WithWords(i).lost /\ (\E r \in words.held : r.child = c)
                     => \E r \in Words!WithWords(i).held : r.child = c
<1>1. WordsTypeOK /\ CensusHonest
  BY DEF WordsInv
<1>2. \A r \in Words!WithWords(i).held :
        \/ r \in words.held /\ r.item # i
        \/ r \in WordRow /\ r.item = i /\ (childVer[r.child] <= wordsJob.crawlVersion => IsNow(r))
  BY <1>1, WithWordsIs, WordTypes DEF CensusHonest
<1>3. ASSUME NEW c \in Words!Live, childVer[c] <= wordsJob.crawlVersion, home[c] # i, Words!Row(c) \in words.held
      PROVE  Words!Row(c) \in Words!WithWords(i).held
  BY <1>1, <1>3, WithWordsIs, RowIs
<1>4. ASSUME NEW c \in Words!Live, childVer[c] <= wordsJob.crawlVersion, home[c] # i, c \in words.lost
      PROVE  c \in Words!WithWords(i).lost
  <2>1. \A r \in Words!WithWords(i).held : r.child # c
    <3> SUFFICES ASSUME NEW r \in Words!WithWords(i).held, r.child = c PROVE FALSE
      OBVIOUS
    <3>1. r \notin words.held
      BY <1>4 DEF WordsInv, LostIsLost
    <3>2. r.item = i /\ IsNow(r)
      BY <1>2, <1>4, <3>1
    <3>3. r = Words!Row(c)
      BY <3>2 DEF IsNow
    <3> QED BY <1>1, <1>4, <3>2, <3>3, RowIs
  <2> QED BY <1>1, <1>4, <2>1, WithWordsIs
<1>5. ASSUME wordsJob.census.open, ~wordsJob.census.degraded,
             NEW c \in Words!Live, childVer[c] <= wordsJob.crawlVersion
      PROVE  /\ home[c] = i => Words!Row(c) \in Words!WithWords(i).held
             /\ c \notin Words!WithWords(i).lost /\ (\E r \in words.held : r.child = c)
                  => \E r \in Words!WithWords(i).held : r.child = c
  <2>1. Words!Row(c) \in wordsJob.census.words /\ Words!Row(c).child = c /\ Words!Row(c).item = home[c]
    BY <1>1, <1>5, RowIs DEF CensusHonest
  <2>2. home[c] = i => Words!Row(c) \in Words!WithWords(i).held
    BY <1>1, <2>1, WithWordsIs
  <2>3. ASSUME c \notin Words!WithWords(i).lost, NEW r \in words.held, r.child = c
        PROVE  \E s \in Words!WithWords(i).held : s.child = c
    <3>1. CASE r.item # i
      BY <1>1, <2>3, <3>1, WithWordsIs
    <3>2. CASE r.item = i
      BY <1>1, <2>1, <2>3, <3>2, WithWordsIs
    <3> QED BY <3>1, <3>2
  <2> QED BY <2>2, <2>3
<1> QED BY <1>2, <1>3, <1>4, <1>5

-----------------------------------------------------------------------------
(* What a job does.                                                        *)

LEMMA StartBuildKeeps ==
  ASSUME WordsInv, NEW again \in BOOLEAN, NEW asks \in BOOLEAN, Words!StartBuild(again, asks)
  PROVE  WordsInv'
<1> DEFINE resume == words.checkpoint > 0 /\ ~again
           from == IF resume THEN words.checkpoint ELSE clock
<1>1. /\ WordsTypeOK /\ Numbered /\ BuildHonest /\ LostIsLost(words.held, words.lost)
      /\ words.items \subseteq Items /\ words.checkpoint \in Nat /\ clock \in Nat \ {0}
  BY WordTypes DEF WordsInv
<1>2. /\ wordsJob.op = "none" /\ UNCHANGED <<clock, itemVer, home, gone, childVer>>
      /\ words' = [IF resume THEN words ELSE Words!EmptyIndex EXCEPT !.checkpoint = from]
      /\ owed' = ((owed /\ resume) \/ ~asks)
      /\ wordsJob' = [Words!NoJob EXCEPT !.op = "build", !.at = "items", !.wants = asks, !.crawlVersion = from,
                        !.todo = IF resume THEN Items \ words.items ELSE Items]
  BY DEF Words!StartBuild, Words!library
<1>3. from \in Nat /\ from > 0 /\ from <= clock /\ (resume => from = words.checkpoint /\ words.stamp = 0)
  BY <1>1 DEF Numbered
<1> HIDE DEF from
<1>4. words' \in WordIndex
  BY <1>1, <1>2, <1>3, NothingHeard DEF WordsTypeOK, WordIndex
<1>5. wordsJob' \in WordJob
  BY <1>1, <1>2, <1>3, NothingHeard DEF WordJob
<1>6. owed' \in BOOLEAN
  BY <1>1, <1>2 DEF WordsTypeOK
<1>7. WordsTypeOK'
  BY <1>1, <1>2, <1>4, <1>5, <1>6 DEF WordsTypeOK
<1>8. /\ words'.stamp = 0 /\ words'.checkpoint = from /\ wordsJob'.op = "build" /\ wordsJob'.at = "items"
      /\ wordsJob'.wants = asks /\ wordsJob'.crawlVersion = from /\ wordsJob'.todo = Items \ words'.items
      /\ wordsJob'.census = Words!NoCensus /\ wordsJob'.saved = Words!EmptyIndex
      /\ words'.held = (IF resume THEN words.held ELSE {}) /\ words'.lost = (IF resume THEN words.lost ELSE {})
      /\ words'.items = (IF resume THEN words.items ELSE {})
  BY <1>1, <1>2, <1>3 DEF WordsTypeOK, WordIndex, Words!NoJob, Words!EmptyIndex
<1>9. (owed' \/ wordsJob'.wants) /\ (~owed' => ~resume \/ ~owed)
  <2>1. wordsJob'.wants = asks /\ owed' = ((owed /\ resume) \/ ~asks)
    BY <1>2, <1>8
  <2> HIDE DEF resume
  <2> QED BY ONLY <2>1, Zenon
<1>10. Numbered'
  <2>1. clock' = clock /\ 0 <= clock
    BY <1>1, <1>2
  <2>2. words'.checkpoint <= clock' /\ wordsJob'.crawlVersion <= clock' /\ words'.stamp <= clock'
    BY <1>3, <1>8, <2>1
  <2>3. /\ wordsJob'.op = "build" /\ wordsJob'.at = "items" /\ words'.checkpoint > 0
        /\ words'.checkpoint = wordsJob'.crawlVersion /\ words'.stamp = 0
        /\ wordsJob'.todo = Items \ words'.items
    BY <1>3, <1>8
  <2> QED BY ONLY <1>9, <2>2, <2>3 DEF Numbered
<1>11. CensusHonest' /\ StampHonest' /\ DeltaHonest' /\ Refreshed' /\ CatchUpHonest'
  BY <1>8, NothingHeard DEF CensusHonest, StampHonest, DeltaHonest, Refreshed, CatchUpHonest
<1>12. LostIsLost(words.held, words.lost)' /\ LostIsLost(wordsJob.saved.held, wordsJob.saved.lost)'
  BY <1>1, <1>8, NothingHeard DEF LostIsLost
<1>13. BuildHonest'
  <2>1. CASE resume
    <3>1. words'.held = words.held /\ words'.lost = words.lost /\ words'.items = words.items
      BY <1>8, <2>1
    <3>2. words'.checkpoint = words.checkpoint /\ (~owed' => ~owed)
      BY <1>3, <1>8, <1>9, <2>1
    <3>3. UNCHANGED <<clock, itemVer, home, gone, childVer>>
      BY <1>2
    <3> HIDE DEF resume
    <3> QED BY <1>1, <3>1, <3>2, <3>3, LibraryStands DEF BuildHonest
  <2>2. CASE ~resume
    BY <1>8, <2>2 DEF BuildHonest
  <2> QED BY <2>1, <2>2
<1> QED BY <1>7, <1>10, <1>11, <1>12, <1>13 DEF WordsInv

LEMMA StartUpdateKeeps ==
  ASSUME WordsInv, NEW asks \in BOOLEAN, Words!StartUpdate(asks)
  PROVE  WordsInv'
<1>1. /\ WordsTypeOK /\ Numbered /\ StampHonest /\ LostIsLost(words.held, words.lost)
  BY DEF WordsInv
<1>2. /\ words.stamp > 0 /\ UNCHANGED <<clock, itemVer, home, gone, childVer>> /\ UNCHANGED <<words, owed>>
      /\ wordsJob' = [Words!NoJob EXCEPT !.op = "update", !.at = "items", !.wants = asks, !.crawlVersion = clock,
                        !.saved = words, !.todo = {i \in Items : itemVer[i] > words.stamp}]
  BY DEF Words!StartUpdate, Words!library
<1>3. words.checkpoint = 0 /\ words.stamp <= clock
  BY <1>1, <1>2, WordTypes DEF Numbered
<1>4. wordsJob' \in WordJob
  BY <1>1, <1>2, NothingHeard DEF WordJob, WordsTypeOK
<1>5. WordsTypeOK'
  BY <1>1, <1>2, <1>4 DEF WordsTypeOK
<1>6. /\ wordsJob'.op = "update" /\ wordsJob'.at = "items" /\ wordsJob'.crawlVersion = clock
      /\ wordsJob'.saved = words /\ wordsJob'.todo = {i \in Items : itemVer[i] > words.stamp}
      /\ wordsJob'.census = Words!NoCensus /\ wordsJob'.refreshed = {}
  BY <1>2 DEF Words!NoJob
<1>7. Numbered'
  BY <1>1, <1>2, <1>3, <1>6, WordTypes DEF Numbered
<1>8. CensusHonest' /\ Refreshed' /\ CatchUpHonest' /\ BuildHonest'
  BY <1>2, <1>3, <1>6, NothingHeard DEF CensusHonest, Refreshed, CatchUpHonest, BuildHonest
<1>9. StampHonest' /\ LostIsLost(words.held, words.lost)' /\ LostIsLost(wordsJob.saved.held, wordsJob.saved.lost)'
  BY <1>1, <1>2, <1>6, LibraryStands DEF StampHonest, LostIsLost
<1>10. DeltaHonest'
  <2> SUFFICES ASSUME ~owed PROVE DeltaHonest'
    BY <1>2 DEF DeltaHonest
  <2>1. NoneStale(words.held, words.stamp) /\ NoneMissing(words.held, words.lost, words.stamp)
    BY <1>1, <1>2 DEF StampHonest, HonestAt
  <2>2. \A c : Words!Newer(c)' <=> childVer[c] > words.stamp
    BY <1>2, <1>6 DEF Words!Newer
  <2>3. \A r \in words.held : IsNow(r) \/ r.item \in wordsJob'.todo \/ Words!Newer(r.child)'
    BY <1>1, <1>6, <2>1, <2>2, WordTypes DEF NoneStale
  <2>4. \A c \in Words!Live \ words.lost :
          Words!Row(c) \in words.held \/ home[c] \in wordsJob'.todo \/ Words!Newer(c)'
    BY <1>1, <1>6, <2>1, <2>2, WordTypes, RowIs DEF NoneMissing
  <2> QED BY <1>2, <1>6, <2>3, <2>4, LibraryStands DEF DeltaHonest
<1> QED BY <1>5, <1>7, <1>8, <1>9, <1>10 DEF WordsInv

LEMMA TakeCensusKeeps ==
  ASSUME WordsInv, Words!TakeCensus
  PROVE  WordsInv'
<1>1. WordsTypeOK /\ Numbered /\ CensusHonest
  BY DEF WordsInv
<1>2. PICK listed \in SUBSET Words!Live, degraded \in BOOLEAN :
        /\ listed # Words!Live => degraded
        /\ wordsJob' = [wordsJob EXCEPT !.census = [open |-> TRUE, degraded |-> degraded,
                                                    words |-> {Words!Row(c) : c \in listed}]]
  BY DEF Words!TakeCensus
<1>3. wordsJob.wants /\ UNCHANGED <<clock, itemVer, home, gone, childVer>> /\ UNCHANGED <<words, owed>>
  BY DEF Words!TakeCensus, Words!NeedsCensus, Words!library
<1>4. {Words!Row(c) : c \in listed} \subseteq WordRow
  BY <1>1, RowIs
<1>5. wordsJob' \in WordJob
  BY <1>1, <1>2, <1>4 DEF WordsTypeOK, WordJob, Census
<1>6. WordsTypeOK'
  BY <1>1, <1>3, <1>5 DEF WordsTypeOK
<1>7. /\ \A f \in {"op", "at", "wants", "crawlVersion", "todo", "refreshed", "targets", "unheld", "gap", "saved"} :
           wordsJob'[f] = wordsJob[f]
      /\ wordsJob'.census.open /\ wordsJob'.census.degraded = degraded
      /\ wordsJob'.census.words = {Words!Row(c) : c \in listed}
  BY <1>1, <1>2 DEF WordsTypeOK, WordJob
<1>8. /\ wordsJob'.op = wordsJob.op /\ wordsJob'.at = wordsJob.at /\ wordsJob'.wants = wordsJob.wants
      /\ wordsJob'.crawlVersion = wordsJob.crawlVersion /\ wordsJob'.todo = wordsJob.todo
      /\ wordsJob'.refreshed = wordsJob.refreshed /\ wordsJob'.targets = wordsJob.targets
      /\ wordsJob'.unheld = wordsJob.unheld /\ wordsJob'.gap = wordsJob.gap /\ wordsJob'.saved = wordsJob.saved
  BY <1>7
<1>9. wordsJob.op # "none"
  BY <1>1, NothingHeard DEF Words!TakeCensus, Words!NeedsCensus, Numbered
<1>10. Numbered'
  BY <1>1, <1>3, <1>8, <1>9 DEF Numbered
<1>11. CensusHonest'
  BY <1>1, <1>2, <1>3, <1>7, <1>8, LibraryStands, RowIs DEF CensusHonest
<1>12. \A c : Words!Newer(c)' <=> Words!Newer(c)
  BY <1>3, <1>8 DEF Words!Newer
<1>13. /\ StampHonest' /\ BuildHonest' /\ DeltaHonest' /\ Refreshed' /\ CatchUpHonest'
       /\ LostIsLost(words.held, words.lost)' /\ LostIsLost(wordsJob.saved.held, wordsJob.saved.lost)'
  <2>1. StampHonest' /\ BuildHonest'
    BY <1>3, <1>8, LibraryStands DEF WordsInv, StampHonest, BuildHonest
  <2>2. DeltaHonest'
    BY <1>3, <1>8, <1>12, LibraryStands DEF WordsInv, DeltaHonest
  <2>3. Refreshed' /\ CatchUpHonest'
    BY <1>3, <1>8, LibraryStands DEF WordsInv, Refreshed, CatchUpHonest
  <2> QED BY <1>3, <1>8, <2>1, <2>2, <2>3 DEF WordsInv, LostIsLost
<1> QED BY <1>6, <1>10, <1>11, <1>13 DEF WordsInv

\* What a step changes when an item's own words are replaced.
LEMMA ReplacedTypes ==
  ASSUME WordsTypeOK, NEW i \in Items, wordsJob' \in WordJob, owed' \in BOOLEAN,
         words' = Words!WithWords(i) \/ words' = [Words!WithWords(i) EXCEPT !.items = @ \cup {i}],
         UNCHANGED <<clock, itemVer, home, gone, childVer>>
  PROVE  /\ WordsTypeOK' /\ LostIsLost(words.held, words.lost)'
         /\ words'.held = Words!WithWords(i).held /\ words'.lost = Words!WithWords(i).lost
         /\ words'.stamp = words.stamp /\ words'.checkpoint = words.checkpoint
<1>1. /\ Words!WithWords(i) \in WordIndex /\ Words!WithWords(i).stamp = words.stamp
      /\ Words!WithWords(i).checkpoint = words.checkpoint
      /\ LostIsLost(Words!WithWords(i).held, Words!WithWords(i).lost)
  BY WithWordsIs
<1> DEFINE W == Words!WithWords(i)
<1> HIDE DEF W
<1>2. W \in WordIndex /\ W.stamp = words.stamp /\ W.checkpoint = words.checkpoint
      /\ (words' = W \/ words' = [W EXCEPT !.items = @ \cup {i}])
  BY <1>1 DEF W
<1>3. words' \in WordIndex /\ words'.held = W.held /\ words'.lost = W.lost /\ words'.stamp = W.stamp
      /\ words'.checkpoint = W.checkpoint
  BY <1>2 DEF WordIndex
<1>4. WordsTypeOK'
  BY <1>3 DEF WordsTypeOK
<1> QED BY <1>1, <1>2, <1>3, <1>4 DEF W, LostIsLost

LEMMA IndexItemKeeps ==
  ASSUME WordsInv, NEW i \in Items, Words!IndexItem(i)
  PROVE  WordsInv'
<1>1. WordsTypeOK /\ Numbered /\ CensusHonest /\ BuildHonest
  BY DEF WordsInv
<1>2. /\ wordsJob.op = "build" /\ i \in wordsJob.todo /\ UNCHANGED <<clock, itemVer, home, gone, childVer>>
      /\ wordsJob' = [wordsJob EXCEPT !.todo = @ \ {i}]
      /\ words' = [Words!WithWords(i) EXCEPT !.items = @ \cup {i}]
      /\ owed' = (owed \/ wordsJob.census.degraded)
  BY DEF Words!IndexItem, Words!library
<1>3. /\ words.checkpoint = wordsJob.crawlVersion /\ words.checkpoint > 0 /\ words.stamp = 0
      /\ wordsJob.at = "items" /\ wordsJob.todo = Items \ words.items
  BY <1>1, <1>2 DEF Numbered
<1>4. owed' \in BOOLEAN /\ wordsJob.census.degraded \in BOOLEAN /\ owed \in BOOLEAN
  BY <1>1, <1>2 DEF WordsTypeOK, WordJob, Census
<1>5. /\ wordsJob' \in WordJob /\ wordsJob'.op = "build" /\ wordsJob'.at = "items"
      /\ wordsJob'.todo = wordsJob.todo \ {i} /\ wordsJob'.crawlVersion = wordsJob.crawlVersion
      /\ wordsJob'.wants = wordsJob.wants /\ wordsJob'.census = wordsJob.census
      /\ wordsJob'.saved = wordsJob.saved
  BY <1>1, <1>2, <1>3 DEF WordsTypeOK, WordJob
<1>6. /\ WordsTypeOK' /\ LostIsLost(words.held, words.lost)'
      /\ words'.held = Words!WithWords(i).held /\ words'.lost = Words!WithWords(i).lost
      /\ words'.stamp = words.stamp /\ words'.checkpoint = words.checkpoint
  BY <1>1, <1>2, <1>4, <1>5, ReplacedTypes
<1>7. words'.items = words.items \cup {i}
  BY <1>1, <1>2, WithWordsIs DEF WordIndex
<1>8. owed => owed'
  BY <1>2, <1>4
<1>9. Numbered'
  <2>1. wordsJob'.todo = Items \ words'.items
    BY <1>3, <1>5, <1>7
  <2>2. owed' \/ wordsJob'.wants
    BY <1>1, <1>2, <1>5, <1>8 DEF Numbered
  <2>3. words'.stamp <= clock' /\ words'.checkpoint <= clock' /\ wordsJob'.crawlVersion <= clock'
    BY <1>1, <1>2, <1>5, <1>6 DEF Numbered
  <2> QED BY <1>3, <1>5, <1>6, <2>1, <2>2, <2>3 DEF Numbered
<1>10. CensusHonest'
  BY <1>1, <1>2, <1>5, LibraryStands DEF CensusHonest
<1>11. StampHonest' /\ DeltaHonest' /\ Refreshed' /\ CatchUpHonest'
  BY <1>3, <1>5, <1>6 DEF StampHonest, DeltaHonest, Refreshed, CatchUpHonest
<1>12. BuildHonest'
  <2> SUFFICES ASSUME ~owed' PROVE BuildHonest'
    BY DEF BuildHonest
  <2>1. ~owed /\ ~wordsJob.census.degraded
    BY <1>2, <1>4
  <2>2. wordsJob.census.open
    <3>1. wordsJob.wants
      BY <1>1, <1>2, <2>1 DEF Numbered
    <3> QED BY <1>2, <1>3, <3>1 DEF Words!IndexItem, Words!NeedsCensus
  <2>3. \A r \in words'.held : childVer[r.child] <= words.checkpoint => IsNow(r)
    BY <1>1, <1>3, <1>6, <2>1, Replaced DEF BuildHonest
  <2>4. ASSUME NEW c \in Words!Live \ words'.lost, childVer[c] <= words.checkpoint, home[c] \in words'.items
        PROVE  Words!Row(c) \in words'.held
    <3>1. CASE home[c] = i
      BY <1>3, <1>6, <2>1, <2>2, <2>4, <3>1, Replaced
    <3>2. CASE home[c] # i
      BY <1>1, <1>3, <1>6, <1>7, <2>1, <2>4, <3>2, Replaced DEF BuildHonest
    <3> QED BY <3>1, <3>2
  <2> QED BY <1>2, <1>6, <2>3, <2>4, LibraryStands DEF BuildHonest
<1>13. LostIsLost(wordsJob.saved.held, wordsJob.saved.lost)'
  BY <1>5 DEF WordsInv, LostIsLost
<1> QED BY <1>6, <1>9, <1>10, <1>11, <1>12, <1>13 DEF WordsInv

LEMMA RefreshItemKeeps ==
  ASSUME WordsInv, NEW i \in Items, Words!RefreshItem(i)
  PROVE  WordsInv'
<1>1. WordsTypeOK /\ Numbered /\ CensusHonest
  BY DEF WordsInv
<1>2. /\ wordsJob.op = "update" /\ i \in wordsJob.todo
      /\ UNCHANGED <<clock, itemVer, home, gone, childVer>> /\ owed' = owed
      /\ wordsJob' = [wordsJob EXCEPT !.todo = @ \ {i}, !.refreshed = @ \cup {i}, !.gap = @ \/ ~Words!Trusted]
      /\ words' = IF Words!Trusted THEN Words!WithWords(i) ELSE words
      /\ ~Words!NeedsCensus
  BY DEF Words!RefreshItem, Words!library
<1>3. /\ wordsJob.at = "items" /\ words.stamp > 0 /\ words.checkpoint = 0 /\ itemVer[i] > words.stamp
      /\ words.stamp <= wordsJob.crawlVersion
  BY <1>1, <1>2, WordTypes DEF Numbered
<1>4. Words!Trusted \in BOOLEAN /\ (Words!Trusted <=> ~wordsJob.census.degraded)
  BY DEF Words!Trusted
<1>5. /\ wordsJob' \in WordJob /\ wordsJob'.op = "update" /\ wordsJob'.at = "items"
      /\ wordsJob'.todo = wordsJob.todo \ {i} /\ wordsJob'.refreshed = wordsJob.refreshed \cup {i}
      /\ wordsJob'.gap = (wordsJob.gap \/ ~Words!Trusted)
      /\ wordsJob'.crawlVersion = wordsJob.crawlVersion /\ wordsJob'.wants = wordsJob.wants
      /\ wordsJob'.census = wordsJob.census /\ wordsJob'.saved = wordsJob.saved
  BY <1>1, <1>2, <1>3, <1>4 DEF WordsTypeOK, WordJob
<1>6. /\ WordsTypeOK' /\ LostIsLost(words.held, words.lost)'
      /\ words'.stamp = words.stamp /\ words'.checkpoint = words.checkpoint
  <2>1. CASE Words!Trusted
    BY <1>1, <1>2, <1>5, <2>1, ReplacedTypes DEF WordsTypeOK
  <2>2. CASE ~Words!Trusted
    BY <1>1, <1>2, <1>5, <2>2 DEF WordsInv, WordsTypeOK, LostIsLost
  <2> QED BY <2>1, <2>2
<1>7. \A c : Words!Newer(c)' <=> Words!Newer(c)
  BY <1>2, <1>5 DEF Words!Newer
<1>8. Numbered'
  BY <1>1, <1>2, <1>3, <1>5, <1>6 DEF Numbered
<1>9. CensusHonest'
  BY <1>1, <1>2, <1>5, LibraryStands DEF CensusHonest
<1>10. BuildHonest' /\ CatchUpHonest' /\ LostIsLost(wordsJob.saved.held, wordsJob.saved.lost)'
  BY <1>3, <1>5, <1>6 DEF WordsInv, BuildHonest, CatchUpHonest, LostIsLost
<1>11. CASE ~Words!Trusted
  <2>1. wordsJob'.gap /\ words' = words
    BY <1>2, <1>5, <1>11
  <2>2. DeltaHonest' /\ Refreshed'
    BY <2>1 DEF DeltaHonest, Refreshed
  <2>3. StampHonest'
    BY <1>2, <1>5, <2>1, LibraryStands DEF WordsInv, StampHonest
  <2> QED BY <1>6, <1>8, <1>9, <1>10, <2>2, <2>3 DEF WordsInv
<1>12. CASE Words!Trusted
  <2>1. words'.held = Words!WithWords(i).held /\ words'.lost = Words!WithWords(i).lost
    BY <1>2, <1>12
  <2>2. wordsJob.wants => wordsJob.census.open
    BY <1>2, <1>3 DEF Words!NeedsCensus
  <2>3. ~wordsJob.census.degraded /\ (wordsJob'.gap => wordsJob.gap) /\ (wordsJob.gap => wordsJob'.gap)
    BY <1>4, <1>5, <1>12
  <2>4. StampHonest'
    <3> SUFFICES ASSUME ~owed PROVE StampHonest'
      BY <1>2 DEF StampHonest
    <3>1. /\ NoneStale(words.held, words.stamp) /\ NoneMissing(words.held, words.lost, words.stamp)
          /\ HonestAt(wordsJob.saved.held, wordsJob.saved.lost, words.stamp)
      BY <1>2, <1>3 DEF WordsInv, StampHonest, HonestAt
    <3>2. NoneStale(words'.held, words.stamp)
      BY <1>3, <2>1, <3>1, Replaced DEF NoneStale
    <3>3. ASSUME NEW c \in Words!Live \ words'.lost, childVer[c] <= words.stamp
          PROVE  Words!Row(c) \in words'.held \/ itemVer[home[c]] > words.stamp
      <4>1. childVer[c] <= wordsJob.crawlVersion
        BY <1>1, <1>3, <3>3, RowIs, WordTypes
      <4> QED BY <1>3, <2>1, <3>1, <3>3, <4>1, Replaced DEF NoneMissing
    <3>4. HonestAt(words'.held, words'.lost, words.stamp)
      BY <3>2, <3>3 DEF HonestAt, NoneMissing
    <3> QED BY <1>2, <1>5, <1>6, <3>1, <3>4, LibraryStands DEF StampHonest
  <2>5. DeltaHonest'
    <3> SUFFICES ASSUME ~owed, wordsJob.wants, ~wordsJob.gap PROVE DeltaHonest'
      BY <1>2, <1>5, <2>3 DEF DeltaHonest
    <3>1. \A r \in words'.held : childVer[r.child] <= wordsJob.crawlVersion =>
            \/ IsNow(r) \/ r.item \in wordsJob'.todo
            \/ Words!Newer(r.child) /\ r.item \notin wordsJob'.refreshed
      BY <1>2, <1>3, <1>5, <2>1, Replaced DEF WordsInv, DeltaHonest
    <3>2. ASSUME NEW c \in Words!Live \ words'.lost, childVer[c] <= wordsJob.crawlVersion
          PROVE  \/ Words!Row(c) \in words'.held \/ home[c] \in wordsJob'.todo
                 \/ Words!Newer(c) /\ home[c] \notin wordsJob'.refreshed
      <4>1. CASE home[c] = i
        BY <2>1, <2>2, <2>3, <3>2, <4>1, Replaced
      <4>2. CASE home[c] # i
        BY <1>2, <1>3, <1>5, <2>1, <3>2, <4>2, Replaced DEF WordsInv, DeltaHonest
      <4> QED BY <4>1, <4>2
    <3> QED BY <1>2, <1>5, <1>7, <3>1, <3>2, LibraryStands DEF DeltaHonest
  <2>6. Refreshed'
    <3> SUFFICES ASSUME wordsJob.wants, ~wordsJob.gap PROVE Refreshed'
      BY <1>5, <2>3 DEF Refreshed
    <3>1. ASSUME NEW c \in Words!Live, childVer[c] <= wordsJob.crawlVersion, home[c] \in wordsJob'.refreshed
          PROVE  Words!Row(c) \in words'.held
      <4>1. CASE home[c] = i
        BY <2>1, <2>2, <2>3, <3>1, <4>1, Replaced
      <4>2. CASE home[c] # i
        BY <1>2, <1>3, <1>5, <2>1, <3>1, <4>2, Replaced DEF WordsInv, Refreshed
      <4> QED BY <4>1, <4>2
    <3> QED BY <1>2, <1>5, <3>1, LibraryStands DEF Refreshed
  <2> QED BY <1>6, <1>8, <1>9, <1>10, <2>4, <2>5, <2>6 DEF WordsInv
<1> QED BY <1>11, <1>12

\* A job given up has nothing left to compare, but the stamp is held back.
LEMMA AtItsEnd ==
  ASSUME WordsInv, wordsJob.op = "update", NEW gap \in BOOLEAN, gap \/ ~wordsJob.wants,
         wordsJob' = Words!AtEnd(gap), UNCHANGED <<words, owed>>,
         UNCHANGED <<clock, itemVer, home, gone, childVer>>
  PROVE  WordsInv'
<1>1. WordsTypeOK /\ Numbered
  BY DEF WordsInv
<1>2. /\ wordsJob' \in WordJob /\ wordsJob'.op = "update" /\ wordsJob'.at = "end" /\ wordsJob'.todo = {}
      /\ wordsJob'.gap = gap /\ wordsJob'.wants = wordsJob.wants
      /\ wordsJob'.crawlVersion = wordsJob.crawlVersion /\ wordsJob'.saved = wordsJob.saved
      /\ wordsJob'.census = Words!NoCensus
  BY <1>1, NothingHeard, WordTypes DEF Words!AtEnd, Words!NoJob, WordJob
<1>3. WordsTypeOK'
  BY <1>1, <1>2 DEF WordsTypeOK
<1>4. Numbered'
  BY <1>1, <1>2 DEF Numbered
<1>5. CensusHonest' /\ DeltaHonest' /\ Refreshed' /\ CatchUpHonest'
  BY <1>2, NothingHeard DEF CensusHonest, DeltaHonest, Refreshed, CatchUpHonest
<1>6. StampHonest' /\ BuildHonest'
  BY <1>2, LibraryStands DEF WordsInv, StampHonest, BuildHonest
<1>7. LostIsLost(words.held, words.lost)' /\ LostIsLost(wordsJob.saved.held, wordsJob.saved.lost)'
  BY <1>2 DEF WordsInv, LostIsLost
<1> QED BY <1>3, <1>4, <1>5, <1>6, <1>7 DEF WordsInv

LEMMA CompareChildrenKeeps ==
  ASSUME WordsInv, Words!CompareChildren
  PROVE  WordsInv'
<1> DEFINE stale == {r \in words.held : r.child \notin Words!Live \/ Words!Newer(r.child)}
           unheld == {c \in Words!Live \ Words!Held : Words!GapFill \/ Words!Newer(c)}
           targets == {r.item : r \in stale} \ wordsJob.refreshed
<1>1. WordsTypeOK /\ Numbered /\ CensusHonest
  BY DEF WordsInv
<1>2. /\ wordsJob.op = "update" /\ wordsJob.at = "items" /\ wordsJob.todo = {}
      /\ UNCHANGED <<words, owed>> /\ UNCHANGED <<clock, itemVer, home, gone, childVer>>
  BY DEF Words!CompareChildren, Words!library
<1>3. CASE wordsJob' = Words!AtEnd(wordsJob.gap) /\ ~wordsJob.wants
  BY <1>1, <1>2, <1>3, AtItsEnd, WordTypes
<1>4. CASE wordsJob' = Words!GivenUp
  BY <1>2, <1>4, AtItsEnd DEF Words!GivenUp
<1>5. CASE /\ wordsJob' = [wordsJob EXCEPT !.at = "attribute", !.targets = targets, !.unheld = unheld]
           /\ wordsJob.wants
  <2>1. targets \subseteq Items /\ unheld \subseteq Children
    BY <1>1, WordTypes DEF Words!Live
  <2>2. \A r \in words.held : Words!Newer(r.child) /\ r.item \notin wordsJob.refreshed => r.item \in targets
    OBVIOUS
  <2>3. \A c \in Words!Live : Words!Newer(c) => c \in unheld \/ \E r \in words.held : r.child = c
    BY DEF Words!Held, Words!ChildrenOf
  <2> HIDE DEF targets, unheld
  <2>4. /\ wordsJob' \in WordJob /\ wordsJob'.op = "update" /\ wordsJob'.at = "attribute" /\ wordsJob'.todo = {}
        /\ wordsJob'.targets = targets /\ wordsJob'.unheld = unheld /\ wordsJob'.wants = wordsJob.wants
        /\ wordsJob'.gap = wordsJob.gap /\ wordsJob'.crawlVersion = wordsJob.crawlVersion
        /\ wordsJob'.saved = wordsJob.saved /\ wordsJob'.census = wordsJob.census
        /\ wordsJob'.refreshed = wordsJob.refreshed
    BY <1>1, <1>2, <1>5, <2>1 DEF WordsTypeOK, WordJob
  <2>5. WordsTypeOK'
    BY <1>1, <1>2, <2>4 DEF WordsTypeOK
  <2>6. Numbered'
    BY <1>1, <1>2, <1>5, <2>4 DEF Numbered
  <2>7. CensusHonest' /\ DeltaHonest'
    BY <1>1, <1>2, <2>4, LibraryStands DEF CensusHonest, DeltaHonest
  <2>8. StampHonest' /\ BuildHonest' /\ Refreshed'
    BY <1>2, <2>4, LibraryStands DEF WordsInv, StampHonest, BuildHonest, Refreshed
  <2>9. LostIsLost(words.held, words.lost)' /\ LostIsLost(wordsJob.saved.held, wordsJob.saved.lost)'
    BY <1>2, <2>4 DEF WordsInv, LostIsLost
  <2>10. CatchUpHonest'
    <3> SUFFICES ASSUME ~owed, ~wordsJob.gap PROVE CatchUpHonest'
      BY <1>2, <2>4 DEF CatchUpHonest
    <3>1. /\ \A r \in words.held : childVer[r.child] <= wordsJob.crawlVersion =>
               \/ IsNow(r) \/ r.item \in wordsJob.todo
               \/ Words!Newer(r.child) /\ r.item \notin wordsJob.refreshed
          /\ \A c \in Words!Live \ words.lost : childVer[c] <= wordsJob.crawlVersion =>
               \/ Words!Row(c) \in words.held \/ home[c] \in wordsJob.todo
               \/ Words!Newer(c) /\ home[c] \notin wordsJob.refreshed
      <4>1. DeltaHonest
        BY DEF WordsInv
      <4> QED BY <1>2, <1>5, <4>1 DEF DeltaHonest
    <3>2. \A c \in Words!Live \ words.lost : childVer[c] <= wordsJob.crawlVersion =>
             c \in unheld \/ \E r \in words.held : r.child = c
      BY <1>1, <1>2, <2>3, <3>1, RowIs
    <3>3. \A r \in words.held : childVer[r.child] <= wordsJob.crawlVersion => IsNow(r) \/ r.item \in targets
      BY <1>2, <2>2, <3>1
    <3> QED BY <1>2, <2>4, <3>2, <3>3, LibraryStands DEF CatchUpHonest
  <2> QED BY <2>5, <2>6, <2>7, <2>8, <2>9, <2>10 DEF WordsInv
<1> QED BY <1>3, <1>4, <1>5 DEF Words!CompareChildren

LEMMA AttributeUnheldKeeps ==
  ASSUME WordsInv, Words!AttributeUnheld
  PROVE  WordsInv'
<1> DEFINE items == {r.item : r \in {w \in wordsJob.census.words : w.child \in wordsJob.unheld}}
<1>1. WordsTypeOK /\ Numbered /\ CensusHonest
  BY DEF WordsInv
<1>2. /\ wordsJob.at = "attribute" /\ UNCHANGED <<words, owed>> /\ ~Words!NeedsCensus
      /\ UNCHANGED <<clock, itemVer, home, gone, childVer>>
  BY DEF Words!AttributeUnheld, Words!library
<1>3. wordsJob.op = "update" /\ wordsJob.todo = {} /\ wordsJob.wants
  BY <1>1, <1>2 DEF Numbered
<1>4. CASE wordsJob' = Words!GivenUp
  BY <1>2, <1>3, <1>4, AtItsEnd DEF Words!GivenUp
<1>5. CASE /\ wordsJob' = [wordsJob EXCEPT !.at = "targets", !.targets = @ \cup (items \ wordsJob.refreshed),
                                           !.unheld = {}, !.refreshed = {}]
           /\ wordsJob.census.open => Words!Trusted
  <2>1. items \subseteq Items
    BY <1>1, WordTypes
  <2>2. wordsJob.unheld # {} => wordsJob.census.open /\ ~wordsJob.census.degraded
    BY <1>2, <1>3, <1>5 DEF Words!NeedsCensus, Words!Trusted
  <2>3. \A r \in wordsJob.census.words : r.child \in wordsJob.unheld => r.item \in items
    OBVIOUS
  <2> HIDE DEF items
  <2>4. /\ wordsJob' \in WordJob /\ wordsJob'.op = "update" /\ wordsJob'.at = "targets" /\ wordsJob'.todo = {}
        /\ wordsJob'.targets = wordsJob.targets \cup (items \ wordsJob.refreshed)
        /\ wordsJob'.wants = wordsJob.wants /\ wordsJob'.gap = wordsJob.gap
        /\ wordsJob'.crawlVersion = wordsJob.crawlVersion
        /\ wordsJob'.saved = wordsJob.saved /\ wordsJob'.census = wordsJob.census
    BY <1>1, <1>3, <1>5, <2>1 DEF WordsTypeOK, WordJob
  <2>5. WordsTypeOK'
    BY <1>1, <1>2, <2>4 DEF WordsTypeOK
  <2>6. Numbered'
    BY <1>1, <1>2, <1>3, <2>4 DEF Numbered
  <2>7. CensusHonest' /\ DeltaHonest' /\ Refreshed'
    BY <1>1, <1>2, <2>4, LibraryStands DEF CensusHonest, DeltaHonest, Refreshed
  <2>8. StampHonest' /\ BuildHonest'
    BY <1>2, <1>3, <2>4, LibraryStands DEF WordsInv, StampHonest, BuildHonest
  <2>9. LostIsLost(words.held, words.lost)' /\ LostIsLost(wordsJob.saved.held, wordsJob.saved.lost)'
    BY <1>2, <2>4 DEF WordsInv, LostIsLost
  <2>10. CatchUpHonest'
    <3> SUFFICES ASSUME ~owed, ~wordsJob.gap PROVE CatchUpHonest'
      BY <1>2, <2>4 DEF CatchUpHonest
    <3>1. /\ \A r \in words.held : childVer[r.child] <= wordsJob.crawlVersion =>
               IsNow(r) \/ r.item \in wordsJob.targets
          /\ \A c \in Words!Live \ words.lost : childVer[c] <= wordsJob.crawlVersion =>
               \/ \E r \in words.held : r.child = c
               \/ home[c] \in wordsJob.targets \/ c \in wordsJob.unheld
      BY <1>2 DEF WordsInv, CatchUpHonest
    <3>2. ASSUME NEW c \in Words!Live, childVer[c] <= wordsJob.crawlVersion, c \in wordsJob.unheld
          PROVE  (\E r \in words.held : r.child = c) \/ home[c] \in wordsJob'.targets
      <4>1. Words!Row(c) \in wordsJob.census.words /\ Words!Row(c).child = c /\ Words!Row(c).item = home[c]
        BY <1>1, <2>2, <3>2, RowIs DEF CensusHonest
      <4>2. CASE home[c] \in wordsJob.refreshed
        BY <1>2, <1>3, <3>2, <4>1, <4>2 DEF WordsInv, Refreshed
      <4> QED BY <2>3, <2>4, <3>2, <4>1, <4>2
    <3>3. \A c \in Words!Live \ words.lost : childVer[c] <= wordsJob.crawlVersion =>
            (\E r \in words.held : r.child = c) \/ home[c] \in wordsJob'.targets
      BY <2>4, <3>1, <3>2
    <3>4. \A r \in words.held : childVer[r.child] <= wordsJob.crawlVersion =>
            IsNow(r) \/ r.item \in wordsJob'.targets
      BY <2>4, <3>1
    <3> QED BY <1>2, <2>4, <3>3, <3>4, LibraryStands DEF CatchUpHonest
  <2> QED BY <2>5, <2>6, <2>7, <2>8, <2>9, <2>10 DEF WordsInv
<1> QED BY <1>4, <1>5 DEF Words!AttributeUnheld

LEMMA RefreshWordsKeeps ==
  ASSUME WordsInv, NEW i \in Items, Words!RefreshWords(i)
  PROVE  WordsInv'
<1>1. WordsTypeOK /\ Numbered /\ CensusHonest
  BY DEF WordsInv
<1>2. /\ wordsJob.at = "targets" /\ i \in wordsJob.targets /\ ~Words!NeedsCensus /\ owed' = owed
      /\ UNCHANGED <<clock, itemVer, home, gone, childVer>>
  BY DEF Words!RefreshWords, Words!library
<1>3. /\ wordsJob.op = "update" /\ wordsJob.todo = {} /\ wordsJob.wants /\ words.checkpoint = 0
      /\ words.stamp > 0 /\ words.stamp <= wordsJob.crawlVersion
  BY <1>1, <1>2 DEF Numbered
<1>4. CASE ~Words!Trusted
  BY <1>2, <1>3, <1>4, AtItsEnd DEF Words!GivenUp, Words!RefreshWords
<1>5. CASE Words!Trusted
  <2>1. words' = Words!WithWords(i) /\ wordsJob' = [wordsJob EXCEPT !.targets = @ \ {i}]
    BY <1>5 DEF Words!RefreshWords
  <2>2. wordsJob.census.open /\ ~wordsJob.census.degraded
    BY <1>2, <1>3, <1>5 DEF Words!NeedsCensus, Words!Trusted
  <2>3. /\ wordsJob' \in WordJob /\ wordsJob'.op = "update" /\ wordsJob'.at = "targets" /\ wordsJob'.todo = {}
        /\ wordsJob'.targets = wordsJob.targets \ {i} /\ wordsJob'.wants = wordsJob.wants
        /\ wordsJob'.gap = wordsJob.gap /\ wordsJob'.crawlVersion = wordsJob.crawlVersion
        /\ wordsJob'.saved = wordsJob.saved /\ wordsJob'.census = wordsJob.census
    BY <1>1, <1>2, <1>3, <2>1 DEF WordsTypeOK, WordJob
  <2>4. /\ WordsTypeOK' /\ LostIsLost(words.held, words.lost)'
        /\ words'.held = Words!WithWords(i).held /\ words'.lost = Words!WithWords(i).lost
        /\ words'.stamp = words.stamp /\ words'.checkpoint = words.checkpoint
    BY <1>1, <1>2, <2>1, <2>3, ReplacedTypes DEF WordsTypeOK
  <2>5. Numbered'
    BY <1>1, <1>2, <1>3, <2>3, <2>4 DEF Numbered
  <2>6. CensusHonest' /\ DeltaHonest' /\ Refreshed' /\ BuildHonest'
    BY <1>1, <1>2, <1>3, <2>3, <2>4, LibraryStands DEF CensusHonest, DeltaHonest, Refreshed, BuildHonest
  <2>7. LostIsLost(wordsJob.saved.held, wordsJob.saved.lost)'
    BY <2>3 DEF WordsInv, LostIsLost
  <2>8. StampHonest'
    <3> SUFFICES ASSUME ~owed PROVE StampHonest'
      BY <1>2 DEF StampHonest
    <3>1. /\ NoneStale(words.held, words.stamp) /\ NoneMissing(words.held, words.lost, words.stamp)
          /\ HonestAt(wordsJob.saved.held, wordsJob.saved.lost, words.stamp)
      BY <1>3 DEF WordsInv, StampHonest, HonestAt
    <3>2. \A r \in WordRow : childVer[r.child] <= words.stamp => childVer[r.child] <= wordsJob.crawlVersion
      BY <1>1, <1>3, WordTypes
    <3>3. NoneStale(words'.held, words.stamp)
      BY <2>4, <3>1, <3>2, Replaced DEF NoneStale
    <3>4. ASSUME NEW c \in Words!Live \ words'.lost, childVer[c] <= words.stamp
          PROVE  Words!Row(c) \in words'.held \/ itemVer[home[c]] > words.stamp
      <4>1. childVer[c] <= wordsJob.crawlVersion
        BY <1>1, <1>3, <3>4, RowIs, WordTypes
      <4>2. CASE home[c] = i
        BY <2>2, <2>4, <3>4, <4>1, <4>2, Replaced
      <4>3. CASE home[c] # i
        BY <2>4, <3>1, <3>4, <4>1, <4>3, Replaced DEF NoneMissing
      <4> QED BY <4>2, <4>3
    <3>5. HonestAt(words'.held, words'.lost, words.stamp)
      BY <3>3, <3>4 DEF HonestAt, NoneMissing
    <3> QED BY <1>2, <2>3, <2>4, <3>1, <3>5, LibraryStands DEF StampHonest
  <2>9. CatchUpHonest'
    <3> SUFFICES ASSUME ~owed, ~wordsJob.gap PROVE CatchUpHonest'
      BY <1>2, <2>3 DEF CatchUpHonest
    <3>1. /\ \A r \in words.held : childVer[r.child] <= wordsJob.crawlVersion =>
               IsNow(r) \/ r.item \in wordsJob.targets
          /\ \A c \in Words!Live \ words.lost : childVer[c] <= wordsJob.crawlVersion =>
               (\E r \in words.held : r.child = c) \/ home[c] \in wordsJob.targets
      BY <1>2 DEF WordsInv, CatchUpHonest
    <3>2. \A r \in words'.held : childVer[r.child] <= wordsJob.crawlVersion =>
            IsNow(r) \/ r.item \in wordsJob'.targets
      BY <2>3, <2>4, <3>1, Replaced
    <3>3. ASSUME NEW c \in Words!Live \ words'.lost, childVer[c] <= wordsJob.crawlVersion
          PROVE  (\E r \in words'.held : r.child = c) \/ home[c] \in wordsJob'.targets
      <4>1. CASE home[c] = i
        BY <1>1, <2>2, <2>4, <3>3, <4>1, Replaced, RowIs
      <4>2. CASE home[c] # i /\ c \notin words.lost
        BY <2>2, <2>3, <2>4, <3>1, <3>3, <4>2, Replaced
      <4>3. CASE home[c] # i /\ c \in words.lost
        BY <2>4, <3>3, <4>3, Replaced
      <4> QED BY <4>1, <4>2, <4>3
    <3> QED BY <1>2, <2>3, <3>2, <3>3, LibraryStands DEF CatchUpHonest
  <2> QED BY <2>4, <2>5, <2>6, <2>7, <2>8, <2>9 DEF WordsInv
<1> QED BY <1>4, <1>5

\* Between jobs nothing is left of the one that ended.
LEMMA BetweenJobs ==
  ASSUME WordsInv, wordsJob' = Words!NoJob, UNCHANGED <<clock, itemVer, home, gone, childVer>>,
         words' \in WordIndex, owed' \in BOOLEAN, LostIsLost(words'.held, words'.lost),
         words'.stamp <= clock, words'.checkpoint <= clock, words'.checkpoint > 0 => words'.stamp = 0,
         ~owed' /\ words'.stamp > 0 => HonestAt(words'.held, words'.lost, words'.stamp),
         words'.checkpoint > 0 => words' = words /\ owed' = owed
  PROVE  WordsInv'
<1>1. wordsJob'.op = "none" /\ wordsJob'.at = "none" /\ wordsJob'.crawlVersion = 0
      /\ wordsJob'.census = Words!NoCensus /\ wordsJob'.saved = Words!EmptyIndex /\ wordsJob' \in WordJob
  BY NothingHeard
<1>2. WordsTypeOK /\ clock \in Nat
  BY WordTypes DEF WordsInv
<1>3. WordsTypeOK'
  BY <1>1, <1>2 DEF WordsTypeOK
<1>4. Numbered'
  BY <1>1, <1>2 DEF Numbered, Words!NoJob
<1>5. CensusHonest' /\ DeltaHonest' /\ Refreshed' /\ CatchUpHonest'
  BY <1>1, NothingHeard DEF CensusHonest, DeltaHonest, Refreshed, CatchUpHonest
<1>6. StampHonest'
  BY <1>1, LibraryStands DEF StampHonest
<1>7. BuildHonest'
  BY LibraryStands DEF WordsInv, BuildHonest
<1>8. LostIsLost(words.held, words.lost)' /\ LostIsLost(wordsJob.saved.held, wordsJob.saved.lost)'
  BY <1>1, NothingHeard DEF LostIsLost
<1> QED BY <1>3, <1>4, <1>5, <1>6, <1>7, <1>8 DEF WordsInv

LEMMA FinishUpdateKeeps ==
  ASSUME WordsInv, NEW reconciled \in BOOLEAN, Words!FinishUpdate(reconciled)
  PROVE  WordsInv'
<1>1. /\ WordsTypeOK /\ Numbered /\ LostIsLost(words.held, words.lost)
  BY DEF WordsInv
<1>2. /\ wordsJob.op = "update" /\ wordsJob' = Words!NoJob /\ UNCHANGED <<clock, itemVer, home, gone, childVer>>
      /\ wordsJob.at = "end" \/ (wordsJob.at = "targets" /\ wordsJob.targets = {})
      /\ owed' = (owed \/ (Words!Stamps(reconciled) /\ ~wordsJob.wants))
      /\ words' = IF Words!Stamps(reconciled) THEN [words EXCEPT !.stamp = wordsJob.crawlVersion] ELSE words
  BY DEF Words!FinishUpdate, Words!library
<1>3. /\ words.stamp > 0 /\ words.checkpoint = 0 /\ words.stamp <= clock /\ wordsJob.crawlVersion <= clock
      /\ words.checkpoint <= clock
  BY <1>1, <1>2 DEF Numbered
<1>4. /\ Words!Stamps(reconciled) \in BOOLEAN /\ wordsJob.wants \in BOOLEAN /\ owed \in BOOLEAN
      /\ owed' \in BOOLEAN
  BY <1>1, <1>2 DEF Words!Stamps, WordsTypeOK, WordJob
<1>5. CASE ~Words!Stamps(reconciled)
  <2>1. words' = words /\ (~owed' => ~owed)
    BY <1>2, <1>4, <1>5
  <2>2. ~owed' /\ words'.stamp > 0 => HonestAt(words'.held, words'.lost, words'.stamp)
    BY <2>1 DEF WordsInv, StampHonest
  <2> QED BY <1>1, <1>2, <1>3, <1>4, <2>1, <2>2, BetweenJobs DEF WordsTypeOK
<1>6. CASE Words!Stamps(reconciled)
  <2>1. /\ words' \in WordIndex /\ words'.stamp = wordsJob.crawlVersion /\ words'.held = words.held
        /\ words'.lost = words.lost /\ words'.checkpoint = 0
    BY <1>1, <1>2, <1>3, <1>6 DEF WordsTypeOK, WordIndex, WordJob
  <2>2. ASSUME ~owed' PROVE HonestAt(words.held, words.lost, wordsJob.crawlVersion)
    <3>1. ~owed /\ wordsJob.wants /\ ~wordsJob.gap
      BY <1>2, <1>4, <1>6, <2>2 DEF Words!Stamps
    <3>2. wordsJob.at = "targets" /\ wordsJob.targets = {}
      BY <1>1, <1>2, <3>1 DEF Numbered
    <3>3. CatchUpHonest
      BY DEF WordsInv
    <3>4. \A r \in words.held : childVer[r.child] <= wordsJob.crawlVersion => IsNow(r)
      BY <3>1, <3>2, <3>3 DEF CatchUpHonest
    <3>5. \A c \in Words!Live \ words.lost : childVer[c] <= wordsJob.crawlVersion => Words!Row(c) \in words.held
      BY <3>1, <3>2, <3>3, <3>4 DEF CatchUpHonest, IsNow
    <3> QED BY <3>4, <3>5 DEF HonestAt, NoneStale, NoneMissing
  <2> QED BY <1>1, <1>2, <1>3, <1>4, <2>1, <2>2, BetweenJobs
<1> QED BY <1>5, <1>6

LEMMA FinishBuildKeeps ==
  ASSUME WordsInv, Words!FinishBuild
  PROVE  WordsInv'
<1>1. /\ WordsTypeOK /\ Numbered /\ LostIsLost(words.held, words.lost)
  BY DEF WordsInv
<1>2. /\ wordsJob.op = "build" /\ wordsJob.todo = {} /\ wordsJob' = Words!NoJob
      /\ UNCHANGED <<clock, itemVer, home, gone, childVer>> /\ owed' = owed
      /\ words' = [words EXCEPT !.stamp = wordsJob.crawlVersion, !.checkpoint = 0]
  BY DEF Words!FinishBuild, Words!library
<1>3. /\ words.checkpoint = wordsJob.crawlVersion /\ words.checkpoint > 0 /\ words.checkpoint <= clock
      /\ Items \subseteq words.items
  BY <1>1, <1>2 DEF Numbered
<1>4. /\ words' \in WordIndex /\ words'.stamp = words.checkpoint /\ words'.held = words.held
      /\ words'.lost = words.lost /\ words'.checkpoint = 0
  BY <1>1, <1>2, <1>3 DEF WordsTypeOK, WordIndex
<1>5. ASSUME ~owed PROVE HonestAt(words.held, words.lost, words.checkpoint)
  <2>1. BuildHonest
    BY DEF WordsInv
  <2> QED BY <1>1, <1>3, <1>5, <2>1, RowIs DEF BuildHonest, HonestAt, NoneStale, NoneMissing
<1>6. owed' \in BOOLEAN /\ 0 <= clock
  BY <1>1, <1>2 DEF WordsTypeOK
<1> QED BY <1>1, <1>2, <1>3, <1>4, <1>5, <1>6, BetweenJobs

LEMMA InterruptedKeeps ==
  ASSUME WordsInv, Words!Interrupted
  PROVE  WordsInv'
<1>1. /\ WordsTypeOK /\ Numbered /\ LostIsLost(words.held, words.lost)
      /\ LostIsLost(wordsJob.saved.held, wordsJob.saved.lost) /\ StampHonest
  BY DEF WordsInv
<1>2. /\ wordsJob.op # "none" /\ wordsJob' = Words!NoJob
      /\ UNCHANGED <<clock, itemVer, home, gone, childVer>> /\ owed' = owed
      /\ words' = words \/ (wordsJob.op = "update" /\ words' = wordsJob.saved)
  BY <1>1 DEF Words!Interrupted, Words!library, WordsTypeOK, WordJob
<1>3. owed' \in BOOLEAN /\ words \in WordIndex /\ wordsJob.saved \in WordIndex
  BY <1>1, <1>2, WordTypes DEF WordsTypeOK
<1>4. CASE words' = words
  BY <1>1, <1>2, <1>3, <1>4, BetweenJobs DEF Numbered, StampHonest
<1>5. CASE wordsJob.op = "update" /\ words' = wordsJob.saved
  <2>1. words'.stamp = words.stamp /\ words'.checkpoint = 0 /\ words.stamp <= clock /\ 0 <= clock
    BY <1>1, <1>5, WordTypes DEF Numbered
  <2> QED BY <1>1, <1>2, <1>3, <1>5, <2>1, BetweenJobs DEF StampHonest
<1> QED BY <1>2, <1>4, <1>5

LEMMA WordsInvKept == WordsInv /\ [Next]_vars => WordsInv'
<1> SUFFICES ASSUME WordsInv, [Next]_vars PROVE WordsInv'
  OBVIOUS
<1>1. CASE UNCHANGED wordsVars
  <2>1. UNCHANGED <<clock, itemVer, home, gone, childVer>> /\ UNCHANGED <<words, owed, wordsJob>>
    BY <1>1 DEF wordsVars
  <2>2. \A c : Words!Newer(c)' <=> Words!Newer(c)
    BY <2>1 DEF Words!Newer
  <2>3. WordsTypeOK' /\ Numbered'
    BY <2>1 DEF WordsInv, WordsTypeOK, Numbered
  <2>4. CensusHonest' /\ StampHonest' /\ BuildHonest'
    BY <2>1, LibraryStands DEF WordsInv, CensusHonest, StampHonest, BuildHonest
  <2>5. DeltaHonest' /\ Refreshed' /\ CatchUpHonest'
    BY <2>1, <2>2, LibraryStands DEF WordsInv, DeltaHonest, Refreshed, CatchUpHonest
  <2> QED BY <2>1, <2>3, <2>4, <2>5 DEF WordsInv, LostIsLost
<1>2. CASE Words!WordsNext
  BY <1>2, LibraryKeepsWords, StartBuildKeeps, StartUpdateKeeps, TakeCensusKeeps, IndexItemKeeps, RefreshItemKeeps,
     RefreshWordsKeeps, CompareChildrenKeeps, AttributeUnheldKeeps, FinishUpdateKeeps, FinishBuildKeeps, InterruptedKeeps
     DEF Words!WordsNext, LibraryStep
<1> QED BY <1>1, <1>2 DEF Next, vars

LEMMA WordsInvHolds == Spec => []WordsInv
<1> QED BY WordsInvInit, WordsInvKept, PTL DEF Spec

\* What was there at the stamp is in the index as it is (OwnWords!WordsHonest).
LEMMA WordsInvGives == WordsInv => Words!WordsHonest
<1> SUFFICES ASSUME WordsInv, words.stamp > 0, ~owed, NEW c \in Children \ words.lost, childVer[c] <= words.stamp
             PROVE  LET rows == {r \in words.held : r.child = c}
                        now == IF c \in Words!Live THEN {Words!Row(c)} ELSE {}
                    IN  (\A r \in rows \cup now : itemVer[r.item] <= words.stamp) => rows = now
  BY DEF Words!WordsHonest
<1> DEFINE rows == {r \in words.held : r.child = c}
           now == IF c \in Words!Live THEN {Words!Row(c)} ELSE {}
<1> SUFFICES ASSUME \A r \in rows \cup now : itemVer[r.item] <= words.stamp PROVE rows = now
  OBVIOUS
<1>1. WordsTypeOK /\ NoneStale(words.held, words.stamp) /\ NoneMissing(words.held, words.lost, words.stamp)
  BY DEF WordsInv, StampHonest, HonestAt
<1>2. \A i \in Items : ~(itemVer[i] <= words.stamp /\ itemVer[i] > words.stamp)
  BY <1>1, WordTypes
<1>3. ASSUME NEW r \in rows PROVE r \in now
  <2>1. r \in words.held /\ r.child = c /\ r.item \in Items /\ itemVer[r.item] <= words.stamp
    BY <1>1, <1>3, WordTypes
  <2>2. IsNow(r)
    BY <1>1, <1>2, <2>1 DEF NoneStale
  <2> QED BY <2>1, <2>2 DEF IsNow
<1>4. ASSUME NEW r \in now PROVE r \in rows
  <2>1. c \in Words!Live /\ r = Words!Row(c)
    BY <1>4
  <2>2. r.child = c /\ r.item = home[c] /\ home[c] \in Items
    BY <1>1, <2>1, RowIs
  <2>3. itemVer[home[c]] <= words.stamp
    BY <1>4, <2>2
  <2>4. r \in words.held
    BY <1>1, <1>2, <2>1, <2>2, <2>3 DEF NoneMissing
  <2> QED BY <2>2, <2>4
<1> QED BY <1>3, <1>4

\* No update takes out a note its reader did not (OwnWords!NoteStays).
LEMMA NoteStaysHolds == Spec => Words!NoteStays
<1> DEFINE Stays ==
      wordsJob.op = "update" /\ wordsJob'.op = "update" =>
        \A r \in words.held : r.child \notin Words!ChildrenOf(words'.held) =>
          \/ r.child \in gone \/ home[r.child] # r.item \/ childVer[r.child] > wordsJob.crawlVersion
          \/ ~wordsJob.wants /\ r.item \in wordsJob'.refreshed
<1>1. ASSUME WordsInv, NEW i \in Items, words' = Words!WithWords(i), Words!Trusted,
             wordsJob.census.open \/ (~wordsJob.wants /\ i \in wordsJob'.refreshed)
      PROVE  Stays
  <2> SUFFICES ASSUME NEW r \in words.held, r.child \notin Words!ChildrenOf(words'.held), r.child \notin gone,
                      home[r.child] = r.item, ~(childVer[r.child] > wordsJob.crawlVersion)
               PROVE  ~wordsJob.wants /\ r.item \in wordsJob'.refreshed
    OBVIOUS
  <2>1. \A s \in words'.held : s.child # r.child
    BY DEF Words!ChildrenOf
  <2>2. WordsTypeOK /\ r \in WordRow /\ r.child \in Children /\ r.item \in Items
    BY <1>1, WordTypes DEF WordsInv
  <2>3. r.item = i
    BY <1>1, <2>1, <2>2, WithWordsIs
  <2>4. CASE wordsJob.census.open
    <3>1. r.child \in Words!Live
      BY <2>2, LibraryAssumption DEF Words!Live, Words!WordsAssumption
    <3>2. childVer[r.child] <= wordsJob.crawlVersion
      BY <2>2, WordTypes
    <3>3. Words!Row(r.child) \in words'.held
      BY <1>1, <2>3, <2>4, <3>1, <3>2, Replaced DEF Words!Trusted
    <3> QED BY <2>1, <2>2, <3>1, <3>3, RowIs
  <2> QED BY <1>1, <2>3, <2>4
<1>2. WordsInv /\ Words!WordsNext => Stays
  <2> SUFFICES ASSUME WordsInv, Words!WordsNext PROVE Stays
    OBVIOUS
  <2>1. words' = words => Stays
    BY DEF Words!ChildrenOf
  <2>2. CASE LibraryStep
    BY <2>1, <2>2, LibraryMoves DEF WordsInv
  <2>3. ASSUME NEW i \in Items, Words!RefreshItem(i) PROVE Stays
    <3>1. CASE ~Words!Trusted
      BY <2>1, <2>3, <3>1 DEF Words!RefreshItem
    <3>2. CASE Words!Trusted
      <4>1. words' = Words!WithWords(i) /\ i \in wordsJob'.refreshed
        BY <2>3, <3>2 DEF Words!RefreshItem, WordsInv, WordsTypeOK, WordJob
      <4>2. wordsJob.at = "items"
        BY <2>3 DEF Words!RefreshItem, WordsInv, Numbered, WordsTypeOK, WordJob
      <4>3. wordsJob.census.open \/ ~wordsJob.wants
        BY <2>3, <4>2 DEF Words!RefreshItem, Words!NeedsCensus
      <4> QED BY <1>1, <3>2, <4>1, <4>3
    <3> QED BY <3>1, <3>2
  <2>4. ASSUME NEW i \in Items, Words!RefreshWords(i) PROVE Stays
    <3>1. CASE ~Words!Trusted
      BY <2>1, <2>4, <3>1 DEF Words!RefreshWords
    <3>2. CASE Words!Trusted
      <4>1. words' = Words!WithWords(i) /\ wordsJob.census.open
        BY <2>4, <3>2 DEF Words!RefreshWords, Words!NeedsCensus, WordsInv, Numbered
      <4> QED BY <1>1, <3>2, <4>1
    <3> QED BY <3>1, <3>2
  <2>5. CASE Words!TakeCensus \/ Words!CompareChildren \/ Words!AttributeUnheld
    BY <2>1, <2>5 DEF Words!TakeCensus, Words!CompareChildren, Words!AttributeUnheld
  <2>6. CASE \/ \E again, asks \in BOOLEAN : Words!StartBuild(again, asks)
             \/ \E asks \in BOOLEAN : Words!StartUpdate(asks)
    BY <2>6 DEF Words!StartBuild, Words!StartUpdate
  <2>7. CASE \/ \E i \in Items : Words!IndexItem(i)
             \/ \E reconciled \in BOOLEAN : Words!FinishUpdate(reconciled)
             \/ Words!FinishBuild \/ Words!Interrupted
    BY <2>7, NothingHeard DEF Words!IndexItem, Words!FinishUpdate, Words!FinishBuild, Words!Interrupted
  <2> QED BY <2>2, <2>3, <2>4, <2>5, <2>6, <2>7 DEF Words!WordsNext, LibraryStep
<1>3. WordsInv /\ [Next]_vars => [Stays]_<<clock, itemVer, home, gone, childVer, words, owed, wordsJob>>
  BY <1>2 DEF Next, vars, wordsVars
<1> QED BY <1>3, WordsInvHolds, PTL DEF Spec, Words!NoteStays, Words!wordsVars


-----------------------------------------------------------------------------
(* The text of attachments.                                                *)

Version == 0..MaxExtractions
TextIndex == [held : [Atts -> Nat], cursor : Nat, partial : BOOLEAN, attempts : Nat,
              stamped : BOOLEAN, checkpoint : BOOLEAN, forgone : SUBSET Atts]
TextMap == [open : BOOLEAN, atts : SUBSET Atts, version : Nat, incomplete : BOOLEAN, available : BOOLEAN]
TextJob ==
  [op : {"none", "build", "update"}, at : {"none", "source", "pass", "delta", "named", "catchup", "end"},
   wants : BOOLEAN, resumed : BOOLEAN, map : TextMap, todo : SUBSET Items, size : Nat,
   refreshed : SUBSET Items, failed : SUBSET Items, named : SUBSET Atts, probed : Nat,
   partialWrite : BOOLEAN, full : BOOLEAN, gap : BOOLEAN, heldBack : BOOLEAN, saved : TextIndex]

BodyTypeOK ==
  /\ extracted \in [Atts -> Version]
  /\ dirty \in SUBSET Items /\ settles \in SUBSET Items
  /\ index \in TextIndex /\ vouched \in BOOLEAN /\ job \in TextJob

Complete == job.map.open /\ ~job.map.incomplete

\* Which stages a job has, and what it may still be about.
Staged ==
  /\ job.op = "none" => job = Body!NoJob
  /\ job.op = "build" =>
       job.at \in {"source", "pass"} /\ ~vouched /\ (job.at = "pass" /\ job.wants => job.map.open)
  /\ job.op = "update" =>
       /\ job.at \in {"delta", "named", "catchup", "end"}
       /\ ~job.wants => /\ job.at \in {"delta", "end"} /\ ~job.map.open /\ ~job.partialWrite
                        /\ ~job.full /\ (job.at = "end" => job.probed = index.cursor)
       /\ job.saved.cursor = index.cursor /\ job.saved.partial = index.partial
       /\ job.refreshed \subseteq dirty /\ (job.at = "delta" => job.todo \subseteq dirty)
       /\ job.at = "delta" /\ job.refreshed # {} /\ job.wants => job.map.open
       /\ job.at \in {"named", "end"} => job.todo = {}
       /\ job.at \in {"delta", "named"} => job.failed = {} /\ ~job.full
       /\ job.full => Complete /\ index.partial
       /\ job.at = "catchup" => job.todo \cap job.refreshed = {}
       /\ job.at = "catchup" /\ ~index.partial /\ job.todo # {} => Complete

\* Body text that an update has taken out of the index is marked, or will be.
LossOwned ==
  /\ \A a \in Atts : index.held[a] > 0 => extracted[a] > 0
  /\ job.op = "update" =>
       \A a \in Atts : job.saved.held[a] > 0 =>
         /\ extracted[a] > 0
         /\ Complete => a \in job.map.atts
         /\ index.held[a] = 0 =>
              \/ Parent[a] \in job.refreshed /\ (job.partialWrite \/ ~job.wants)
              \/ index.partial /\ ~job.full /\ job.at \in {"catchup", "end"}

LossInv == BodyTypeOK /\ Staged /\ LossOwned

\* A set of numbers that is bounded has a greatest one.
LEMMA MaxOf ==
  ASSUME NEW S, S # {}, NEW M \in Nat, S \subseteq 0..M
  PROVE  Body!Max(S) \in S /\ \A y \in S : y <= Body!Max(S)
<1> DEFINE T == {M - v : v \in S}
<1>1. T # {} /\ T \subseteq Nat
  <2>1. \A v \in S : v \in 0..M /\ M - v \in Nat
    OBVIOUS
  <2> QED BY <2>1
<1>2. PICK x \in T : \A y \in T : ~(<<y, x>> \in OpToRel(<, Nat))
  BY <1>1, NatLessThanWellFounded, WFMin
<1>3. \A y \in T : ~(y < x)
  BY <1>1, <1>2 DEF OpToRel
<1>4. PICK v \in S : x = M - v
  BY <1>2
<1>5. \A w \in S : v >= w
  <2>1. \A w \in S : ~(M - w < M - v)
    BY <1>3, <1>4
  <2>2. \A w \in S : w \in Int /\ v \in Int
    BY <1>4
  <2> QED BY <2>1, <2>2
<1>6. Body!Max(S) \in S /\ \A y \in S : Body!Max(S) >= y
  BY <1>5, Zenon DEF Body!Max
<1> QED BY <1>6

LEMMA GreatestOf ==
  ASSUME NEW f \in [Atts -> Version], NEW as \in SUBSET Atts, NEW m, m = Body!Max({0} \cup {f[a] : a \in as})
  PROVE  /\ m \in Version /\ \A a \in as : f[a] <= m
         /\ \A n \in Nat : (\A a \in as : f[a] <= n) => m <= n
<1> DEFINE S == {0} \cup {f[a] : a \in as}
<1>1. MaxExtractions \in Nat
  BY LibraryAssumption DEF Body!BodyAssumption
<1>2. \A a \in as : f[a] \in 0..MaxExtractions
  BY DEF Version
<1>3. S # {} /\ S \subseteq 0..MaxExtractions
  <2>1. 0 \in 0..MaxExtractions
    BY <1>1
  <2>2. {f[a] : a \in as} \subseteq 0..MaxExtractions
    BY <1>2
  <2> QED BY <2>1, <2>2
<1>4. \A a \in as : f[a] \in S
  OBVIOUS
<1>5. ASSUME NEW n \in Nat, \A a \in as : f[a] <= n PROVE \A y \in S : y <= n
  <2>1. 0 <= n
    OBVIOUS
  <2> QED BY <1>5, <2>1
<1>6. m \in S /\ \A y \in S : y <= m
  BY <1>1, <1>3, MaxOf
<1> HIDE DEF S
<1> QED BY <1>3, <1>4, <1>5, <1>6 DEF Version

LEMMA NewestIs ==
  ASSUME extracted \in [Atts -> Version], NEW as \in SUBSET Atts
  PROVE  /\ Body!Newest(as) \in Version /\ \A a \in as : extracted[a] <= Body!Newest(as)
         /\ \A n \in Nat : (\A a \in as : extracted[a] <= n) => Body!Newest(as) <= n
<1>1. Body!Newest(as) = Body!Max({0} \cup {extracted[a] : a \in as})
  BY DEF Body!Newest
<1>2. as \in SUBSET Atts /\ extracted \in [Atts -> Version]
  OBVIOUS
<1> HIDE DEF Version
<1> QED BY <1>1, <1>2, GreatestOf, Zenon

LEMMA ParentType == \A a \in Atts : Parent[a] \in Items
BY LibraryAssumption DEF Body!BodyAssumption

LEMMA NothingHeld == Body!EmptyIndex \in TextIndex /\ Body!NoMap \in TextMap /\ Body!NoJob \in TextJob
<1>1. Body!EmptyIndex \in TextIndex /\ Body!NoMap \in TextMap
  BY DEF Body!EmptyIndex, Body!NoMap, TextIndex, TextMap
<1> QED BY <1>1 DEF Body!NoJob, TextJob

LEMMA LossInvInit == Init => LossInv
<1> SUFFICES ASSUME Body!BodyInit PROVE LossInv
  BY DEF Init
<1>1. BodyTypeOK
  <2>1. extracted \in [Atts -> Version]
    BY LibraryAssumption DEF Body!BodyInit, Body!BodyAssumption, Version
  <2> QED BY <2>1, NothingHeld DEF Body!BodyInit, BodyTypeOK
<1>2. \A a \in Atts : index.held[a] = 0
  BY DEF Body!BodyInit, Body!EmptyIndex
<1>3. Staged /\ LossOwned
  BY <1>2 DEF Body!BodyInit, Staged, LossOwned, Body!NoJob
<1> QED BY <1>1, <1>3 DEF LossInv

LEMMA ExtractKeepsLoss ==
  ASSUME LossInv, NEW a \in Atts, Body!Extract(a)
  PROVE  /\ LossInv' /\ UNCHANGED <<dirty, settles, vouched, job>>
         /\ extracted' = [extracted EXCEPT ![a] = Body!Newest(Atts) + 1]
         /\ index'.held = index.held /\ index'.cursor = index.cursor /\ index'.partial = index.partial
         /\ index'.forgone = IF Body!Overlooked(a) THEN index.forgone \cup {a} ELSE index.forgone \ {a}
<1> DEFINE forgone == IF Body!Overlooked(a) THEN index.forgone \cup {a} ELSE index.forgone \ {a}
<1>1. /\ UNCHANGED <<dirty, settles, vouched, job>>
      /\ extracted' = [extracted EXCEPT ![a] = Body!Newest(Atts) + 1]
      /\ index' = [index EXCEPT !.forgone = forgone]
      /\ Body!Newest(Atts) < MaxExtractions
  BY DEF Body!Extract
<1>2. Body!Newest(Atts) \in Version /\ MaxExtractions \in Nat /\ extracted \in [Atts -> Version]
  BY NewestIs, LibraryAssumption DEF LossInv, BodyTypeOK, Body!BodyAssumption
<1>3. extracted' \in [Atts -> Version]
  BY <1>1, <1>2 DEF Version
<1>4. \A b \in Atts : extracted[b] > 0 => extracted'[b] > 0
  BY <1>1, <1>2 DEF Version
<1>5. forgone \subseteq Atts
  BY DEF LossInv, BodyTypeOK, TextIndex
<1> HIDE DEF forgone
<1>6. /\ index' \in TextIndex /\ index'.held = index.held /\ index'.cursor = index.cursor
      /\ index'.partial = index.partial /\ index'.forgone = forgone
  BY <1>1, <1>5 DEF LossInv, BodyTypeOK, TextIndex
<1>7. BodyTypeOK'
  BY <1>1, <1>3, <1>6 DEF LossInv, BodyTypeOK
<1>8. Staged'
  BY <1>1, <1>6 DEF LossInv, Staged, Complete
<1>9. LossOwned'
  BY <1>1, <1>4, <1>6 DEF LossInv, LossOwned, Complete
<1> QED BY <1>1, <1>6, <1>7, <1>8, <1>9 DEF LossInv, forgone

LEMMA EditKeepsLoss ==
  ASSUME LossInv, NEW i \in Items, Body!Edit(i)
  PROVE  /\ LossInv' /\ UNCHANGED <<extracted, index, vouched, job>>
         /\ dirty' = dirty \cup {i} /\ settles' = settles \ {i}
<1>1. UNCHANGED <<extracted, index, vouched, job>> /\ dirty' = dirty \cup {i} /\ settles' = settles \ {i}
  BY DEF Body!Edit
<1>2. BodyTypeOK'
  BY <1>1 DEF LossInv, BodyTypeOK
<1>3. Staged' /\ LossOwned'
  BY <1>1 DEF LossInv, Staged, LossOwned, Complete
<1> QED BY <1>1, <1>2, <1>3 DEF LossInv

LEMMA BuildStartKeepsLoss ==
  ASSUME LossInv, NEW again \in BOOLEAN, NEW asks \in BOOLEAN, Body!StartBuild(again, asks)
  PROVE  /\ LossInv' /\ UNCHANGED <<extracted, dirty>>
         /\ ~vouched' /\ job'.op = "build" /\ job'.map = Body!NoMap
         /\ index'.cursor \in {0, index.cursor}
<1> DEFINE resume == index.checkpoint /\ ~again
           base == IF resume THEN index ELSE Body!EmptyIndex
<1>1. /\ UNCHANGED <<extracted, dirty>> /\ ~vouched' /\ vouched' \in BOOLEAN
      /\ index' = [base EXCEPT !.checkpoint = TRUE]
      /\ job' = [Body!NoJob EXCEPT !.op = "build", !.at = IF asks THEN "source" ELSE "pass",
                                   !.wants = asks, !.resumed = resume]
      /\ settles' = IF resume THEN settles ELSE Items
  BY DEF Body!StartBuild
<1>2. /\ base \in TextIndex /\ base.cursor \in {0, index.cursor} /\ resume \in BOOLEAN
      /\ \A a \in Atts : base.held[a] > 0 => extracted[a] > 0
  BY NothingHeld DEF LossInv, BodyTypeOK, TextIndex, LossOwned, Body!EmptyIndex
<1>3. settles' \in SUBSET Items
  BY <1>1 DEF LossInv, BodyTypeOK
<1> HIDE DEF base, resume
<1>4. index' \in TextIndex /\ index'.held = base.held /\ index'.cursor = base.cursor
  BY <1>1, <1>2 DEF TextIndex
<1>5. /\ job' \in TextJob /\ job'.op = "build" /\ job'.at \in {"source", "pass"} /\ job'.map = Body!NoMap
      /\ job'.at = "pass" => ~job'.wants
  BY <1>1, <1>2, NothingHeld DEF TextJob, Body!NoJob
<1>6. BodyTypeOK'
  BY <1>1, <1>3, <1>4, <1>5 DEF LossInv, BodyTypeOK
<1>7. Staged' /\ LossOwned'
  BY <1>1, <1>2, <1>4, <1>5 DEF Staged, LossOwned
<1> QED BY <1>1, <1>2, <1>4, <1>5, <1>6, <1>7 DEF LossInv

LEMMA UpdateStartKeepsLoss ==
  ASSUME LossInv, NEW asks \in BOOLEAN, Body!StartUpdate(asks)
  PROVE  /\ LossInv' /\ UNCHANGED <<extracted, dirty, index, vouched>> /\ settles' = dirty
         /\ job'.op = "update" /\ job'.at = "delta" /\ job'.todo = dirty /\ job'.refreshed = {}
         /\ job'.saved = index /\ ~job'.map.open
<1>1. /\ UNCHANGED <<extracted, dirty, index, vouched>> /\ settles' = dirty
      /\ job' = [Body!NoJob EXCEPT !.op = "update", !.at = "delta", !.wants = asks, !.todo = dirty, !.saved = index]
  BY DEF Body!StartUpdate
<1>2. /\ job'.op = "update" /\ job'.at = "delta" /\ job'.todo = dirty /\ job'.refreshed = {}
      /\ job'.saved = index /\ ~job'.map.open /\ ~job'.partialWrite /\ job'.failed = {} /\ ~job'.full
  BY <1>1 DEF Body!NoJob, Body!NoMap
<1>3. job' \in TextJob
  BY <1>1, NothingHeld DEF LossInv, BodyTypeOK, TextJob
<1>4. BodyTypeOK'
  BY <1>1, <1>3 DEF LossInv, BodyTypeOK
<1>5. Staged'
  BY <1>1, <1>2 DEF LossInv, Staged
<1>6. LossOwned'
  BY <1>1, <1>2 DEF LossInv, LossOwned, BodyTypeOK, TextIndex, Complete
<1> QED BY <1>1, <1>2, <1>4, <1>5, <1>6 DEF LossInv

\* What may come of opening the source: a whole map has all that was extracted.
LEMMA SourceKeepsLoss ==
  ASSUME LossInv, Body!OpenSource
  PROVE  /\ LossInv' /\ UNCHANGED <<extracted, dirty, settles, index, vouched>>
         /\ \E source : job' = [job EXCEPT !.map = source]
         /\ ~job.map.open /\ job.at \in {"source", "delta", "named"} /\ job.op # "none"
         /\ job'.map.version \in 0..Body!Newest(Atts)
         /\ Complete' => \A a \in Atts : extracted[a] > 0 => a \in job'.map.atts
<1> DEFINE census == {a \in Atts : extracted[a] > 0}
           sourceOf(as) == [open |-> TRUE, atts |-> as, version |-> IF as = {} THEN 0 ELSE Body!Newest(census),
                            incomplete |-> as # census, available |-> as # {}]
<1>1. PICK source \in Body!Sources : job' = [job EXCEPT !.map = source]
  BY DEF Body!OpenSource
<1>2. /\ UNCHANGED <<extracted, dirty, settles, index, vouched>> /\ ~job.map.open
      /\ job.at \in {"source", "delta", "named"} /\ job.wants
  BY DEF Body!OpenSource, Body!NeedsSource
<1>3. job.op # "none"
  BY <1>2 DEF LossInv, Staged, Body!NoJob
<1>4. /\ source \in TextMap /\ source.open /\ source.version \in 0..Body!Newest(Atts)
      /\ ~source.incomplete => \A a \in Atts : extracted[a] > 0 => a \in source.atts
  <2>1. extracted \in [Atts -> Version] /\ census \subseteq Atts
    BY DEF LossInv, BodyTypeOK
  <2>2. Body!Newest(census) \in Nat /\ Body!Newest(Atts) \in Nat /\ Body!Newest(census) <= Body!Newest(Atts)
    <3>1. Body!Newest(Atts) \in Nat /\ \A a \in census : extracted[a] <= Body!Newest(Atts)
      BY <2>1, NewestIs DEF Version
    <3>2. Body!Newest(census) \in Nat /\ Body!Newest(census) <= Body!Newest(Atts)
      BY <2>1, <3>1, NewestIs DEF Version
    <3> QED BY <3>1, <3>2
  <2>3. ASSUME NEW as \in SUBSET census, source = sourceOf(as)
        PROVE  /\ source \in TextMap /\ source.open /\ source.version \in 0..Body!Newest(Atts)
               /\ ~source.incomplete => source.atts = census
    <3> DEFINE short == as # census
               some == as # {}
               version == IF as = {} THEN 0 ELSE Body!Newest(census)
    <3>1. short \in BOOLEAN /\ some \in BOOLEAN /\ as \subseteq Atts /\ (~short => as = census)
      BY <2>1
    <3>2. version \in Nat /\ version \in 0..Body!Newest(Atts)
      <4>1. version = 0 \/ version = Body!Newest(census)
        OBVIOUS
      <4> HIDE DEF version
      <4> QED BY <2>2, <4>1
    <3>3. source = [open |-> TRUE, atts |-> as, version |-> version, incomplete |-> short, available |-> some]
      BY <2>3
    <3> HIDE DEF short, some, version
    <3> QED BY <3>1, <3>2, <3>3 DEF TextMap
  <2>4. CASE source = [Body!NoMap EXCEPT !.open = TRUE, !.incomplete = TRUE]
    <3>1. source \in TextMap /\ source.open = TRUE /\ source.incomplete = TRUE /\ source.version = 0
      BY <2>4 DEF Body!NoMap, TextMap
    <3> QED BY <2>2, <3>1
  <2>5. (\E as \in SUBSET census : source = sourceOf(as))
          \/ source = [Body!NoMap EXCEPT !.open = TRUE, !.incomplete = TRUE]
    BY DEF Body!Sources
  <2> QED BY <2>3, <2>4, <2>5
<1>5. /\ job' \in TextJob /\ job'.op = job.op /\ job'.at = job.at /\ job'.map = source /\ job'.wants = job.wants
      /\ job'.todo = job.todo /\ job'.refreshed = job.refreshed /\ job'.failed = job.failed /\ job'.full = job.full
      /\ job'.saved = job.saved /\ job'.partialWrite = job.partialWrite
  BY <1>1, <1>4 DEF LossInv, BodyTypeOK, TextJob
<1>6. BodyTypeOK'
  BY <1>2, <1>5 DEF LossInv, BodyTypeOK
<1>7. Staged'
  BY <1>2, <1>3, <1>4, <1>5 DEF LossInv, Staged, Complete
<1>8. LossOwned'
  BY <1>2, <1>4, <1>5 DEF LossInv, LossOwned, Complete
<1> QED BY <1>1, <1>2, <1>3, <1>4, <1>5, <1>6, <1>7, <1>8 DEF LossInv, Complete

\* What a read answers: the text of what the map names, or that it could not be had;
\* that there is none only where the map is whole.
LEMMA TextsAre ==
  ASSUME NEW i \in Items, NEW text \in Body!Texts(i)
  PROVE  /\ text \notin {Unread, {}} => text = Body!Mapped(i)
         /\ text = {} => Body!Mapped(i) = {} /\ ~job.map.incomplete
         /\ Body!Mapped(i) \subseteq Atts /\ \A a \in Atts : a \in Body!Mapped(i) <=> Parent[a] = i /\ a \in job.map.atts
<1>1. Body!Mapped(i) \in SUBSET Atts /\ {} \in SUBSET Atts
  BY DEF Body!Mapped, Body!AttsOf
<1>2. Unread # {} /\ Unread # Body!Mapped(i)
  BY <1>1, LibraryAssumption DEF Body!BodyAssumption
<1>3. \A a \in Atts : a \in Body!Mapped(i) <=> Parent[a] = i /\ a \in job.map.atts
  BY DEF Body!Mapped, Body!AttsOf
<1> HIDE DEF Body!Mapped
<1> QED BY <1>1, <1>2, <1>3 DEF Body!Texts, Body!Refuses

LEMMA WithBodyIs ==
  ASSUME BodyTypeOK, NEW i \in Items, NEW as
  PROVE  /\ Body!WithBody(i, as) \in [Atts -> Nat]
         /\ \A a \in Atts : Body!WithBody(i, as)[a] =
                              IF Parent[a] # i THEN index.held[a] ELSE IF a \in as THEN extracted[a] ELSE 0
<1>1. \A a \in Atts : index.held[a] \in Nat /\ extracted[a] \in Nat /\ (a \in Body!AttsOf(i) <=> Parent[a] = i)
  BY DEF BodyTypeOK, TextIndex, Version, Body!AttsOf
<1> QED BY <1>1 DEF Body!WithBody

LEMMA PassKeepsLoss ==
  ASSUME LossInv, Body!FulltextPass
  PROVE  /\ LossInv' /\ UNCHANGED <<extracted, dirty, settles, index, vouched>>
         /\ job.op = "build" /\ job'.op = "build" /\ job'.at = "pass" /\ job'.map = job.map
         /\ job'.resumed = job.resumed
         /\ ~job.resumed => \A a \in Atts : a \in job.map.atts => Parent[a] \in job'.todo
<1> DEFINE wanted == Body!ParentsOf(job.map.atts)
           todo == IF job.resumed THEN {i \in wanted : ~Body!HasFulltext(i)} ELSE wanted
           size == Body!Cardinality(todo)
<1>1. /\ UNCHANGED <<extracted, dirty, settles, index, vouched>> /\ job.at = "source" /\ job.map.open
      /\ job' = [job EXCEPT !.at = "pass", !.todo = todo, !.size = size]
  BY DEF Body!FulltextPass
<1>2. todo \subseteq Items
  BY ParentType DEF Body!ParentsOf, LossInv, BodyTypeOK, TextJob, TextMap
<1>3. size \in Nat
  <2>1. IsFiniteSet(Items)
    BY LibraryAssumption DEF Body!BodyAssumption, Body!IsFiniteSet, IsFiniteSet
  <2>2. Cardinality(todo) \in Nat
    BY <1>2, <2>1, FS_Subset, FS_CardinalityType
  <2> QED BY <2>2 DEF Body!Cardinality, Cardinality
<1>4. ~job.resumed => \A a \in Atts : a \in job.map.atts => Parent[a] \in todo
  BY DEF Body!ParentsOf
<1> HIDE DEF todo, size
<1>5. /\ job' \in TextJob /\ job'.op = job.op /\ job'.at = "pass" /\ job'.map = job.map /\ job'.todo = todo
      /\ job'.resumed = job.resumed
  BY <1>1, <1>2, <1>3 DEF LossInv, BodyTypeOK, TextJob
<1>6. job.op = "build"
  BY <1>1 DEF LossInv, Staged, Body!NoJob, BodyTypeOK, TextJob
<1>7. BodyTypeOK'
  BY <1>1, <1>5 DEF LossInv, BodyTypeOK
<1>8. Staged' /\ LossOwned'
  BY <1>1, <1>5, <1>6 DEF LossInv, Staged, LossOwned
<1> QED BY <1>1, <1>4, <1>5, <1>6, <1>7, <1>8 DEF LossInv

LEMMA ReadKeepsLoss ==
  ASSUME LossInv, NEW i \in Items, Body!ReadBody(i)
  PROVE  /\ LossInv' /\ UNCHANGED <<extracted, dirty, settles, vouched>>
         /\ job.at \in {"pass", "catchup"} /\ i \in job.todo
         /\ \E failed \in {job.failed, job.failed \cup {i}} :
              job' = [job EXCEPT !.todo = @ \ {i}, !.failed = failed]
         /\ index'.cursor = index.cursor /\ index'.partial = index.partial
         /\ \A a \in Atts : Parent[a] # i =>
              index'.held[a] = index.held[a] /\ (a \in index'.forgone <=> a \in index.forgone)
         /\ \A a \in index.forgone \ index'.forgone : a \in job.map.atts
         /\ \A a \in Atts : Parent[a] = i /\ a \in job.map.atts =>
              index'.held[a] = extracted[a] \/ (i \in job'.failed /\ index' = index)
<1>1. PICK text \in Body!Texts(i) :
        /\ job' = [job EXCEPT !.todo = @ \ {i}, !.failed = IF text = Unread THEN @ \cup {i} ELSE @]
        /\ index' = IF text \in {Unread, {}} THEN index ELSE Body!Reread(i, text)
  BY DEF Body!ReadBody
<1> DEFINE failed == IF text = Unread THEN job.failed \cup {i} ELSE job.failed
           held == Body!WithBody(i, text)
           forgone == index.forgone \ text
<1>2. UNCHANGED <<extracted, dirty, settles, vouched>> /\ job.at \in {"pass", "catchup"} /\ i \in job.todo
  BY DEF Body!ReadBody
<1>3. /\ held \in [Atts -> Nat]
      /\ \A a \in Atts : held[a] = IF Parent[a] # i THEN index.held[a] ELSE IF a \in text THEN extracted[a] ELSE 0
  BY WithBodyIs DEF LossInv
<1>4. /\ job' = [job EXCEPT !.todo = @ \ {i}, !.failed = failed]
      /\ index' = IF text \in {Unread, {}} THEN index ELSE [index EXCEPT !.held = held, !.forgone = forgone]
      /\ failed \in {job.failed, job.failed \cup {i}} /\ (text = Unread => i \in failed)
  BY <1>1 DEF Body!Reread
<1>a. /\ forgone \subseteq index.forgone /\ index.forgone \subseteq Atts
      /\ \A a \in index.forgone : a \in forgone <=> a \notin text
  BY DEF LossInv, BodyTypeOK, TextIndex
<1> HIDE DEF failed, held, forgone
<1>5. /\ job' \in TextJob /\ job'.op = job.op /\ job'.at = job.at /\ job'.map = job.map /\ job'.todo = job.todo \ {i}
      /\ job'.wants = job.wants /\ job'.saved = job.saved /\ job'.refreshed = job.refreshed
      /\ job'.full = job.full /\ job'.partialWrite = job.partialWrite /\ job'.failed = failed
      /\ job'.probed = job.probed
  BY <1>4 DEF LossInv, BodyTypeOK, TextJob
<1>6. /\ index' \in TextIndex /\ index'.cursor = index.cursor /\ index'.partial = index.partial
      /\ index'.held = (IF text \in {Unread, {}} THEN index.held ELSE held)
      /\ index'.forgone = (IF text \in {Unread, {}} THEN index.forgone ELSE forgone)
  BY <1>3, <1>4, <1>a DEF LossInv, BodyTypeOK, TextIndex
<1>7. BodyTypeOK'
  BY <1>2, <1>5, <1>6 DEF LossInv, BodyTypeOK
<1>8. Staged'
  BY <1>2, <1>5, <1>6 DEF LossInv, Staged, Complete, Body!NoJob
<1>b. \A a \in Atts : a \in text /\ text \notin {Unread, {}} => Parent[a] = i /\ a \in job.map.atts
  BY TextsAre
<1>9. \A a \in Atts : Parent[a] # i =>
        index'.held[a] = index.held[a] /\ (a \in index'.forgone <=> a \in index.forgone)
  BY <1>3, <1>6, <1>a, <1>b
<1>c. \A a \in index.forgone \ index'.forgone : a \in job.map.atts
  BY <1>6, <1>a, <1>b
<1>10. \A a \in Atts : Parent[a] = i /\ a \in job.map.atts =>
          index'.held[a] = extracted[a] \/ (i \in failed /\ index' = index)
  BY <1>3, <1>4, <1>6, TextsAre
<1>11. \A a \in Atts : index'.held[a] # index.held[a] =>
         Parent[a] = i /\ index'.held[a] = IF a \in job.map.atts THEN extracted[a] ELSE 0
  BY <1>3, <1>6, TextsAre
<1>12. LossOwned'
  <2>1. \A a \in Atts : index'.held[a] > 0 => extracted[a] > 0
    BY <1>11 DEF LossInv, LossOwned
  <2>2. ASSUME job.op = "update", NEW a \in Atts, job.saved.held[a] > 0, index'.held[a] = 0
        PROVE  \/ Parent[a] \in job.refreshed /\ (job.partialWrite \/ ~job.wants)
               \/ index.partial /\ ~job.full /\ job.at \in {"catchup", "end"}
    <3>1. CASE index.held[a] = 0
      BY <2>2, <3>1 DEF LossInv, LossOwned
    <3>2. CASE index.held[a] # 0
      <4>1. Parent[a] = i /\ a \notin job.map.atts
        BY <1>11, <2>2, <3>2 DEF LossInv, LossOwned
      <4>2. ~Complete
        BY <2>2, <4>1 DEF LossInv, LossOwned
      <4>3. job.at = "catchup" /\ job.todo # {}
        BY <1>2, <2>2 DEF LossInv, Staged
      <4> QED BY <2>2, <4>2, <4>3 DEF LossInv, Staged
    <3> QED BY <3>1, <3>2
  <2>3. job.op = "update" => \A a \in Atts : job.saved.held[a] > 0 => extracted[a] > 0 /\ (Complete => a \in job.map.atts)
    BY DEF LossInv, LossOwned
  <2> QED BY <1>2, <1>5, <1>6, <2>1, <2>2, <2>3 DEF LossOwned, Complete
<1> QED BY <1>2, <1>4, <1>5, <1>6, <1>7, <1>8, <1>9, <1>10, <1>12, <1>c DEF LossInv

\* An update not asked for full text reads none: what it takes out it gives up.
LEMMA UnaskedKeepsLoss ==
  ASSUME LossInv, NEW i \in Items, Body!RefreshItem(i), ~job.wants
  PROVE  /\ LossInv' /\ index'.cursor = index.cursor /\ index'.partial = index.partial
         /\ \E gap \in {job.gap}, partialWrite \in {job.partialWrite} :
              job' = [job EXCEPT !.todo = @ \ {i}, !.refreshed = @ \cup {i}, !.gap = gap,
                                 !.partialWrite = partialWrite]
         /\ \A a \in Atts : Parent[a] # i =>
              index'.held[a] = index.held[a] /\ (a \in index'.forgone <=> a \in index.forgone)
         /\ \A a \in Atts : Parent[a] = i => a \in index'.forgone
         /\ \A a \in index.forgone : a \in index'.forgone
<1> DEFINE held == Body!WithBody(i, {})
           forgone == index.forgone \cup Body!AttsOf(i)
<1>1. Unread # {}
  BY LibraryAssumption DEF Body!BodyAssumption
<1>2. /\ UNCHANGED <<extracted, dirty, settles, vouched>> /\ job.at = "delta" /\ i \in job.todo
      /\ job' = [job EXCEPT !.todo = @ \ {i}, !.refreshed = @ \cup {i}, !.gap = @ \/ {} = Unread,
                   !.partialWrite = @ \/ ({} \notin {Unread, {}} /\ job.map.incomplete)]
      /\ index' = [index EXCEPT !.held = held, !.forgone = forgone]
  BY <1>1 DEF Body!RefreshItem
<1>3. job.gap \in BOOLEAN /\ job.partialWrite \in BOOLEAN
  BY DEF LossInv, BodyTypeOK, TextJob
<1>4. job.gap = (job.gap \/ {} = Unread)
      /\ job.partialWrite = (job.partialWrite \/ ({} \notin {Unread, {}} /\ job.map.incomplete))
  BY <1>1, <1>3
<1>5. job' = [job EXCEPT !.todo = @ \ {i}, !.refreshed = @ \cup {i}, !.gap = job.gap,
                         !.partialWrite = job.partialWrite]
  BY <1>2, <1>4
<1>6. /\ held \in [Atts -> Nat]
      /\ \A a \in Atts : held[a] = IF Parent[a] # i THEN index.held[a] ELSE 0
  BY WithBodyIs DEF LossInv
<1>7. forgone \subseteq Atts /\ \A a \in Atts : a \in forgone <=> a \in index.forgone \/ Parent[a] = i
  BY DEF LossInv, BodyTypeOK, TextIndex, Body!AttsOf
<1> HIDE DEF held, forgone
<1>8. /\ job' \in TextJob /\ job'.op = job.op /\ job'.at = job.at /\ job'.map = job.map /\ job'.todo = job.todo \ {i}
      /\ job'.wants = job.wants /\ job'.saved = job.saved /\ job'.refreshed = job.refreshed \cup {i}
      /\ job'.full = job.full /\ job'.failed = job.failed /\ job'.partialWrite = job.partialWrite
  BY <1>5 DEF LossInv, BodyTypeOK, TextJob
<1>9. /\ index' \in TextIndex /\ index'.cursor = index.cursor /\ index'.partial = index.partial
      /\ index'.held = held /\ index'.forgone = forgone
  BY <1>2, <1>6, <1>7 DEF LossInv, BodyTypeOK, TextIndex
<1>10. job.op = "update"
  BY <1>2 DEF LossInv, Staged, Body!NoJob, BodyTypeOK, TextJob
<1>11. BodyTypeOK'
  BY <1>2, <1>8, <1>9 DEF LossInv, BodyTypeOK
<1>12. Staged'
  BY <1>2, <1>8, <1>9, <1>10 DEF LossInv, Staged, Complete
<1>13. LossOwned'
  BY <1>2, <1>6, <1>8, <1>9, <1>10 DEF LossInv, LossOwned, Complete
<1>14. \A a \in index.forgone : a \in Atts
  BY DEF LossInv, BodyTypeOK, TextIndex
<1> QED BY <1>5, <1>6, <1>7, <1>9, <1>11, <1>12, <1>13, <1>14 DEF LossInv

LEMMA AskedKeepsLoss ==
  ASSUME LossInv, NEW i \in Items, Body!RefreshItem(i), job.wants
  PROVE  /\ LossInv' /\ index'.cursor = index.cursor /\ index'.partial = index.partial
         /\ \E gap, partialWrite \in BOOLEAN :
              /\ job' = [job EXCEPT !.todo = @ \ {i}, !.refreshed = @ \cup {i}, !.gap = gap,
                                    !.partialWrite = partialWrite]
              /\ ~gap => ~job.gap
              /\ ~partialWrite => ~job.partialWrite
              /\ ~gap /\ ~partialWrite =>
                   /\ Complete
                   /\ \A a \in Atts : Parent[a] = i /\ a \in job.map.atts => index'.held[a] = extracted[a]
         /\ \A a \in Atts : Parent[a] # i =>
              index'.held[a] = index.held[a] /\ (a \in index'.forgone <=> a \in index.forgone)
         /\ \A a \in index.forgone \ index'.forgone : a \in job.map.atts
<1>0. /\ UNCHANGED <<extracted, dirty, settles, vouched>> /\ job.at = "delta" /\ i \in job.todo /\ job.map.open
  BY DEF Body!RefreshItem, Body!NeedsSource
<1>1. job.op = "update" /\ job.wants
  BY <1>0 DEF LossInv, Staged, Body!NoJob, BodyTypeOK, TextJob
<1>2. PICK text \in Body!Texts(i) :
        /\ job' = [job EXCEPT !.todo = @ \ {i}, !.refreshed = @ \cup {i}, !.gap = @ \/ text = Unread,
                     !.partialWrite = @ \/ (text \notin {Unread, {}} /\ job.map.incomplete)]
        /\ index' = IF text = Unread THEN index ELSE Body!Reread(i, text)
  BY <1>1 DEF Body!RefreshItem
<1> DEFINE gap == job.gap \/ text = Unread
           partialWrite == job.partialWrite \/ (text \notin {Unread, {}} /\ job.map.incomplete)
           held == Body!WithBody(i, text)
           forgone == index.forgone \ text
<1>3. /\ held \in [Atts -> Nat]
      /\ \A a \in Atts : held[a] = IF Parent[a] # i THEN index.held[a] ELSE IF a \in text THEN extracted[a] ELSE 0
  BY WithBodyIs DEF LossInv
<1>4. /\ job' = [job EXCEPT !.todo = @ \ {i}, !.refreshed = @ \cup {i}, !.gap = gap, !.partialWrite = partialWrite]
      /\ index' = IF text = Unread THEN index ELSE [index EXCEPT !.held = held, !.forgone = forgone]
  BY <1>2 DEF Body!Reread
<1>5. gap \in BOOLEAN /\ partialWrite \in BOOLEAN
  BY DEF LossInv, BodyTypeOK, TextJob, TextMap
<1>6. /\ ~gap => ~job.gap /\ text # Unread
      /\ ~partialWrite => ~job.partialWrite /\ (text \in {Unread, {}} \/ ~job.map.incomplete)
  OBVIOUS
<1>b. /\ forgone \subseteq index.forgone /\ index.forgone \subseteq Atts
      /\ \A a \in index.forgone : a \in forgone <=> a \notin text
  BY DEF LossInv, BodyTypeOK, TextIndex
<1> HIDE DEF gap, partialWrite, held, forgone
<1>7. ~gap /\ ~partialWrite => Complete
  BY <1>0, <1>1, <1>6, TextsAre DEF Complete
<1>8. /\ job' \in TextJob /\ job'.op = job.op /\ job'.at = job.at /\ job'.map = job.map /\ job'.todo = job.todo \ {i}
      /\ job'.wants = job.wants /\ job'.saved = job.saved /\ job'.refreshed = job.refreshed \cup {i}
      /\ job'.full = job.full /\ job'.failed = job.failed
  BY <1>4, <1>5 DEF LossInv, BodyTypeOK, TextJob
<1>a. job'.partialWrite = partialWrite
  BY <1>4 DEF LossInv, BodyTypeOK, TextJob
<1>9. /\ index' \in TextIndex /\ index'.cursor = index.cursor /\ index'.partial = index.partial
      /\ index'.held = (IF text = Unread THEN index.held ELSE held)
      /\ index'.forgone = (IF text = Unread THEN index.forgone ELSE forgone)
  BY <1>3, <1>4, <1>b DEF LossInv, BodyTypeOK, TextIndex
<1>10. BodyTypeOK'
  BY <1>0, <1>8, <1>9 DEF LossInv, BodyTypeOK
<1>11. Staged'
  BY <1>0, <1>1, <1>8, <1>9 DEF LossInv, Staged, Complete
<1>c. \A a \in Atts : a \in text /\ text # Unread => Parent[a] = i /\ a \in job.map.atts
  BY TextsAre
<1>12. /\ \A a \in Atts : Parent[a] # i =>
            index'.held[a] = index.held[a] /\ (a \in index'.forgone <=> a \in index.forgone)
       /\ \A a \in index.forgone \ index'.forgone : a \in job.map.atts
       /\ ~gap => \A a \in Atts : Parent[a] = i /\ a \in job.map.atts => index'.held[a] = extracted[a]
  <2>1. \A a \in Atts : Parent[a] # i =>
          index'.held[a] = index.held[a] /\ (a \in index'.forgone <=> a \in index.forgone)
    BY <1>3, <1>9, <1>b, <1>c
  <2>2. \A a \in index.forgone \ index'.forgone : a \in job.map.atts
    BY <1>9, <1>b, <1>c
  <2>3. ~gap => \A a \in Atts : Parent[a] = i /\ a \in job.map.atts => index'.held[a] = extracted[a]
    BY <1>3, <1>6, <1>9, TextsAre
  <2> QED BY <2>1, <2>2, <2>3
<1>13. \A a \in Atts : index'.held[a] # index.held[a] =>
         /\ Parent[a] = i /\ index'.held[a] = IF a \in job.map.atts THEN extracted[a] ELSE 0
         /\ a \notin job.map.atts => partialWrite \/ ~job.map.incomplete
  BY <1>3, <1>9, TextsAre DEF partialWrite
<1>14. LossOwned'
  <2>1. \A a \in Atts : index'.held[a] > 0 => extracted[a] > 0
    BY <1>13 DEF LossInv, LossOwned
  <2>2. ASSUME NEW a \in Atts, job.saved.held[a] > 0, index'.held[a] = 0
        PROVE  Parent[a] \in job.refreshed \cup {i} /\ partialWrite
    <3>1. CASE index.held[a] = 0
      BY <1>0, <1>1, <1>6, <2>2, <3>1 DEF LossInv, LossOwned
    <3>2. CASE index.held[a] # 0
      <4>1. Parent[a] = i /\ a \notin job.map.atts /\ (partialWrite \/ ~job.map.incomplete)
        BY <1>1, <1>13, <2>2, <3>2 DEF LossInv, LossOwned
      <4>2. ~Complete
        BY <1>1, <2>2, <4>1 DEF LossInv, LossOwned
      <4> QED BY <1>0, <1>1, <4>1, <4>2 DEF Complete
    <3> QED BY <3>1, <3>2
  <2>3. \A a \in Atts : job.saved.held[a] > 0 => extracted[a] > 0 /\ (Complete => a \in job.map.atts)
    BY <1>1 DEF LossInv, LossOwned
  <2> QED BY <1>0, <1>8, <1>a, <2>1, <2>2, <2>3 DEF LossOwned, Complete
<1> QED BY <1>4, <1>5, <1>6, <1>7, <1>9, <1>10, <1>11, <1>12, <1>14 DEF LossInv

LEMMA RefreshKeepsLoss ==
  ASSUME LossInv, NEW i \in Items, Body!RefreshItem(i)
  PROVE  /\ LossInv' /\ UNCHANGED <<extracted, dirty, settles, vouched>>
         /\ job.op = "update" /\ job.at = "delta" /\ i \in job.todo /\ (job.wants => job.map.open)
         /\ \E gap, partialWrite \in BOOLEAN :
              /\ job' = [job EXCEPT !.todo = @ \ {i}, !.refreshed = @ \cup {i}, !.gap = gap,
                                    !.partialWrite = partialWrite]
              /\ ~gap => ~job.gap
              /\ ~partialWrite => ~job.partialWrite
              /\ ~gap /\ ~partialWrite /\ job.wants =>
                   /\ Complete
                   /\ \A a \in Atts : Parent[a] = i /\ a \in job.map.atts => index'.held[a] = extracted[a]
         /\ index'.cursor = index.cursor /\ index'.partial = index.partial
         /\ \A a \in Atts : Parent[a] # i =>
              index'.held[a] = index.held[a] /\ (a \in index'.forgone <=> a \in index.forgone)
         /\ \A a \in index.forgone \ index'.forgone : a \in job.map.atts
         /\ ~job.wants => \A a \in Atts : Parent[a] = i => a \in index'.forgone
<1>1. /\ UNCHANGED <<extracted, dirty, settles, vouched>> /\ job.at = "delta" /\ i \in job.todo
      /\ job.wants => job.map.open
  BY DEF Body!RefreshItem, Body!NeedsSource
<1>2. job.op = "update" /\ job.gap \in BOOLEAN /\ job.partialWrite \in BOOLEAN
  BY <1>1 DEF LossInv, Staged, Body!NoJob, BodyTypeOK, TextJob
<1>3. CASE job.wants
  BY <1>1, <1>2, <1>3, AskedKeepsLoss
<1>4. CASE ~job.wants
  BY <1>1, <1>2, <1>4, UnaskedKeepsLoss
<1> QED BY <1>3, <1>4

LEMMA MaxOfTwo ==
  ASSUME NEW m \in Nat, NEW n \in Nat
  PROVE  Body!Max({m, n}) = IF m >= n THEN m ELSE n
<1> DEFINE most == IF m >= n THEN m ELSE n
<1>1. {m, n} # {} /\ {m, n} \subseteq 0..most /\ most \in Nat
  OBVIOUS
<1> HIDE DEF most
<1>2. Body!Max({m, n}) \in {m, n} /\ \A y \in {m, n} : y <= Body!Max({m, n})
  BY <1>1, MaxOf
<1>3. Body!Max({m, n}) \in {m, n} /\ m <= Body!Max({m, n}) /\ n <= Body!Max({m, n})
  BY <1>2
<1> QED BY <1>3

LEMMA FromType == LossInv => Body!From \in Nat
BY DEF LossInv, BodyTypeOK, TextIndex, Body!From

LEMMA ProbeKeepsLoss ==
  ASSUME LossInv, Body!Probe
  PROVE  /\ LossInv' /\ UNCHANGED <<extracted, dirty, settles, index, vouched>>
         /\ job.op = "update" /\ job.at = "delta" /\ job.todo = {} /\ job'.op = "update" /\ job'.map = job.map
         /\ job'.todo = {} /\ job'.refreshed = job.refreshed /\ job'.saved = job.saved /\ job'.failed = {} /\ ~job'.full
         /\ (job'.gap <=> job.gap) /\ (job'.partialWrite <=> job.partialWrite)
         /\ \/ job'.at = "end" /\ job'.probed = index.cursor
            \/ /\ job'.at = "named" /\ job'.named = {a \in Atts : extracted[a] > Body!From}
               /\ index.cursor <= job'.probed
               /\ job'.probed = index.cursor \/ job'.probed <= Body!Newest(Atts)
         /\ job'.wants = job.wants
<1> DEFINE named == {a \in Atts : extracted[a] > Body!From}
           probed == Body!Max({index.cursor, Body!Newest(named)})
<1>1. /\ UNCHANGED <<extracted, dirty, settles, index, vouched>> /\ job.at = "delta" /\ job.todo = {}
      /\ \/ job' = [job EXCEPT !.at = "end", !.probed = index.cursor]
         \/ job.wants /\ job' = [job EXCEPT !.at = "named", !.named = named, !.probed = probed]
  BY DEF Body!Probe
<1>2. job.op = "update" /\ job.failed = {} /\ ~job.full
  BY <1>1 DEF LossInv, Staged, Body!NoJob, BodyTypeOK, TextJob
<1>3. /\ index.cursor \in Nat /\ probed \in Nat /\ index.cursor <= probed
      /\ probed = index.cursor \/ probed <= Body!Newest(Atts)
  <2>1. extracted \in [Atts -> Version] /\ named \in SUBSET Atts /\ index.cursor \in Nat
    BY DEF LossInv, BodyTypeOK, TextIndex
  <2>2. Body!Newest(Atts) \in Nat /\ \A a \in named : extracted[a] <= Body!Newest(Atts)
    BY <2>1, NewestIs DEF Version
  <2>3. Body!Newest(named) \in Nat /\ Body!Newest(named) <= Body!Newest(Atts)
    BY <2>1, <2>2, NewestIs DEF Version
  <2> HIDE DEF named
  <2>4. probed = IF index.cursor >= Body!Newest(named) THEN index.cursor ELSE Body!Newest(named)
    BY <2>1, <2>3, MaxOfTwo
  <2> QED BY <2>1, <2>2, <2>3, <2>4
<1>4. named \subseteq Atts
  OBVIOUS
<1> HIDE DEF named, probed
<1>5. /\ job' \in TextJob /\ job'.op = job.op /\ job'.map = job.map /\ job'.wants = job.wants
      /\ job'.todo = job.todo /\ job'.refreshed = job.refreshed /\ job'.saved = job.saved
      /\ job'.failed = job.failed /\ job'.full = job.full /\ job'.gap = job.gap /\ job'.partialWrite = job.partialWrite
      /\ \/ job'.at = "end" /\ job'.probed = index.cursor
         \/ job.wants /\ job'.at = "named" /\ job'.named = named /\ job'.probed = probed
  BY <1>1, <1>3, <1>4 DEF LossInv, BodyTypeOK, TextJob
<1>6. BodyTypeOK'
  BY <1>1, <1>5 DEF LossInv, BodyTypeOK
<1>7. Staged'
  BY <1>1, <1>2, <1>5 DEF LossInv, Staged, Complete
<1>8. LossOwned'
  BY <1>1, <1>2, <1>5 DEF LossInv, LossOwned, Complete
<1> QED BY <1>1, <1>2, <1>3, <1>5, <1>6, <1>7, <1>8 DEF LossInv, named

\* A catch-up is planned over a whole map, or while the mark stands.
LEMMA PlanKeepsLoss ==
  ASSUME LossInv, Body!PlanCatchUp
  PROVE  /\ LossInv' /\ UNCHANGED <<extracted, dirty, settles, index, vouched>>
         /\ job.op = "update" /\ job.at = "named" /\ job'.op = "update" /\ job'.map = job.map
         /\ job'.refreshed = job.refreshed /\ job'.saved = job.saved /\ job'.failed = {}
         /\ (job'.gap <=> job.gap) /\ (job'.partialWrite <=> job.partialWrite)
         /\ \/ job'.at = "end" /\ job'.probed = index.cursor /\ ~job'.full
            \/ /\ job'.at = "catchup" /\ job'.probed = job.probed
               /\ (job'.full \/ (~index.partial /\ index.cursor > 0)) =>
                    /\ job.named # {} => Complete
                    /\ \A a \in job.named : a \in job.map.atts => Parent[a] \in job'.todo \cup job.refreshed
         /\ job.wants /\ job'.wants
<1> DEFINE named == Body!ParentsOf(job.named \cap job.map.atts)
           short == job.named # {} /\ (job.map.incomplete \/ (named = {} /\ ~job.map.available))
           full == /\ index.partial /\ index.attempts < FULLTEXT_RECOVERY_ATTEMPTS
                   /\ named # {} /\ ~short /\ Body!MapReachedEnd
           gapOnly == Body!From = 0 /\ ~full
           none == gapOnly /\ \A i \in Items : ~Body!HasFulltext(i)
           heldBack == index.partial /\ ~full
           todo == {i \in named \ job.refreshed : ~(gapOnly /\ Body!HasFulltext(i))}
<1>1. /\ UNCHANGED <<extracted, dirty, settles, index, vouched>> /\ job.at = "named"
      /\ job.wants /\ job.named # {} => job.map.open
      /\ \/ job' = [[job EXCEPT !.full = full, !.heldBack = heldBack]
                      EXCEPT !.at = "end", !.probed = index.cursor, !.full = FALSE]
         \/ /\ ~(short /\ ~index.partial)
            /\ job' = [[job EXCEPT !.full = full, !.heldBack = heldBack] EXCEPT !.at = "catchup", !.todo = todo]
  BY DEF Body!PlanCatchUp, Body!NeedsSource
<1>2. job.op = "update" /\ job.failed = {} /\ ~job.full /\ job.wants /\ job.todo = {}
  BY <1>1 DEF LossInv, Staged, Body!NoJob, BodyTypeOK, TextJob
<1>3. /\ named \subseteq Items /\ \A a \in Atts : a \in job.named /\ a \in job.map.atts => Parent[a] \in named
      /\ job.named = {} => named = {}
  BY ParentType DEF Body!ParentsOf, LossInv, BodyTypeOK, TextJob, TextMap
<1> HIDE DEF named
<1>4. /\ full \in BOOLEAN /\ heldBack \in BOOLEAN /\ index.cursor \in Nat
      /\ full => Complete /\ index.partial
  <2>1. full => Complete /\ index.partial
    BY DEF Body!MapReachedEnd, Complete
  <2> QED BY <2>1 DEF LossInv, BodyTypeOK, TextIndex
<1>5. todo \subseteq Items /\ todo \cap job.refreshed = {} /\ (job.named = {} => todo = {})
  BY <1>3
<1>6. job.named # {} /\ ~(short /\ ~index.partial) /\ ~index.partial => Complete
  BY <1>1, <1>2 DEF Complete
<1>7. full \/ (~index.partial /\ index.cursor > 0) => \A i \in named : i \in todo \cup job.refreshed
  BY DEF Body!From
<1> HIDE DEF full, heldBack, todo, gapOnly
<1>8. /\ job' \in TextJob /\ job'.op = job.op /\ job'.map = job.map /\ job'.wants = job.wants
      /\ job'.refreshed = job.refreshed /\ job'.saved = job.saved /\ job'.failed = job.failed
      /\ job'.gap = job.gap /\ job'.partialWrite = job.partialWrite
  <2>1. CASE job' = [[job EXCEPT !.full = full, !.heldBack = heldBack]
                       EXCEPT !.at = "end", !.probed = index.cursor, !.full = FALSE]
    BY <1>4, <2>1 DEF LossInv, BodyTypeOK, TextJob
  <2>2. CASE job' = [[job EXCEPT !.full = full, !.heldBack = heldBack] EXCEPT !.at = "catchup", !.todo = todo]
    BY <1>4, <1>5, <2>2 DEF LossInv, BodyTypeOK, TextJob
  <2> QED BY <1>1, <2>1, <2>2
<1>9. \/ job'.at = "end" /\ job'.probed = index.cursor /\ job'.full = FALSE /\ job'.todo = job.todo
      \/ /\ ~(short /\ ~index.partial)
         /\ job'.at = "catchup" /\ job'.probed = job.probed /\ job'.full = full /\ job'.todo = todo
  <2>1. CASE job' = [[job EXCEPT !.full = full, !.heldBack = heldBack]
                       EXCEPT !.at = "end", !.probed = index.cursor, !.full = FALSE]
    BY <1>4, <2>1 DEF LossInv, BodyTypeOK, TextJob
  <2>2. CASE /\ ~(short /\ ~index.partial)
             /\ job' = [[job EXCEPT !.full = full, !.heldBack = heldBack] EXCEPT !.at = "catchup", !.todo = todo]
    <3>1. job'.at = "catchup" /\ job'.probed = job.probed /\ job'.full = full /\ job'.todo = todo
      BY <1>4, <1>5, <2>2 DEF LossInv, BodyTypeOK, TextJob
    <3> QED BY <2>2, <3>1
  <2> QED BY <1>1, <2>1, <2>2
<1> HIDE DEF short
<1>10. BodyTypeOK'
  BY <1>1, <1>8 DEF LossInv, BodyTypeOK
<1>11. Staged'
  <2>1. job'.full => Complete /\ index.partial
    BY <1>4, <1>9
  <2>2. job'.at = "catchup" => job'.todo \cap job.refreshed = {}
    BY <1>5, <1>9
  <2>3. job'.at = "catchup" /\ ~index.partial /\ job'.todo # {} => Complete
    BY <1>5, <1>6, <1>9
  <2> QED BY <1>1, <1>2, <1>8, <1>9, <2>1, <2>2, <2>3 DEF LossInv, Staged, Complete
<1>12. LossOwned'
  BY <1>1, <1>2, <1>8 DEF LossInv, LossOwned, Complete
<1>13. ASSUME job'.at = "catchup", job'.full \/ (~index.partial /\ index.cursor > 0)
       PROVE  /\ job.named # {} => Complete
              /\ \A a \in job.named : a \in job.map.atts => Parent[a] \in job'.todo \cup job.refreshed
  <2>1. full \/ (~index.partial /\ index.cursor > 0)
    BY <1>9, <1>13
  <2>2. job.named # {} => Complete
    BY <1>4, <1>6, <1>9, <1>13, <2>1
  <2>3. job.named \subseteq Atts
    BY DEF LossInv, BodyTypeOK, TextJob
  <2> QED BY <1>3, <1>7, <1>9, <1>13, <2>1, <2>2, <2>3
<1> QED BY <1>1, <1>2, <1>8, <1>9, <1>10, <1>11, <1>12, <1>13 DEF LossInv

LEMMA EndKeepsLoss ==
  ASSUME LossInv, Body!EndCatchUp
  PROVE  /\ LossInv' /\ UNCHANGED <<extracted, dirty, settles, index, vouched>>
         /\ job.op = "update" /\ job.at = "catchup" /\ job.todo = {} /\ job'.at = "end"
         /\ \E probed \in {index.cursor, job.probed} :
              /\ job' = [job EXCEPT !.at = "end", !.probed = probed]
              /\ job.failed # {} => probed = index.cursor
<1> DEFINE probed == IF job.heldBack \/ job.failed # {} THEN index.cursor ELSE job.probed
<1>1. /\ UNCHANGED <<extracted, dirty, settles, index, vouched>> /\ job.at = "catchup" /\ job.todo = {}
      /\ job' = [job EXCEPT !.at = "end", !.probed = probed]
  BY DEF Body!EndCatchUp
<1>2. job.op = "update"
  BY <1>1 DEF LossInv, Staged, Body!NoJob, BodyTypeOK, TextJob
<1>3. probed \in {index.cursor, job.probed} /\ (job.failed # {} => probed = index.cursor) /\ probed \in Nat
  BY DEF LossInv, BodyTypeOK, TextJob, TextIndex
<1> HIDE DEF probed
<1>4. /\ job' \in TextJob /\ job'.op = job.op /\ job'.at = "end" /\ job'.map = job.map /\ job'.wants = job.wants
      /\ job'.todo = job.todo /\ job'.refreshed = job.refreshed /\ job'.saved = job.saved
      /\ job'.failed = job.failed /\ job'.full = job.full /\ job'.partialWrite = job.partialWrite
  BY <1>1, <1>3 DEF LossInv, BodyTypeOK, TextJob
<1>5. BodyTypeOK'
  BY <1>1, <1>4 DEF LossInv, BodyTypeOK
<1>6. Staged'
  BY <1>1, <1>2, <1>4 DEF LossInv, Staged, Complete
<1>7. LossOwned'
  BY <1>1, <1>2, <1>4 DEF LossInv, LossOwned, Complete
<1> QED BY <1>1, <1>2, <1>3, <1>4, <1>5, <1>6, <1>7 DEF LossInv

\* A job is over.
LEMMA OverKeepsLoss ==
  ASSUME LossInv, UNCHANGED <<extracted, settles>>, dirty' \in SUBSET Items, vouched' \in BOOLEAN,
         job' = Body!NoJob, index' \in TextIndex, index'.held \in {index.held, job.saved.held},
         index'.held = job.saved.held => index'.held = index.held \/ job.op = "update"
  PROVE  LossInv'
<1>1. BodyTypeOK'
  BY NothingHeld DEF LossInv, BodyTypeOK
<1>2. Staged'
  BY DEF Staged, Body!NoJob
<1>3. LossOwned'
  BY DEF LossInv, LossOwned, Body!NoJob
<1> QED BY <1>1, <1>2, <1>3 DEF LossInv

LEMMA UpdateEndKeepsLoss ==
  ASSUME LossInv, NEW otherGap \in BOOLEAN, NEW reconciled \in BOOLEAN, Body!FinishUpdate(otherGap, reconciled)
  PROVE  /\ LossInv' /\ UNCHANGED <<extracted, settles>> /\ job.op = "update" /\ job.at = "end" /\ job' = Body!NoJob
         /\ dirty' = dirty \/ (~job.gap /\ dirty' = dirty \ settles)
         /\ \/ index' = index /\ vouched' = vouched /\ dirty' = dirty
            \/ /\ index'.held = index.held /\ index'.cursor = job.probed /\ index'.forgone = index.forgone
               /\ (index'.partial <=> (index.partial /\ ~(job.full /\ job.failed = {})) \/ job.partialWrite)
               /\ vouched' => (job.full /\ job.failed = {}) \/ (vouched /\ (Body!From > 0 \/ ~(job.probed > index.cursor)))
<1> DEFINE recovered == job.full /\ job.failed = {}
           partial == (index.partial /\ ~recovered) \/ job.partialWrite
           attempts == IF recovered THEN 0 ELSE IF job.full /\ job.failed # {} THEN index.attempts + 1 ELSE index.attempts
<1>1. /\ UNCHANGED <<extracted, settles>> /\ job.op = "update" /\ job.at = "end" /\ job' = Body!NoJob
      /\ dirty' = dirty \/ (~job.gap /\ dirty' = dirty \ settles)
      /\ ~reconciled => dirty' = dirty
      /\ index' = IF ~reconciled THEN index
                  ELSE [index EXCEPT !.cursor = job.probed, !.partial = partial, !.attempts = attempts]
      /\ vouched' = IF ~reconciled THEN vouched
                    ELSE recovered \/ (vouched /\ (Body!From > 0 \/ ~(job.probed > index.cursor)))
  BY DEF Body!FinishUpdate, Body!Settled, Body!UpdateStamps
<1>2. partial \in BOOLEAN /\ attempts \in Nat /\ job.probed \in Nat
  BY DEF LossInv, BodyTypeOK, TextJob, TextIndex
<1> HIDE DEF partial, attempts
<1>3. /\ index' \in TextIndex /\ index'.held = index.held /\ index'.forgone = index.forgone
      /\ reconciled => index'.cursor = job.probed /\ index'.partial = partial
  BY <1>1, <1>2 DEF LossInv, BodyTypeOK, TextIndex
<1>4. vouched' \in BOOLEAN /\ dirty' \in SUBSET Items
  <2>1. vouched \in BOOLEAN /\ job.full \in BOOLEAN
    BY DEF LossInv, BodyTypeOK, TextJob
  <2> QED BY <1>1, <2>1 DEF LossInv, BodyTypeOK
<1>5. LossInv'
  BY <1>1, <1>3, <1>4, OverKeepsLoss
<1> QED BY <1>1, <1>3, <1>5 DEF partial

LEMMA BuildEndKeepsLoss ==
  ASSUME LossInv, NEW died \in BOOLEAN, Body!FinishBuild(died)
  PROVE  /\ LossInv' /\ UNCHANGED <<extracted, settles>> /\ job' = Body!NoJob
         /\ job.op = "build" /\ job.at = "pass" /\ job.todo = {} /\ index'.held = index.held
         /\ index'.forgone = index.forgone /\ dirty' \in {dirty, dirty \ settles}
         /\ \/ job.wants /\ job.failed = {} /\ ~job.map.incomplete /\ index'.cursor = job.map.version /\ (vouched' => ~job.resumed)
            \/ index'.cursor = index.cursor /\ ~vouched'
<1> DEFINE earns == job.wants /\ Body!Cardinality(job.failed) = 0 /\ ~job.map.incomplete
           stamps == ~(Body!Cardinality(job.failed) > 0 /\ Body!Cardinality(job.failed) >= job.size) /\ ~died
           cursor == IF earns THEN job.map.version ELSE index.cursor
           partial == index.partial \/ job.map.incomplete
<1>1. /\ UNCHANGED <<extracted, settles>> /\ job' = Body!NoJob
      /\ job.op = "build" /\ job.at = "pass" /\ job.todo = {}
      /\ dirty' \in {dirty, dirty \ settles} /\ vouched' = (earns /\ ~job.resumed)
      /\ index' = [index EXCEPT !.stamped = stamps, !.checkpoint = died, !.cursor = cursor, !.partial = partial]
  BY DEF Body!FinishBuild, Body!Settled
<1>2. stamps \in BOOLEAN /\ cursor \in Nat /\ partial \in BOOLEAN
  BY DEF LossInv, BodyTypeOK, TextJob, TextIndex, TextMap
<1>3. earns => job.wants /\ job.failed = {} /\ ~job.map.incomplete
  <2>1. IsFiniteSet(job.failed)
    <3>1. IsFiniteSet(Items)
      BY LibraryAssumption DEF Body!BodyAssumption, Body!IsFiniteSet, IsFiniteSet
    <3>2. job.failed \in SUBSET Items
      BY DEF LossInv, BodyTypeOK, TextJob
    <3> QED BY <3>1, <3>2, FS_Subset
  <2>2. Body!Cardinality(job.failed) = Cardinality(job.failed)
    BY DEF Body!Cardinality, Cardinality
  <2> QED BY <2>1, <2>2, FS_EmptySet
<1>4. vouched' \in BOOLEAN /\ dirty' \in SUBSET Items
  BY <1>1 DEF LossInv, BodyTypeOK
<1>5. vouched' => earns /\ ~job.resumed
  BY <1>1
<1>6. cursor = IF earns THEN job.map.version ELSE index.cursor
  OBVIOUS
<1> HIDE DEF stamps, cursor, partial, earns
<1>7. index' \in TextIndex /\ index'.held = index.held /\ index'.cursor = cursor /\ index'.forgone = index.forgone
  BY <1>1, <1>2 DEF LossInv, BodyTypeOK, TextIndex
<1>8. LossInv'
  BY <1>1, <1>4, <1>7, OverKeepsLoss
<1> QED BY <1>1, <1>3, <1>5, <1>6, <1>7, <1>8

LEMMA InterruptKeepsLoss ==
  ASSUME LossInv, Body!Interrupted
  PROVE  /\ LossInv' /\ UNCHANGED <<extracted, dirty, settles, vouched>> /\ job' = Body!NoJob
         /\ index' = index \/ (job.op = "update" /\ index' = job.saved)
<1>1. /\ UNCHANGED <<extracted, dirty, settles, vouched>> /\ job' = Body!NoJob /\ job.op \in {"build", "update"}
      /\ index' \in IF job.op = "build" THEN {index} ELSE {index, job.saved}
  BY DEF Body!Interrupted, LossInv, BodyTypeOK, TextJob
<1>2. index' = index \/ (job.op = "update" /\ index' = job.saved)
  BY <1>1
<1>3. dirty' \in SUBSET Items /\ vouched' \in BOOLEAN /\ index \in TextIndex /\ job.saved \in TextIndex
  BY <1>1 DEF LossInv, BodyTypeOK, TextJob
<1>4. LossInv'
  BY <1>1, <1>2, <1>3, OverKeepsLoss
<1> QED BY <1>1, <1>2, <1>4

LEMMA LossInvKept == LossInv /\ [Next]_vars => LossInv'
<1> SUFFICES ASSUME LossInv, [Next]_vars PROVE LossInv'
  OBVIOUS
<1>1. CASE UNCHANGED bodyVars
  BY <1>1 DEF bodyVars, LossInv, BodyTypeOK, Staged, LossOwned, Complete
<1>2. CASE Body!BodyNext
  BY <1>2, ExtractKeepsLoss, EditKeepsLoss, BuildStartKeepsLoss, UpdateStartKeepsLoss, SourceKeepsLoss, PassKeepsLoss,
     ReadKeepsLoss, RefreshKeepsLoss, ProbeKeepsLoss, PlanKeepsLoss, EndKeepsLoss, UpdateEndKeepsLoss,
     BuildEndKeepsLoss, InterruptKeepsLoss DEF Body!BodyNext
<1> QED BY <1>1, <1>2 DEF Next, vars

LEMMA LossInvHolds == Spec => []LossInv
<1> QED BY LossInvInit, LossInvKept, PTL DEF Spec

\* Text that an update took out of the index is read again (BodyText!LossMarked).
LEMMA LossMarkedHolds == Spec => Body!LossMarked
<1> DEFINE Marked ==
      job.op = "update" /\ job'.op = "none" =>
        \A a \in Atts : job.saved.held[a] > 0 /\ index'.held[a] = 0 =>
          \/ index'.partial \/ Parent[a] \in dirty'
          \/ ~job.wants /\ Parent[a] \in job.refreshed
<1>1. LossInv /\ Body!BodyNext => Marked
  <2> SUFFICES ASSUME LossInv, Body!BodyNext PROVE Marked
    OBVIOUS
  <2>1. ASSUME NEW otherGap \in BOOLEAN, NEW reconciled \in BOOLEAN, Body!FinishUpdate(otherGap, reconciled) PROVE Marked
    <3>1. /\ job.at = "end" /\ job.op = "update"
          /\ \/ index' = index /\ vouched' = vouched /\ dirty' = dirty
             \/ /\ index'.held = index.held
                /\ (index'.partial <=> (index.partial /\ ~(job.full /\ job.failed = {})) \/ job.partialWrite)
      BY <2>1, UpdateEndKeepsLoss
    <3>2. ASSUME NEW a \in Atts, job.saved.held[a] > 0, index.held[a] = 0
          PROVE  \/ Parent[a] \in job.refreshed /\ (job.partialWrite \/ ~job.wants) /\ Parent[a] \in dirty
                 \/ index.partial /\ ~job.full
      BY <3>1, <3>2 DEF LossInv, LossOwned, Staged
    <3>3. CASE index' = index /\ dirty' = dirty
      BY <3>2, <3>3
    <3>4. CASE /\ index'.held = index.held
               /\ (index'.partial <=> (index.partial /\ ~(job.full /\ job.failed = {})) \/ job.partialWrite)
      BY <3>2, <3>4
    <3> QED BY <3>1, <3>3, <3>4
  <2>2. CASE Body!Interrupted
    <3>1. /\ dirty' = dirty /\ job' = Body!NoJob
          /\ index' = index \/ index' = job.saved
      BY <2>2, InterruptKeepsLoss
    <3>2. ASSUME job.op = "update", NEW a \in Atts, job.saved.held[a] > 0, index'.held[a] = 0
          PROVE  index'.partial \/ Parent[a] \in dirty \/ (~job.wants /\ Parent[a] \in job.refreshed)
      <4>1. index' = index
        BY <3>1, <3>2
      <4> QED BY <3>2, <4>1 DEF LossInv, LossOwned, Staged
    <3> QED BY <3>1, <3>2
  <2>3. CASE \E a \in Atts : Body!Extract(a)
    BY <2>3 DEF Body!Extract
  <2>4. CASE \E i \in Items : Body!Edit(i) \/ Body!ReadBody(i) \/ Body!RefreshItem(i)
    <3>1. job'.op = job.op
      <4>1. job \in TextJob
        BY DEF LossInv, BodyTypeOK
      <4>2. ASSUME NEW i \in Items, Body!ReadBody(i) PROVE job'.op = job.op
        <5>1. \E failed \in {job.failed, job.failed \cup {i}} : job' = [job EXCEPT !.todo = @ \ {i}, !.failed = failed]
          BY <4>2, ReadKeepsLoss
        <5> QED BY <4>1, <5>1 DEF TextJob
      <4>3. ASSUME NEW i \in Items, Body!RefreshItem(i) PROVE job'.op = job.op
        <5>1. \E gap, partialWrite \in BOOLEAN :
                job' = [job EXCEPT !.todo = @ \ {i}, !.refreshed = @ \cup {i}, !.gap = gap, !.partialWrite = partialWrite]
          BY <4>3, RefreshKeepsLoss
        <5> QED BY <4>1, <5>1 DEF TextJob
      <4> QED BY <2>4, <4>2, <4>3 DEF Body!Edit
    <3> QED BY <3>1
  <2>5. CASE \/ \E again, asks \in BOOLEAN : Body!StartBuild(again, asks)
             \/ \E asks \in BOOLEAN : Body!StartUpdate(asks)
    BY <2>5 DEF Body!StartBuild, Body!StartUpdate
  <2>6. CASE Body!OpenSource \/ Body!FulltextPass \/ Body!Probe \/ Body!PlanCatchUp \/ Body!EndCatchUp
    <3>1. job \in TextJob
      BY DEF LossInv, BodyTypeOK
    <3>2. Body!OpenSource => job'.op = job.op
      BY <3>1 DEF Body!OpenSource, TextJob
    <3>3. Body!EndCatchUp => job'.op = job.op
      BY <3>1 DEF Body!EndCatchUp, TextJob
    <3>4. Body!FulltextPass \/ Body!Probe \/ Body!PlanCatchUp => job'.op # "none"
      BY PassKeepsLoss, ProbeKeepsLoss, PlanKeepsLoss
    <3> QED BY <2>6, <3>2, <3>3, <3>4
  <2>7. CASE \E died \in BOOLEAN : Body!FinishBuild(died)
    BY <2>7 DEF Body!FinishBuild
  <2> QED BY <2>1, <2>2, <2>3, <2>4, <2>5, <2>6, <2>7 DEF Body!BodyNext
<1>2. LossInv /\ [Next]_vars => [Marked]_<<extracted, edits, dirty, settles, index, vouched, job>>
  BY <1>1 DEF Next, vars, bodyVars
<1> QED BY <1>2, LossInvHolds, PTL DEF Spec, Body!LossMarked, Body!bodyVars

-----------------------------------------------------------------------------
(* The full-text cursor.                                                   *)

\* What the cursor passed is held, save what the next update will read and what one gave up.
HeldTo(held, forgone, cursor) ==
  \A a \in Atts \ forgone :
    extracted[a] \in 1..cursor /\ Parent[a] \notin dirty => held[a] = extracted[a]

Latest == Body!Newest(Atts)

CursorHeld ==
  /\ index.cursor <= Latest
  /\ vouched /\ ~index.partial => HeldTo(index.held, index.forgone, index.cursor)
  /\ job.op = "update" /\ vouched /\ ~index.partial => HeldTo(job.saved.held, job.saved.forgone, index.cursor)

\* A build's map has what was extracted by the version it is at, and the pass goes through it.
PassCovers ==
  job.op = "build" /\ job.map.open =>
    /\ job.map.version <= Latest
    /\ ~job.map.incomplete => \A a \in Atts : extracted[a] \in 1..job.map.version => a \in job.map.atts
    /\ job.at = "pass" /\ ~job.map.incomplete /\ ~job.resumed =>
         \A a \in Atts : extracted[a] \in 1..job.map.version =>
           Parent[a] \in job.todo \cup job.failed \/ index.held[a] = extracted[a]

\* The extractions an update has to answer for, so far; one not asked for full text
\* moves no cursor.
Answers(a) == IF ~job.wants THEN extracted[a] \in 1..index.cursor
              ELSE IF job.at = "delta" THEN extracted[a] > 0 ELSE extracted[a] \in 1..job.probed

\* A whole map has them, save those given up; an item refreshed over one has its text.
DeltaCovers ==
  job.op = "update" =>
    /\ job.at # "delta" => index.cursor <= job.probed /\ job.probed <= Latest
    /\ Complete => \A a \in Atts \ index.forgone : Answers(a) => a \in job.map.atts
    /\ ~job.gap /\ ~job.partialWrite =>
         \A a \in Atts \ index.forgone :
           Answers(a) /\ Parent[a] \in job.refreshed => index.held[a] = extracted[a]
    /\ settles \subseteq IF job.at = "delta" THEN job.refreshed \cup job.todo ELSE job.refreshed

\* What the probe has newly named.
Named(a) == extracted[a] > Body!From /\ extracted[a] <= job.probed

\* An update that will move the cursor goes through everything the probe named.
CatchUpCovers ==
  job.op = "update" =>
    /\ job.at = "named" => \A a \in Atts : Named(a) => a \in job.named
    /\ job.at \in {"catchup", "end"} /\ (job.full \/ (~index.partial /\ index.cursor > 0)) =>
         \A a \in Atts \ index.forgone : Named(a) =>
           Parent[a] \in job.todo \cup job.failed \cup job.refreshed \/ index.held[a] = extracted[a]
    /\ job.at = "end" /\ job.failed # {} => job.probed = index.cursor

CursorInv == LossInv /\ CursorHeld /\ PassCovers /\ DeltaCovers /\ CatchUpCovers

LEMMA CursorInvGives == CursorInv => Body!CursorHonest
BY DEF CursorInv, CursorHeld, HeldTo, Body!CursorHonest

LEMMA LatestType == LossInv => Latest \in Nat /\ \A a \in Atts : extracted[a] \in Nat /\ extracted[a] <= Latest
<1> SUFFICES ASSUME LossInv PROVE Latest \in Nat /\ \A a \in Atts : extracted[a] \in Nat /\ extracted[a] <= Latest
  OBVIOUS
<1>1. extracted \in [Atts -> Version] /\ MaxExtractions \in Nat
  BY LibraryAssumption DEF LossInv, BodyTypeOK, Body!BodyAssumption
<1> QED BY <1>1, NewestIs DEF Latest, Version

LEMMA CursorInvInit == Init => CursorInv
<1> SUFFICES ASSUME Init PROVE CursorInv
  OBVIOUS
<1>1. Body!BodyInit /\ LossInv
  BY LossInvInit DEF Init
<1>2. Latest \in Nat
  BY <1>1, LatestType
<1>3. index.cursor = 0 /\ job.op = "none" /\ ~vouched
  BY <1>1 DEF Body!BodyInit, Body!EmptyIndex, Body!NoJob
<1>4. CursorHeld
  BY <1>2, <1>3 DEF CursorHeld
<1> QED BY <1>1, <1>3, <1>4 DEF CursorInv, PassCovers, DeltaCovers, CatchUpCovers

LEMMA LatestStands == UNCHANGED extracted => Latest' = Latest
BY DEF Latest, Body!Newest

\* The types of what the numbers of a job are compared by.
LEMMA CursorTypes ==
  LossInv => /\ index.cursor \in Nat /\ job.probed \in Nat /\ job.map.version \in Nat /\ Body!From \in Nat
             /\ job.saved \in TextIndex
BY FromType DEF LossInv, BodyTypeOK, TextJob, TextIndex, TextMap

\* What is newly extracted lies past every number a job goes by.
LEMMA ExtractKeepsCursor == ASSUME CursorInv, NEW a \in Atts, Body!Extract(a) PROVE CursorInv'
<1>1. /\ LossInv' /\ UNCHANGED <<dirty, settles, vouched, job>>
      /\ extracted' = [extracted EXCEPT ![a] = Latest + 1]
      /\ index'.held = index.held /\ index'.cursor = index.cursor /\ index'.partial = index.partial
      /\ index'.forgone = IF Body!Overlooked(a) THEN index.forgone \cup {a} ELSE index.forgone \ {a}
  BY ExtractKeepsLoss DEF CursorInv, Latest
<1>2. Latest \in Nat /\ \A b \in Atts : extracted[b] \in Nat /\ extracted[b] <= Latest
  BY LatestType DEF CursorInv
<1>3. \A b \in Atts : extracted'[b] = (IF b = a THEN Latest + 1 ELSE extracted[b])
  BY <1>1 DEF CursorInv, LossInv, BodyTypeOK
<1>4. Latest' \in Nat /\ Latest < Latest'
  <2>1. extracted' \in [Atts -> Version]
    BY <1>1 DEF LossInv, BodyTypeOK
  <2>2. Latest' = Body!Max({0} \cup {extracted'[b] : b \in Atts})
    BY DEF Latest, Body!Newest
  <2>3. Latest' \in Version /\ extracted'[a] <= Latest'
    BY <2>1, <2>2, GreatestOf
  <2> QED BY <1>2, <1>3, <2>3, LibraryAssumption DEF Version, Body!BodyAssumption
<1>5. \A n \in Nat, b \in Atts : n <= Latest /\ extracted'[b] <= n => extracted'[b] = extracted[b]
  BY <1>2, <1>3
<1>6. index.cursor \in Nat /\ job.probed \in Nat /\ job.map.version \in Nat /\ Body!From \in Nat
  BY CursorTypes DEF CursorInv
<1>a. /\ \A b \in Atts : b # a => (b \in index'.forgone <=> b \in index.forgone)
      /\ Body!Overlooked(a) => a \in index'.forgone
  BY <1>1
<1> HIDE DEF Body!Overlooked
<1>7. CursorHeld'
  <2>1. index.cursor <= Latest /\ index.cursor <= Latest'
    BY <1>2, <1>4, <1>6 DEF CursorInv, CursorHeld
  <2>2. \A b \in Atts : extracted'[b] \in 1..index.cursor => b # a /\ extracted'[b] = extracted[b]
    BY <1>2, <1>3, <1>6, <2>1
  <2> QED BY <1>1, <1>a, <2>1, <2>2 DEF CursorInv, CursorHeld, HeldTo
<1>8. PassCovers'
  BY <1>1, <1>2, <1>4, <1>5, <1>6 DEF CursorInv, PassCovers
<1>9. DeltaCovers'
  <2> SUFFICES ASSUME job.op = "update" PROVE DeltaCovers'
    BY <1>1 DEF DeltaCovers
  <2>1. CASE ~job.wants
    <3>1. ~Complete /\ index.cursor <= Latest
      BY <2>1 DEF CursorInv, LossInv, Staged, Complete, CursorHeld
    <3>2. job.at # "delta" => index.cursor <= job.probed /\ job.probed <= Latest
      BY DEF CursorInv, DeltaCovers
    <3>3. \A b \in Atts : Answers(b)' => Answers(b) /\ b # a /\ extracted'[b] = extracted[b]
      BY <1>1, <1>2, <1>3, <1>6, <2>1, <3>1 DEF Answers
    <3> QED BY <1>1, <1>2, <1>4, <1>6, <1>a, <3>1, <3>2, <3>3 DEF CursorInv, DeltaCovers, Complete
  <2>2. CASE job.wants /\ job.at = "delta"
    <3>1. \A b \in Atts : b # a => (Answers(b)' <=> Answers(b)) /\ extracted'[b] = extracted[b]
      BY <1>1, <1>3, <2>2 DEF Answers
    <3>2. Complete /\ a \notin index'.forgone => a \in job.map.atts
      BY <1>a, <2>2 DEF Body!Overlooked, Complete
    <3>3. Parent[a] \in job.refreshed => a \in index'.forgone
      BY <1>a, <2>2 DEF Body!Overlooked, CursorInv, LossInv, Staged
    <3> QED BY <1>1, <1>a, <2>2, <3>1, <3>2, <3>3 DEF CursorInv, DeltaCovers, Complete
  <2>3. CASE job.wants /\ job.at # "delta"
    <3>1. job.probed <= Latest /\ index.cursor <= job.probed
      BY <2>3 DEF CursorInv, DeltaCovers
    <3>2. \A b \in Atts : Answers(b)' => Answers(b) /\ b # a /\ extracted'[b] = extracted[b]
      BY <1>1, <1>2, <1>3, <1>6, <2>3, <3>1 DEF Answers
    <3>3. job.probed <= Latest'
      BY <1>2, <1>4, <1>6, <3>1
    <3> QED BY <1>1, <1>a, <2>3, <3>1, <3>2, <3>3 DEF CursorInv, DeltaCovers, Complete
  <2> QED BY <2>1, <2>2, <2>3
<1>10. CatchUpCovers'
  <2> SUFFICES ASSUME job.op = "update", job.at # "delta" PROVE CatchUpCovers'
    BY <1>1 DEF CatchUpCovers, CursorInv, CatchUpCovers
  <2>1. job.probed <= Latest
    BY DEF CursorInv, DeltaCovers
  <2>2. \A b \in Atts : Named(b)' => Named(b) /\ b # a /\ extracted'[b] = extracted[b]
    BY <1>1, <1>2, <1>3, <1>6, <2>1 DEF Named, Body!From
  <2> QED BY <1>1, <1>a, <2>2 DEF CursorInv, CatchUpCovers
<1> QED BY <1>1, <1>7, <1>8, <1>9, <1>10 DEF CursorInv

LEMMA EditKeepsCursor == ASSUME CursorInv, NEW i \in Items, Body!Edit(i) PROVE CursorInv'
<1>1. /\ LossInv' /\ UNCHANGED <<extracted, index, vouched, job>>
      /\ dirty' = dirty \cup {i} /\ settles' = settles \ {i} /\ Latest' = Latest
  BY EditKeepsLoss, LatestStands DEF CursorInv
<1>2. CursorHeld' /\ PassCovers'
  BY <1>1 DEF CursorInv, CursorHeld, HeldTo, PassCovers
<1>3. DeltaCovers'
  BY <1>1 DEF CursorInv, DeltaCovers, Complete, Answers
<1>4. CatchUpCovers'
  BY <1>1 DEF CursorInv, CatchUpCovers, Named, Body!From
<1> QED BY <1>1, <1>2, <1>3, <1>4 DEF CursorInv

LEMMA StartsKeepCursor ==
  ASSUME CursorInv,
         \/ \E again, asks \in BOOLEAN : Body!StartBuild(again, asks)
         \/ \E asks \in BOOLEAN : Body!StartUpdate(asks)
  PROVE  CursorInv'
<1>1. Latest \in Nat /\ index.cursor \in Nat /\ index.cursor <= Latest
  BY LatestType, CursorTypes DEF CursorInv, CursorHeld
<1>2. ASSUME NEW again \in BOOLEAN, NEW asks \in BOOLEAN, Body!StartBuild(again, asks) PROVE CursorInv'
  <2>1. /\ LossInv' /\ Latest' = Latest /\ ~vouched' /\ job'.op = "build" /\ ~job'.map.open
        /\ index'.cursor \in {0, index.cursor}
    BY <1>2, BuildStartKeepsLoss, LatestStands DEF CursorInv, Body!NoMap
  <2>2. CursorHeld' /\ PassCovers' /\ DeltaCovers' /\ CatchUpCovers'
    BY <1>1, <2>1 DEF CursorHeld, PassCovers, DeltaCovers, CatchUpCovers
  <2> QED BY <2>1, <2>2 DEF CursorInv
<1>3. ASSUME NEW asks \in BOOLEAN, Body!StartUpdate(asks) PROVE CursorInv'
  <2>1. /\ LossInv' /\ UNCHANGED <<extracted, dirty, index, vouched>> /\ settles' = dirty /\ Latest' = Latest
        /\ job'.op = "update" /\ job'.at = "delta" /\ job'.todo = dirty /\ job'.refreshed = {}
        /\ job'.saved = index /\ ~job'.map.open
    BY <1>3, UpdateStartKeepsLoss, LatestStands DEF CursorInv
  <2>2. CursorHeld'
    BY <2>1 DEF CursorInv, CursorHeld, HeldTo
  <2>3. PassCovers' /\ DeltaCovers' /\ CatchUpCovers'
    BY <2>1 DEF PassCovers, DeltaCovers, CatchUpCovers, Complete
  <2> QED BY <2>1, <2>2, <2>3 DEF CursorInv
<1> QED BY <1>2, <1>3

LEMMA SourceKeepsCursor == ASSUME CursorInv, Body!OpenSource PROVE CursorInv'
<1>1. /\ LossInv' /\ UNCHANGED <<extracted, dirty, settles, index, vouched>> /\ Latest' = Latest
      /\ \E source : job' = [job EXCEPT !.map = source]
      /\ ~job.map.open /\ job.at \in {"source", "delta", "named"}
      /\ job'.map.version \in 0..Latest
      /\ Complete' => \A a \in Atts : extracted[a] > 0 => a \in job'.map.atts
  BY SourceKeepsLoss, LatestStands DEF CursorInv, Latest
<1>2. /\ job'.op = job.op /\ job'.at = job.at /\ job'.todo = job.todo /\ job'.refreshed = job.refreshed
      /\ job'.named = job.named /\ job'.probed = job.probed /\ job'.full = job.full /\ job'.saved = job.saved
      /\ job'.failed = job.failed /\ job'.gap = job.gap /\ job'.partialWrite = job.partialWrite
      /\ job'.wants = job.wants
  BY <1>1 DEF CursorInv, LossInv, BodyTypeOK, TextJob
<1>3. Latest \in Nat /\ job.probed \in Nat /\ \A a \in Atts : extracted[a] \in Nat
  BY LatestType, CursorTypes DEF CursorInv
<1>4. CursorHeld'
  BY <1>1, <1>2 DEF CursorInv, CursorHeld, HeldTo
<1>5. PassCovers'
  <2>1. \A a \in Atts : extracted[a] \in 1..job'.map.version => extracted[a] > 0
    BY <1>1, <1>3
  <2>2. job'.map.version <= Latest
    BY <1>1, <1>3
  <2>3. job'.at # "pass"
    BY <1>1, <1>2
  <2> QED BY <1>1, <2>1, <2>2, <2>3 DEF PassCovers, Complete
<1>6. DeltaCovers'
  <2>1. \A a \in Atts : Answers(a)' <=> Answers(a)
    BY <1>1, <1>2 DEF Answers
  <2>2. \A a \in Atts : Answers(a) => extracted[a] > 0
    BY <1>3, CursorTypes DEF Answers, CursorInv
  <2> QED BY <1>1, <1>2, <2>1, <2>2 DEF CursorInv, DeltaCovers
<1>7. CatchUpCovers'
  <2>1. \A a \in Atts : Named(a)' <=> Named(a)
    BY <1>1, <1>2 DEF Named, Body!From
  <2> QED BY <1>1, <1>2, <2>1 DEF CursorInv, CatchUpCovers
<1> QED BY <1>1, <1>4, <1>5, <1>6, <1>7 DEF CursorInv

LEMMA PassKeepsCursor == ASSUME CursorInv, Body!FulltextPass PROVE CursorInv'
<1>1. /\ LossInv' /\ UNCHANGED <<extracted, dirty, settles, index, vouched>> /\ Latest' = Latest
      /\ job.op = "build" /\ job'.op = "build" /\ job'.at = "pass" /\ job'.map = job.map
      /\ job'.resumed = job.resumed
      /\ ~job.resumed => \A a \in Atts : a \in job.map.atts => Parent[a] \in job'.todo
  BY PassKeepsLoss, LatestStands DEF CursorInv
<1>2. CursorHeld'
  BY <1>1 DEF CursorInv, CursorHeld, HeldTo
<1>3. PassCovers'
  BY <1>1 DEF CursorInv, PassCovers
<1> QED BY <1>1, <1>2, <1>3 DEF CursorInv, DeltaCovers, CatchUpCovers

LEMMA ReadKeepsCursor == ASSUME CursorInv, NEW i \in Items, Body!ReadBody(i) PROVE CursorInv'
<1>1. /\ LossInv' /\ UNCHANGED <<extracted, dirty, settles, vouched>> /\ Latest' = Latest
      /\ job.at \in {"pass", "catchup"} /\ i \in job.todo
      /\ \E failed \in {job.failed, job.failed \cup {i}} :
           job' = [job EXCEPT !.todo = @ \ {i}, !.failed = failed]
      /\ index'.cursor = index.cursor /\ index'.partial = index.partial
      /\ \A a \in Atts : Parent[a] # i =>
           index'.held[a] = index.held[a] /\ (a \in index'.forgone <=> a \in index.forgone)
      /\ \A a \in index.forgone \ index'.forgone : a \in job.map.atts
      /\ \A a \in Atts : Parent[a] = i /\ a \in job.map.atts =>
           index'.held[a] = extracted[a] \/ (i \in job'.failed /\ index' = index)
  BY ReadKeepsLoss, LatestStands DEF CursorInv
<1>2. /\ job'.op = job.op /\ job'.at = job.at /\ job'.map = job.map /\ job'.todo = job.todo \ {i}
      /\ job'.refreshed = job.refreshed /\ job'.named = job.named /\ job'.probed = job.probed
      /\ job'.full = job.full /\ job'.saved = job.saved /\ job'.gap = job.gap /\ job'.resumed = job.resumed
      /\ job'.partialWrite = job.partialWrite /\ job.failed \subseteq job'.failed /\ job'.wants = job.wants
  BY <1>1 DEF CursorInv, LossInv, BodyTypeOK, TextJob
<1>3. /\ index.cursor \in Nat /\ job.probed \in Nat /\ Body!From \in Nat
      /\ \A a \in Atts : extracted[a] \in Nat
  BY LatestType, CursorTypes DEF CursorInv
<1>4. job.op = "update" =>
        /\ job.at = "catchup" /\ index.cursor <= job.probed /\ i \notin job.refreshed
        /\ job.full \/ ~index.partial => Complete
        /\ Complete => \A a \in Atts \ index.forgone : extracted[a] \in 1..job.probed => a \in job.map.atts
  BY <1>1 DEF CursorInv, LossInv, Staged, DeltaCovers, Answers
<1>5. vouched => job.op = "update"
  <2>1. job.op # "none" /\ job \in TextJob
    BY <1>1 DEF CursorInv, LossInv, Staged, Body!NoJob, BodyTypeOK
  <2>2. job.op = "build" => ~vouched
    BY DEF CursorInv, LossInv, Staged
  <2> QED BY <2>1, <2>2 DEF TextJob
<1>6. CursorHeld'
  <2>1. ASSUME vouched, ~index.partial, NEW a \in Atts \ index'.forgone, extracted[a] \in 1..index.cursor,
               Parent[a] \notin dirty
        PROVE  index'.held[a] = extracted[a]
    <3>1. a \notin index.forgone => index.held[a] = extracted[a]
      BY <2>1 DEF CursorInv, CursorHeld, HeldTo
    <3>2. a \in job.map.atts
      BY <1>1, <1>3, <1>4, <1>5, <2>1
    <3>3. Parent[a] # i => a \notin index.forgone
      BY <1>1, <2>1
    <3> QED BY <1>1, <2>1, <3>1, <3>2, <3>3
  <2> QED BY <1>1, <1>2, <2>1 DEF CursorInv, CursorHeld, HeldTo
<1>7. PassCovers'
  <2> SUFFICES ASSUME job.op = "build", job.map.open, job.at = "pass", ~job.map.incomplete, ~job.resumed,
                      NEW a \in Atts, extracted[a] \in 1..job.map.version
               PROVE  Parent[a] \in (job.todo \ {i}) \cup job'.failed \/ index'.held[a] = extracted[a]
    BY <1>1, <1>2 DEF CursorInv, PassCovers
  <2>1. a \in job.map.atts /\ (Parent[a] \in job.todo \cup job.failed \/ index.held[a] = extracted[a])
    BY DEF CursorInv, PassCovers
  <2> QED BY <1>1, <1>2, <2>1
<1>8. DeltaCovers'
  <2>1. \A a \in Atts : Answers(a)' <=> Answers(a)
    BY <1>1, <1>2 DEF Answers
  <2>2. ASSUME job.op = "update", NEW a \in Atts, Parent[a] \in job.refreshed PROVE index'.held[a] = index.held[a]
    BY <1>1, <1>4, <2>2
  <2> QED BY <1>1, <1>2, <2>1, <2>2 DEF CursorInv, DeltaCovers, Complete
<1>9. CatchUpCovers'
  <2>1. \A a \in Atts : Named(a)' <=> Named(a)
    BY <1>1, <1>2 DEF Named, Body!From
  <2>2. ASSUME job.op = "update", job.full \/ (~index.partial /\ index.cursor > 0),
               NEW a \in Atts \ index'.forgone, Named(a)
        PROVE  Parent[a] \in (job.todo \ {i}) \cup job'.failed \cup job.refreshed \/ index'.held[a] = extracted[a]
    <3>1. a \notin index.forgone =>
            Parent[a] \in job.todo \cup job.failed \cup job.refreshed \/ index.held[a] = extracted[a]
      BY <1>4, <2>2 DEF CursorInv, CatchUpCovers
    <3>2. a \in job.map.atts
      BY <1>1, <1>3, <1>4, <2>2 DEF Named
    <3>3. Parent[a] # i => a \notin index.forgone
      BY <1>1, <2>2
    <3>4. i \in job'.failed => Parent[a] # i \/ Parent[a] \in job'.failed
      OBVIOUS
    <3> QED BY <1>1, <1>2, <2>2, <3>1, <3>2, <3>3, <3>4
  <2> QED BY <1>1, <1>2, <1>4, <2>1, <2>2 DEF CatchUpCovers
<1> QED BY <1>1, <1>6, <1>7, <1>8, <1>9 DEF CursorInv

LEMMA RefreshKeepsCursor == ASSUME CursorInv, NEW i \in Items, Body!RefreshItem(i) PROVE CursorInv'
<1>1. /\ LossInv' /\ UNCHANGED <<extracted, dirty, settles, vouched>> /\ Latest' = Latest
      /\ job.op = "update" /\ job.at = "delta" /\ i \in job.todo
      /\ \E gap, partialWrite \in BOOLEAN :
           /\ job' = [job EXCEPT !.todo = @ \ {i}, !.refreshed = @ \cup {i}, !.gap = gap, !.partialWrite = partialWrite]
           /\ ~gap => ~job.gap
           /\ ~partialWrite => ~job.partialWrite
           /\ ~gap /\ ~partialWrite /\ job.wants =>
                /\ Complete
                /\ \A a \in Atts : Parent[a] = i /\ a \in job.map.atts => index'.held[a] = extracted[a]
      /\ index'.cursor = index.cursor /\ index'.partial = index.partial
      /\ \A a \in Atts : Parent[a] # i =>
           index'.held[a] = index.held[a] /\ (a \in index'.forgone <=> a \in index.forgone)
      /\ \A a \in index.forgone \ index'.forgone : a \in job.map.atts
      /\ ~job.wants => \A a \in Atts : Parent[a] = i => a \in index'.forgone
  BY RefreshKeepsLoss, LatestStands DEF CursorInv
<1>2. /\ job'.op = job.op /\ job'.at = job.at /\ job'.map = job.map /\ job'.todo = job.todo \ {i}
      /\ job'.refreshed = job.refreshed \cup {i} /\ job'.probed = job.probed
      /\ job'.full = job.full /\ job'.saved = job.saved /\ job'.wants = job.wants
  BY <1>1 DEF CursorInv, LossInv, BodyTypeOK, TextJob
<1>3. ~job'.gap /\ ~job'.partialWrite =>
        /\ ~job.gap /\ ~job.partialWrite
        /\ job.wants =>
             /\ Complete
             /\ \A a \in Atts : Parent[a] = i /\ a \in job.map.atts => index'.held[a] = extracted[a]
  <2>1. PICK gap, partialWrite \in BOOLEAN :
           /\ job' = [job EXCEPT !.todo = @ \ {i}, !.refreshed = @ \cup {i}, !.gap = gap, !.partialWrite = partialWrite]
           /\ ~gap => ~job.gap
           /\ ~partialWrite => ~job.partialWrite
           /\ ~gap /\ ~partialWrite /\ job.wants =>
                /\ Complete
                /\ \A a \in Atts : Parent[a] = i /\ a \in job.map.atts => index'.held[a] = extracted[a]
    BY <1>1
  <2>2. job'.gap = gap /\ job'.partialWrite = partialWrite
    BY <2>1 DEF CursorInv, LossInv, BodyTypeOK, TextJob
  <2> QED BY <2>1, <2>2
<1>4. i \in dirty
  BY <1>1 DEF CursorInv, LossInv, Staged
<1>5. CursorHeld'
  BY <1>1, <1>2, <1>4 DEF CursorInv, CursorHeld, HeldTo
<1>6. DeltaCovers'
  <2>1. \A a \in Atts : Answers(a)' <=> Answers(a)
    BY <1>1, <1>2 DEF Answers
  <2>2. ASSUME ~job'.gap, ~job'.partialWrite, NEW a \in Atts \ index'.forgone, Answers(a),
               Parent[a] \in job.refreshed \cup {i}
        PROVE  index'.held[a] = extracted[a]
    <3>1. CASE Parent[a] # i
      <4>1. a \notin index.forgone /\ Parent[a] \in job.refreshed
        BY <1>1, <2>2, <3>1
      <4> QED BY <1>1, <1>3, <2>2, <3>1, <4>1 DEF CursorInv, DeltaCovers
    <3>2. CASE Parent[a] = i
      <4>1. job.wants /\ Complete
        BY <1>1, <1>3, <2>2, <3>2
      <4>2. a \in job.map.atts
        BY <1>1, <2>2, <4>1 DEF CursorInv, DeltaCovers
      <4> QED BY <1>3, <2>2, <3>2, <4>1, <4>2
    <3> QED BY <3>1, <3>2
  <2>4. Complete => \A a \in Atts \ index'.forgone : Answers(a) => a \in job.map.atts
    BY <1>1 DEF CursorInv, DeltaCovers
  <2>3. settles \subseteq (job.refreshed \cup {i}) \cup (job.todo \ {i})
    BY <1>1 DEF CursorInv, DeltaCovers
  <2> QED BY <1>1, <1>2, <2>1, <2>2, <2>3, <2>4 DEF DeltaCovers, Complete
<1>7. PassCovers' /\ CatchUpCovers'
  BY <1>1, <1>2 DEF PassCovers, CatchUpCovers
<1> QED BY <1>1, <1>5, <1>6, <1>7 DEF CursorInv

LEMMA ProbeKeepsCursor == ASSUME CursorInv, Body!Probe PROVE CursorInv'
<1>1. /\ LossInv' /\ UNCHANGED <<extracted, dirty, settles, index, vouched>> /\ Latest' = Latest
      /\ job.op = "update" /\ job.at = "delta" /\ job.todo = {} /\ job'.op = "update" /\ job'.map = job.map
      /\ job'.todo = {} /\ job'.refreshed = job.refreshed /\ job'.saved = job.saved /\ job'.failed = {} /\ ~job'.full
      /\ (job'.gap <=> job.gap) /\ (job'.partialWrite <=> job.partialWrite)
      /\ \/ job'.at = "end" /\ job'.probed = index.cursor
         \/ /\ job'.at = "named" /\ job'.named = {a \in Atts : extracted[a] > Body!From}
            /\ index.cursor <= job'.probed
            /\ job'.probed = index.cursor \/ job'.probed <= Latest
      /\ job'.wants = job.wants
  BY ProbeKeepsLoss, LatestStands DEF CursorInv, Latest
<1>2. index.cursor \in Nat /\ Body!From \in Nat /\ index.cursor <= Latest /\ \A a \in Atts : extracted[a] \in Nat
  BY LatestType, CursorTypes DEF CursorInv, CursorHeld
<1>3. CursorHeld'
  BY <1>1 DEF CursorInv, CursorHeld, HeldTo
<1>4. DeltaCovers'
  <2>1. \A a \in Atts : Answers(a)' => Answers(a)
    BY <1>1, <1>2 DEF Answers
  <2>2. index.cursor <= job'.probed /\ job'.probed <= Latest /\ job'.at # "delta"
    BY <1>1, <1>2
  <2>3. settles \subseteq job.refreshed
    BY <1>1 DEF CursorInv, DeltaCovers
  <2>4. ~job.gap /\ ~job.partialWrite =>
          \A a \in Atts \ index.forgone : Answers(a) /\ Parent[a] \in job.refreshed => index.held[a] = extracted[a]
    BY <1>1 DEF CursorInv, DeltaCovers
  <2>5. Complete => \A a \in Atts \ index.forgone : Answers(a) => a \in job.map.atts
    BY <1>1 DEF CursorInv, DeltaCovers
  <2> QED BY <1>1, <2>1, <2>2, <2>3, <2>4, <2>5 DEF DeltaCovers, Complete
<1>5. CatchUpCovers'
  <2>1. job'.at = "named" => \A a \in Atts : Named(a)' => a \in job'.named
    BY <1>1 DEF Named, Body!From
  <2>2. ASSUME job'.at = "end", ~index.partial, index.cursor > 0, NEW a \in Atts PROVE ~Named(a)'
    BY <1>1, <1>2, <2>2 DEF Named, Body!From
  <2> QED BY <1>1, <2>1, <2>2 DEF CatchUpCovers
<1>6. PassCovers'
  BY <1>1 DEF PassCovers
<1> QED BY <1>1, <1>3, <1>4, <1>5, <1>6 DEF CursorInv

LEMMA PlanKeepsCursor == ASSUME CursorInv, Body!PlanCatchUp PROVE CursorInv'
<1>1. /\ LossInv' /\ UNCHANGED <<extracted, dirty, settles, index, vouched>> /\ Latest' = Latest
      /\ job.op = "update" /\ job.at = "named" /\ job'.op = "update" /\ job'.map = job.map
      /\ job'.refreshed = job.refreshed /\ job'.saved = job.saved /\ job'.failed = {}
      /\ (job'.gap <=> job.gap) /\ (job'.partialWrite <=> job.partialWrite)
      /\ \/ job'.at = "end" /\ job'.probed = index.cursor /\ ~job'.full
         \/ /\ job'.at = "catchup" /\ job'.probed = job.probed
            /\ (job'.full \/ (~index.partial /\ index.cursor > 0)) =>
                 /\ job.named # {} => Complete
                 /\ \A a \in job.named : a \in job.map.atts => Parent[a] \in job'.todo \cup job.refreshed
      /\ job.wants /\ job'.wants
  BY PlanKeepsLoss, LatestStands DEF CursorInv
<1>2. /\ index.cursor \in Nat /\ job.probed \in Nat /\ Body!From \in Nat /\ Latest \in Nat
      /\ \A a \in Atts : extracted[a] \in Nat
  BY LatestType, CursorTypes DEF CursorInv
<1>3. index.cursor <= job.probed /\ job.probed <= Latest
  BY <1>1 DEF CursorInv, DeltaCovers
<1>4. CursorHeld'
  BY <1>1 DEF CursorInv, CursorHeld, HeldTo
<1>5. DeltaCovers'
  <2>1. \A a \in Atts : Answers(a)' => Answers(a)
    BY <1>1, <1>2, <1>3 DEF Answers
  <2>2. index.cursor <= job'.probed /\ job'.probed <= Latest /\ job'.at # "delta"
    BY <1>1, <1>2, <1>3
  <2> QED BY <1>1, <2>1, <2>2 DEF CursorInv, DeltaCovers, Complete
<1>6. CatchUpCovers'
  <2>1. ASSUME job'.at = "end", ~index.partial, index.cursor > 0, NEW a \in Atts PROVE ~Named(a)'
    BY <1>1, <1>2, <2>1 DEF Named, Body!From
  <2>2. ASSUME job'.at = "catchup", job'.full \/ (~index.partial /\ index.cursor > 0),
               NEW a \in Atts \ index.forgone, Named(a)'
        PROVE  Parent[a] \in job'.todo \cup job.refreshed
    <3>1. Named(a)
      BY <1>1, <2>2 DEF Named, Body!From
    <3>2. a \in job.named
      BY <1>1, <3>1 DEF CursorInv, CatchUpCovers
    <3>3. Answers(a)
      BY <1>1, <1>2, <3>1 DEF Named, Answers
    <3>4. a \in job.map.atts
      BY <1>1, <2>2, <3>2, <3>3 DEF CursorInv, DeltaCovers
    <3> QED BY <1>1, <2>2, <3>2, <3>4
  <2> QED BY <1>1, <2>1, <2>2 DEF CatchUpCovers
<1>7. PassCovers'
  BY <1>1 DEF PassCovers
<1> QED BY <1>1, <1>4, <1>5, <1>6, <1>7 DEF CursorInv

LEMMA EndKeepsCursor == ASSUME CursorInv, Body!EndCatchUp PROVE CursorInv'
<1>1. /\ LossInv' /\ UNCHANGED <<extracted, dirty, settles, index, vouched>> /\ Latest' = Latest
      /\ job.op = "update" /\ job.at = "catchup" /\ job.todo = {} /\ job'.at = "end"
      /\ \E probed \in {index.cursor, job.probed} :
           /\ job' = [job EXCEPT !.at = "end", !.probed = probed]
           /\ job.failed # {} => probed = index.cursor
  BY EndKeepsLoss, LatestStands DEF CursorInv
<1>2. /\ job'.op = job.op /\ job'.map = job.map /\ job'.todo = job.todo /\ job'.refreshed = job.refreshed
      /\ job'.full = job.full /\ job'.saved = job.saved /\ job'.failed = job.failed
      /\ job'.gap = job.gap /\ job'.partialWrite = job.partialWrite /\ job'.wants = job.wants
      /\ job'.probed \in {index.cursor, job.probed} /\ (job.failed # {} => job'.probed = index.cursor)
  BY <1>1 DEF CursorInv, LossInv, BodyTypeOK, TextJob
<1>3. /\ index.cursor \in Nat /\ job.probed \in Nat /\ Body!From \in Nat /\ Latest \in Nat
      /\ \A a \in Atts : extracted[a] \in Nat
  BY LatestType, CursorTypes DEF CursorInv
<1>4. index.cursor <= job.probed /\ job.probed <= Latest
  BY <1>1 DEF CursorInv, DeltaCovers
<1>5. CursorHeld'
  BY <1>1, <1>2 DEF CursorInv, CursorHeld, HeldTo
<1>6. DeltaCovers'
  <2>1. \A a \in Atts : Answers(a)' => Answers(a)
    BY <1>1, <1>2, <1>3, <1>4 DEF Answers
  <2>2. index.cursor <= job'.probed /\ job'.probed <= Latest
    BY <1>2, <1>3, <1>4
  <2> QED BY <1>1, <1>2, <2>1, <2>2 DEF CursorInv, DeltaCovers, Complete
<1>7. CatchUpCovers'
  <2>1. \A a \in Atts : Named(a)' => Named(a)
    BY <1>1, <1>2, <1>3, <1>4 DEF Named, Body!From
  <2> QED BY <1>1, <1>2, <2>1 DEF CursorInv, CatchUpCovers
<1>8. PassCovers'
  BY <1>1, <1>2 DEF PassCovers
<1> QED BY <1>1, <1>5, <1>6, <1>7, <1>8 DEF CursorInv

\* The cursor that an update earns.
LEMMA UpdateEndKeepsCursor ==
  ASSUME CursorInv, NEW otherGap \in BOOLEAN, NEW reconciled \in BOOLEAN, Body!FinishUpdate(otherGap, reconciled)
  PROVE  CursorInv'
<1>1. /\ LossInv' /\ UNCHANGED <<extracted, settles>> /\ Latest' = Latest
      /\ job.op = "update" /\ job.at = "end" /\ job' = Body!NoJob
      /\ dirty' = dirty \/ (~job.gap /\ dirty' = dirty \ settles)
      /\ \/ index' = index /\ vouched' = vouched /\ dirty' = dirty
         \/ /\ index'.held = index.held /\ index'.cursor = job.probed /\ index'.forgone = index.forgone
            /\ (index'.partial <=> (index.partial /\ ~(job.full /\ job.failed = {})) \/ job.partialWrite)
            /\ vouched' => (job.full /\ job.failed = {}) \/ (vouched /\ (Body!From > 0 \/ ~(job.probed > index.cursor)))
  BY UpdateEndKeepsLoss, LatestStands DEF CursorInv
<1>2. /\ index.cursor \in Nat /\ job.probed \in Nat /\ Body!From \in Nat
      /\ \A a \in Atts : extracted[a] \in Nat
      /\ job.probed <= Latest /\ job.todo = {} /\ job.refreshed \subseteq dirty /\ settles \subseteq job.refreshed
      /\ job.full => index.partial
      /\ ~job.wants => job.probed = index.cursor
  BY <1>1, LatestType, CursorTypes DEF CursorInv, DeltaCovers, LossInv, Staged
<1>3. CASE index' = index /\ vouched' = vouched /\ dirty' = dirty
  BY <1>1, <1>3 DEF CursorInv, CursorHeld, HeldTo, PassCovers, DeltaCovers, CatchUpCovers, Body!NoJob
<1>4. CASE /\ index'.held = index.held /\ index'.cursor = job.probed /\ index'.forgone = index.forgone
           /\ (index'.partial <=> (index.partial /\ ~(job.full /\ job.failed = {})) \/ job.partialWrite)
           /\ vouched' => (job.full /\ job.failed = {}) \/ (vouched /\ (Body!From > 0 \/ ~(job.probed > index.cursor)))
  <2>1. ASSUME vouched', ~index'.partial, NEW a \in Atts \ index.forgone, extracted[a] \in 1..job.probed,
               Parent[a] \notin dirty'
        PROVE  index.held[a] = extracted[a]
    <3>1. ~job.partialWrite /\ (~index.partial \/ (job.full /\ job.failed = {}))
      BY <1>4, <2>1
    <3>2. CASE Parent[a] \in dirty
      <4>1. ~job.gap /\ Parent[a] \in job.refreshed
        BY <1>1, <1>2, <2>1, <3>2
      <4>2. Answers(a)
        BY <1>1, <1>2, <2>1 DEF Answers
      <4> QED BY <1>1, <2>1, <3>1, <4>1, <4>2 DEF CursorInv, DeltaCovers
    <3>3. CASE Parent[a] \notin dirty /\ job.full /\ job.failed = {}
      <4>1. Named(a)
        BY <1>2, <2>1, <3>3 DEF Named, Body!From
      <4> QED BY <1>1, <1>2, <2>1, <3>3, <4>1 DEF CursorInv, CatchUpCovers
    <3>4. CASE Parent[a] \notin dirty /\ ~(job.full /\ job.failed = {})
      <4>1. ~index.partial /\ vouched /\ (Body!From > 0 \/ ~(job.probed > index.cursor))
        BY <1>4, <2>1, <3>1, <3>4
      <4>2. CASE extracted[a] <= index.cursor
        BY <1>2, <2>1, <3>4, <4>1, <4>2 DEF CursorInv, CursorHeld, HeldTo
      <4>3. CASE extracted[a] > index.cursor
        <5>1. index.cursor > 0 /\ Named(a) /\ job.probed # index.cursor
          BY <1>2, <2>1, <4>1, <4>3 DEF Named, Body!From
        <5>2. job.failed = {}
          BY <1>1, <5>1 DEF CursorInv, CatchUpCovers
        <5> QED BY <1>1, <1>2, <2>1, <3>4, <4>1, <5>1, <5>2 DEF CursorInv, CatchUpCovers
      <4> QED BY <1>2, <4>2, <4>3
    <3> QED BY <3>2, <3>3, <3>4
  <2>2. CursorHeld'
    BY <1>1, <1>2, <1>4, <2>1 DEF CursorHeld, HeldTo, Body!NoJob
  <2> QED BY <1>1, <2>2 DEF CursorInv, PassCovers, DeltaCovers, CatchUpCovers, Body!NoJob
<1> QED BY <1>1, <1>3, <1>4

LEMMA BuildEndKeepsCursor == ASSUME CursorInv, NEW died \in BOOLEAN, Body!FinishBuild(died) PROVE CursorInv'
<1>1. /\ LossInv' /\ UNCHANGED <<extracted, settles>> /\ job' = Body!NoJob /\ Latest' = Latest
      /\ job.op = "build" /\ job.at = "pass" /\ job.todo = {} /\ index'.held = index.held
      /\ \/ job.wants /\ job.failed = {} /\ ~job.map.incomplete /\ index'.cursor = job.map.version /\ (vouched' => ~job.resumed)
         \/ index'.cursor = index.cursor /\ ~vouched'
  BY BuildEndKeepsLoss, LatestStands DEF CursorInv
<1>2. job.wants => job.map.open
  BY <1>1 DEF CursorInv, LossInv, Staged
<1>3. CursorHeld'
  BY <1>1, <1>2 DEF CursorInv, CursorHeld, HeldTo, PassCovers, Body!NoJob
<1> QED BY <1>1, <1>3 DEF CursorInv, PassCovers, DeltaCovers, CatchUpCovers, Body!NoJob

LEMMA InterruptKeepsCursor == ASSUME CursorInv, Body!Interrupted PROVE CursorInv'
<1>1. /\ LossInv' /\ UNCHANGED <<extracted, dirty, settles, vouched>> /\ job' = Body!NoJob /\ Latest' = Latest
      /\ index' = index \/ (job.op = "update" /\ index' = job.saved)
  BY InterruptKeepsLoss, LatestStands DEF CursorInv
<1>2. job.op = "update" => job.saved.cursor = index.cursor /\ job.saved.partial = index.partial
  BY DEF CursorInv, LossInv, Staged
<1>3. CursorHeld'
  BY <1>1, <1>2 DEF CursorInv, CursorHeld, HeldTo, Body!NoJob
<1> QED BY <1>1, <1>3 DEF CursorInv, PassCovers, DeltaCovers, CatchUpCovers, Body!NoJob

LEMMA CursorInvKept == CursorInv /\ [Next]_vars => CursorInv'
<1> SUFFICES ASSUME CursorInv, [Next]_vars PROVE CursorInv'
  OBVIOUS
<1>1. CASE UNCHANGED bodyVars
  <2>1. UNCHANGED <<extracted, dirty, settles, index, vouched, job>> /\ Latest' = Latest
    BY <1>1, LatestStands DEF bodyVars
  <2>2. LossInv'
    BY LossInvKept DEF CursorInv
  <2>3. CursorHeld' /\ PassCovers' /\ DeltaCovers' /\ CatchUpCovers'
    BY <2>1 DEF CursorInv, CursorHeld, HeldTo, PassCovers, DeltaCovers, CatchUpCovers, Answers, Named, Complete, Body!From
  <2> QED BY <2>2, <2>3 DEF CursorInv
<1>2. CASE Body!BodyNext
  BY <1>2, ExtractKeepsCursor, EditKeepsCursor, StartsKeepCursor, SourceKeepsCursor, PassKeepsCursor, ReadKeepsCursor,
     RefreshKeepsCursor, ProbeKeepsCursor, PlanKeepsCursor, EndKeepsCursor, UpdateEndKeepsCursor, BuildEndKeepsCursor,
     InterruptKeepsCursor DEF Body!BodyNext
<1> QED BY <1>1, <1>2 DEF Next, vars

LEMMA CursorInvHolds == Spec => []CursorInv
<1> QED BY CursorInvInit, CursorInvKept, PTL DEF Spec

\* What the cursor and the stamp have passed is in the index, save what an update gave
\* up, however jobs are interrupted, whatever lookups fail and whatever is extracted,
\* edited or moved while one runs (index-manager.ts:1756, :2379, :2750).
THEOREM CatchUpsHonestHolds == Spec => []CatchUpsHonest
<1>1. CursorInv /\ WordsInv => CatchUpsHonest
  BY CursorInvGives, WordsInvGives DEF CatchUpsHonest
<1> QED BY <1>1, CursorInvHolds, WordsInvHolds, PTL

\* No update loses body text it neither marks nor, not asked for full text, takes out with
\* an item the library changed, nor takes out a note that is still there
\* (index-manager.ts:2093, :2041, :2822).
THEOREM CatchUpsKeepHolds == Spec => CatchUpsKeep
BY LossMarkedHolds, NoteStaysHolds DEF CatchUpsKeep

-----------------------------------------------------------------------------
(* Merging duplicates.                                                     *)

Records == Merge!Merged
Record == [tags : SUBSET (Tags \cup {t1}), abstract : Abstracts \cup {None, a1}, live : BOOLEAN]
Readings == UNION {[some -> Record] : some \in SUBSET Records}
Listings == UNION {[some -> Dups] : some \in SUBSET Kids}
Expected == [is : {"none", "preview", "approved"}, dups : SUBSET Dups, children : Listings]
MergeStage == {"master", "duplicates", "children", "second opinion", "plan", "patch", "reread", "repatch",
               "move", "conflict", "move again", "trash", "emptied", "done"}
MergeJob == [at : MergeStage, expect : Expected, todo : SUBSET (Dups \cup Kids), on : Dups \cup Kids \cup {None},
             read : Readings, children : Listings, unsafe : SUBSET Dups, wrote : Record \cup {None}]

MergeTypeOK ==
  /\ item \in [Records -> Record] /\ parent \in [Kids -> Records \cup {None, d1, d2}]
  /\ merge \in MergeJob /\ userEdits \in Nat

MovingStage == {"move", "conflict", "move again"}
TrashingStage == {"trash", "emptied"}
ApprovedStage == {"patch", "reread", "repatch"} \cup MovingStage \cup TrashingStage

\* What stands at the version it was read at is as it was read.
FreshIsRead ==
  /\ \A i \in fresh : i \in DOMAIN merge.read => merge.read[i] = item[i]
  /\ \A k \in fresh : k \in DOMAIN merge.children => parent[k] = merge.children[k]

\* What a stage goes through, of what was read and listed before it.
InLoop ==
  /\ merge.at \notin {"master", "done"} => Master \in DOMAIN merge.read
  /\ merge.at \in MovingStage => merge.todo \subseteq DOMAIN merge.children
  /\ merge.at \in TrashingStage => merge.todo \subseteq DOMAIN merge.read \ {Master}
  /\ merge.at \in {"conflict", "move again", "emptied"} => merge.on \in merge.todo

\* The master, as it was written, has what was read of every duplicate.
Absorbed ==
  merge.at \in MovingStage \cup TrashingStage =>
    \A d \in DOMAIN merge.read \ {Master} :
      /\ merge.read[d].tags \subseteq merge.wrote.tags
      /\ merge.read[d].abstract # None => merge.wrote.abstract # None

\* While nothing is written since the listing, what it found empty is empty.
StillEmpty == merge.at = "emptied" /\ quiet => Merge!KidsOf(merge.on) = {}

\* What the preview showed and the merge has not seen change has not changed.
AsApproved ==
  merge.at \in ApprovedStage /\ merge.expect.is = "approved" =>
    /\ \A d \in merge.expect.dups : d \in fresh => d \in previewed
    /\ DOMAIN merge.children = DOMAIN merge.expect.children

MergeInv == MergeTypeOK /\ FreshIsRead /\ InLoop /\ Absorbed /\ StillEmpty /\ AsApproved

LEMMA Apart == Master \notin Dups /\ Kids \cap Records = {} /\ Records = Dups \cup {Master}
BY LibraryAssumption DEF Merge!MergeAssumption, Records, Merge!Merged

\* What was read of some records, or listed of some children.
LEMMA PartialIs ==
  ASSUME NEW S, NEW T, NEW f \in UNION {[some -> T] : some \in SUBSET S}
  PROVE  DOMAIN f \subseteq S /\ \A x \in DOMAIN f : f[x] \in T
OBVIOUS

LEMMA PartialFrom ==
  ASSUME NEW S, NEW T, NEW some \in SUBSET S, NEW f \in [some -> T]
  PROVE  f \in UNION {[any -> T] : any \in SUBSET S}
OBVIOUS

LEMMA NothingRead == \A T : <<>> \in [{} -> T] /\ DOMAIN <<>> = {}
OBVIOUS

LEMMA ReadIs ==
  ASSUME NEW m \in MergeJob
  PROVE  /\ DOMAIN m.read \subseteq Records /\ \A i \in DOMAIN m.read : m.read[i] \in Record
         /\ DOMAIN m.children \subseteq Kids /\ \A k \in DOMAIN m.children : m.children[k] \in Dups
         /\ DOMAIN m.read \ {Master} \subseteq Dups
<1>1. m.read \in Readings /\ m.children \in Listings
  BY DEF MergeJob
<1>2. DOMAIN m.read \subseteq Records /\ \A i \in DOMAIN m.read : m.read[i] \in Record
  BY <1>1, PartialIs DEF Readings
<1>3. DOMAIN m.children \subseteq Kids /\ \A k \in DOMAIN m.children : m.children[k] \in Dups
  BY <1>1, PartialIs DEF Listings
<1> QED BY <1>2, <1>3, Apart

\* g is f with the value v at x.
Extends(f, x, v, g) ==
  g \in Readings /\ DOMAIN g = DOMAIN f \cup {x} /\ g[x] = v /\ \A y \in DOMAIN f \ {x} : g[y] = f[y]

LEMMA WithIs ==
  ASSUME NEW f \in Readings, NEW x \in Records, NEW v \in Record
  PROVE  Extends(f, x, v, Merge!With(f, x, v))
<1> DEFINE g == [y \in DOMAIN f \cup {x} |-> IF y = x THEN v ELSE f[y]]
<1>1. DOMAIN f \subseteq Records /\ \A y \in DOMAIN f : f[y] \in Record
  BY PartialIs DEF Readings
<1>2. g \in [DOMAIN f \cup {x} -> Record] /\ DOMAIN f \cup {x} \in SUBSET Records
  BY <1>1
<1>3. g \in Readings
  BY <1>2, PartialFrom DEF Readings
<1>4. Merge!With(f, x, v) = g
  BY DEF Merge!With
<1> QED BY <1>3, <1>4 DEF Extends

\* What a stage of the merge leaves as it is.
Same(m, n) == n.expect = m.expect /\ n.read = m.read /\ n.children = m.children /\ n.wrote = m.wrote

\* The loop goes on without d, or the next stage begins.
Went(m, d, stage, todo, n) ==
  /\ n \in MergeJob /\ Same(m, n) /\ n.on = m.on
  /\ \/ n.at = stage /\ n.todo = todo
     \/ n.at = m.at /\ n.todo = m.todo \ {d}

LEMMA GoesIs ==
  ASSUME NEW m \in MergeJob, NEW d, NEW stage \in MergeStage, NEW todo \in SUBSET (Dups \cup Kids)
  PROVE  Went(m, d, stage, todo, Merge!Goes(m, d, stage, todo))
<1>1. CASE m.todo = {d}
  <2>1. Merge!Goes(m, d, stage, todo) = [m EXCEPT !.at = stage, !.todo = todo]
    BY <1>1 DEF Merge!Goes
  <2> QED BY <2>1 DEF MergeJob, Same, Went
<1>2. CASE m.todo # {d}
  <2>1. Merge!Goes(m, d, stage, todo) = [m EXCEPT !.todo = @ \ {d}]
    BY <1>2 DEF Merge!Goes
  <2> QED BY <2>1 DEF MergeJob, Same, Went
<1> QED BY <1>1, <1>2

\* The duplicates that can go were read, and none is the master.
ToTrash(m, n) == n.at \in {"done", "trash"} /\ n.todo \subseteq DOMAIN m.read \ {Master}

LEMMA TrashingIs ==
  ASSUME NEW m \in MergeJob
  PROVE  Merge!Trashing(m) \in MergeJob /\ Same(m, Merge!Trashing(m)) /\ ToTrash(m, Merge!Trashing(m))
<1> DEFINE going == (DOMAIN m.read \ {Master}) \ m.unsafe
           stage == IF going = {} THEN "done" ELSE "trash"
<1>1. Merge!Trashing(m) = [m EXCEPT !.at = stage, !.todo = going, !.on = None]
  BY DEF Merge!Trashing
<1>2. going \subseteq DOMAIN m.read \ {Master} /\ going \subseteq Dups /\ stage \in {"done", "trash"}
  BY ReadIs
<1> HIDE DEF going, stage
<1>3. stage \in MergeStage /\ going \in SUBSET (Dups \cup Kids)
  BY <1>2 DEF MergeStage
<1>4. /\ Merge!Trashing(m) \in MergeJob
      /\ Merge!Trashing(m).at = stage /\ Merge!Trashing(m).todo = going
  BY <1>1, <1>3 DEF MergeJob
<1>5. Same(m, Merge!Trashing(m))
  BY <1>1 DEF MergeJob, Same
<1>6. Merge!Trashing(m).at \in {"done", "trash"}
  BY <1>2, <1>4
<1> QED BY <1>2, <1>4, <1>5, <1>6 DEF ToTrash

LEMMA MovingIs ==
  ASSUME NEW m \in MergeJob
  PROVE  /\ Merge!Moving(m) \in MergeJob /\ Same(m, Merge!Moving(m))
         /\ \/ ToTrash(m, Merge!Moving(m))
            \/ Merge!Moving(m).at = "move" /\ Merge!Moving(m).todo = DOMAIN m.children
<1>1. CASE DOMAIN m.children = {}
  <2>1. Merge!Moving(m) = Merge!Trashing(m)
    BY <1>1 DEF Merge!Moving
  <2> QED BY <2>1, TrashingIs
<1>2. CASE DOMAIN m.children # {}
  <2> DEFINE todo == DOMAIN m.children
  <2>1. Merge!Moving(m) = [m EXCEPT !.at = "move", !.todo = todo]
    BY <1>2 DEF Merge!Moving
  <2>2. todo \subseteq Kids
    BY ReadIs
  <2> HIDE DEF todo
  <2>4. "move" \in MergeStage /\ todo \in SUBSET (Dups \cup Kids)
    BY <2>2 DEF MergeStage
  <2>3. /\ Merge!Moving(m) \in MergeJob /\ Same(m, Merge!Moving(m))
        /\ Merge!Moving(m).at = "move" /\ Merge!Moving(m).todo = todo
    BY <2>1, <2>4 DEF MergeJob, Same
  <2> QED BY <2>3 DEF todo
<1> QED BY <1>1, <1>2

LEMMA DoneIs ==
  ASSUME NEW m \in MergeJob, NEW k
  PROVE  /\ Merge!Done(m, k) \in MergeJob /\ Same(m, Merge!Done(m, k))
         /\ \/ ToTrash(m, Merge!Done(m, k))
            \/ Merge!Done(m, k).at = "move" /\ Merge!Done(m, k).todo = m.todo \ {k}
<1>1. CASE m.todo = {k}
  <2>1. Merge!Done(m, k) = Merge!Trashing(m)
    BY <1>1 DEF Merge!Done
  <2> QED BY <2>1, TrashingIs
<1>2. CASE m.todo # {k}
  <2> DEFINE todo == m.todo \ {k}
  <2>1. Merge!Done(m, k) = [m EXCEPT !.at = "move", !.todo = todo, !.on = None]
    BY <1>2 DEF Merge!Done
  <2>2. todo \subseteq Dups \cup Kids
    BY DEF MergeJob
  <2> HIDE DEF todo
  <2>4. "move" \in MergeStage /\ todo \in SUBSET (Dups \cup Kids)
    BY <2>2 DEF MergeStage
  <2>3. /\ Merge!Done(m, k) \in MergeJob /\ Same(m, Merge!Done(m, k))
        /\ Merge!Done(m, k).at = "move" /\ Merge!Done(m, k).todo = todo
    BY <2>1, <2>4 DEF MergeJob, Same
  <2> QED BY <2>3 DEF todo
<1> QED BY <1>1, <1>2

LEMMA KeptIs ==
  ASSUME merge \in MergeJob, NEW k \in DOMAIN merge.children
  PROVE  /\ Merge!Kept(k) \in MergeJob /\ Same(merge, Merge!Kept(k))
         /\ \/ ToTrash(merge, Merge!Kept(k))
            \/ Merge!Kept(k).at = "move" /\ Merge!Kept(k).todo = merge.todo \ {k}
<1> DEFINE unsafe == merge.unsafe \cup {merge.children[k]}
           m == [merge EXCEPT !.unsafe = unsafe]
<1>1. unsafe \subseteq Dups
  BY ReadIs DEF MergeJob
<1>2. Merge!Kept(k) = Merge!Done(m, k)
  BY DEF Merge!Kept
<1> HIDE DEF unsafe
<1>3. m \in MergeJob /\ Same(merge, m) /\ m.todo = merge.todo
  BY <1>1 DEF MergeJob, Same
<1> HIDE DEF m
<1> QED BY <1>2, <1>3, DoneIs DEF Same, ToTrash

LEMMA LeftIs ==
  ASSUME merge \in MergeJob, NEW d
  PROVE  /\ Merge!Left(d) \in MergeJob /\ Same(merge, Merge!Left(d))
         /\ Merge!Left(d).at \in {"trash", "done"} /\ Merge!Left(d).todo \subseteq merge.todo
<1> DEFINE m == [merge EXCEPT !.on = None, !.at = "trash"]
<1>1. m \in MergeJob /\ Same(merge, m) /\ m.todo = merge.todo /\ m.at = "trash"
  BY DEF MergeJob, MergeStage, Same
<1>2. Merge!Left(d) = Merge!Goes(m, d, "done", {})
  BY DEF Merge!Left
<1> HIDE DEF m
<1>3. "done" \in MergeStage /\ {} \in SUBSET (Dups \cup Kids)
  BY DEF MergeStage
<1>4. Went(m, d, "done", {}, Merge!Left(d))
  BY <1>1, <1>2, <1>3, GoesIs
<1> QED BY <1>1, <1>4 DEF Same, Went

LEMMA StopsIs ==
  ASSUME merge \in MergeJob, Merge!Stops
  PROVE  merge' \in MergeJob /\ Same(merge, merge') /\ merge'.at = "done"
BY DEF Merge!Stops, MergeJob, MergeStage, Same

LEMMA EmptyRead == <<>> \in Readings /\ <<>> \in Listings /\ DOMAIN <<>> = {}
<1> DEFINE f == <<>>
<1>1. f \in [{} -> Record] /\ f \in [{} -> Dups] /\ DOMAIN f = {}
  BY NothingRead
<1> HIDE DEF f
<1>2. {} \in SUBSET Records /\ {} \in SUBSET Kids
  OBVIOUS
<1>3. f \in UNION {[some -> Record] : some \in SUBSET Records}
  BY <1>1, <1>2, PartialFrom
<1>4. f \in UNION {[some -> Dups] : some \in SUBSET Kids}
  BY <1>1, <1>2, PartialFrom
<1>5. f \in Readings /\ f \in Listings
  BY <1>3, <1>4 DEF Readings, Listings
<1> QED BY <1>1, <1>5 DEF f

LEMMA MergeStarts == Init => MergeInv
<1> SUFFICES ASSUME Merge!MergeInit PROVE MergeInv
  BY DEF Init
<1>1. <<>> \in Readings /\ <<>> \in Listings /\ DOMAIN <<>> = {}
  BY EmptyRead
<1>2. PICK l \in Libraries : item = l.item /\ parent = l.parent
  BY DEF Merge!MergeInit
<1>3. item \in [Records -> Record] /\ parent \in [Kids -> Records \cup {None, d1, d2}]
  <2> DEFINE Full == [tags |-> {t1}, abstract |-> a1, live |-> TRUE]
             Bare == [tags |-> {}, abstract |-> None, live |-> TRUE]
  <2>1. Full \in Record /\ Bare \in Record
    BY DEF Record
  <2>3. \E p \in {None, d1, d2}, e \in {{}, {d2}} :
           l = [item |-> [i \in Dups \cup {Master} |-> IF i = d1 THEN Full ELSE Bare],
                  parent |-> [k \in Kids |-> IF k = k1 THEN d1 ELSE p],
                  elsewhere |-> e]
    BY DEF Libraries
  <2> HIDE DEF Full, Bare
  <2>2. PICK p \in {None, d1, d2} :
           /\ item = [i \in Dups \cup {Master} |-> IF i = d1 THEN Full ELSE Bare]
           /\ parent = [k \in Kids |-> IF k = k1 THEN d1 ELSE p]
    BY <1>2, <2>3
  <2> QED BY <2>1, <2>2 DEF Records, Merge!Merged
<1>4. PICK first \in {"preview", "none"} : merge = Merge!Starts([Merge!NoPreview EXCEPT !.is = first])
  BY DEF Merge!MergeInit
<1> DEFINE expect == [Merge!NoPreview EXCEPT !.is = first]
<1>5. expect \in Expected
  BY <1>1 DEF Expected, Merge!NoPreview
<1> HIDE DEF expect
<1>6. merge = Merge!Starts(expect)
  BY <1>4 DEF expect
<1>7. merge \in MergeJob /\ merge.at = "master" /\ merge.read = <<>> /\ merge.children = <<>>
  BY <1>1, <1>5, <1>6 DEF Merge!Starts, MergeJob, MergeStage
<1>8. userEdits \in Nat /\ fresh = {}
  BY DEF Merge!MergeInit
<1> QED BY <1>1, <1>3, <1>7, <1>8
        DEF MergeInv, MergeTypeOK, FreshIsRead, InLoop, Absorbed, StillEmpty, AsApproved, MovingStage, TrashingStage, ApprovedStage

\* A step that reads nothing: what it writes is not as it was read any more.
LEMMA StepKeeps ==
  ASSUME MergeInv,
         item' \in [Records -> Record], parent' \in [Kids -> Records \cup {None, d1, d2}], userEdits' \in Nat,
         fresh' \subseteq fresh, fresh' \cap previewed \subseteq previewed',
         \A i \in Records : i \in fresh' => item'[i] = item[i],
         \A k \in Kids : k \in fresh' => parent'[k] = parent[k],
         merge' \in MergeJob, Same(merge, merge'), InLoop',
         merge'.at \in MovingStage \cup TrashingStage => merge.at \in MovingStage \cup TrashingStage,
         merge'.at \in ApprovedStage => merge.at \in ApprovedStage,
         merge'.at = "emptied" => ~quiet'
  PROVE  MergeInv'
<1>1. merge \in MergeJob
  BY DEF MergeInv, MergeTypeOK
<1>2. MergeTypeOK'
  BY DEF MergeTypeOK
<1>3. FreshIsRead'
  BY <1>1, ReadIs DEF FreshIsRead, MergeInv, Same
<1>4. Absorbed'
  BY DEF Absorbed, MergeInv, Same
<1>5. StillEmpty'
  BY DEF StillEmpty
<1>6. AsApproved'
  BY DEF AsApproved, MergeInv, Same
<1> QED BY <1>2, <1>3, <1>4, <1>5, <1>6 DEF MergeInv

\* The job alone goes on.
LEMMA JobKeeps ==
  ASSUME MergeInv, UNCHANGED <<item, parent, userEdits, fresh, previewed>>,
         merge' \in MergeJob, Same(merge, merge'), InLoop', merge'.at # "emptied",
         merge'.at \in MovingStage \cup TrashingStage => merge.at \in MovingStage \cup TrashingStage,
         merge'.at \in ApprovedStage => merge.at \in ApprovedStage
  PROVE  MergeInv'
<1>1. MergeTypeOK
  BY DEF MergeInv
<1> QED BY <1>1, StepKeeps DEF MergeTypeOK

LEMMA StopKeeps ==
  ASSUME MergeInv, Merge!Stops, UNCHANGED <<item, parent, userEdits, fresh, previewed>> PROVE MergeInv'
<1>1. merge' \in MergeJob /\ Same(merge, merge') /\ merge'.at = "done"
  BY StopsIs DEF MergeInv, MergeTypeOK
<1>2. InLoop'
  BY <1>1 DEF InLoop, MovingStage, TrashingStage
<1> QED BY <1>1, <1>2, JobKeeps DEF MovingStage, TrashingStage, ApprovedStage

LEMMA ReadMasterKeeps == ASSUME MergeInv, Merge!ReadMaster PROVE MergeInv'
<1>1. UNCHANGED <<item, parent, userEdits, quiet>> /\ previewed' = previewed /\ MergeTypeOK
  BY DEF Merge!ReadMaster, Merge!Reads, Merge!Stays, Merge!libraryVars, MergeInv
<1>2. CASE Merge!Stops /\ fresh' = fresh
  BY <1>1, <1>2, StopKeeps
<1>3. CASE /\ fresh' = {Master}
           /\ merge' = [merge EXCEPT !.at = "duplicates", !.todo = Dups, !.read = Merge!With(<<>>, Master, item[Master])]
  <2> DEFINE nothing == <<>>
             read == Merge!With(nothing, Master, item[Master])
  <2>1. nothing \in Readings /\ DOMAIN nothing = {} /\ Master \in Records /\ item[Master] \in Record
    BY <1>1, Apart, EmptyRead DEF MergeTypeOK
  <2> HIDE DEF nothing
  <2>2. Extends(nothing, Master, item[Master], read)
    BY <2>1, WithIs
  <2> HIDE DEF read
  <2>3. read \in Readings /\ DOMAIN read = {Master} /\ read[Master] = item[Master]
    BY <2>1, <2>2 DEF Extends
  <2>4. merge' = [merge EXCEPT !.at = "duplicates", !.todo = Dups, !.read = read]
    BY <1>3 DEF read, nothing
  <2>5. merge' \in MergeJob /\ merge'.at = "duplicates" /\ merge'.read = read /\ merge'.children = merge.children
    BY <1>1, <2>3, <2>4 DEF MergeTypeOK, MergeJob, MergeStage
  <2>6. DOMAIN merge.children \subseteq Kids
    BY <1>1, ReadIs DEF MergeTypeOK
  <2>7. FreshIsRead'
    BY <1>1, <1>3, <2>3, <2>5, <2>6, Apart DEF FreshIsRead
  <2>8. MergeTypeOK'
    BY <1>1, <2>5 DEF MergeTypeOK
  <2> QED BY <2>3, <2>5, <2>7, <2>8
          DEF MergeInv, InLoop, Absorbed, StillEmpty, AsApproved, MovingStage, TrashingStage, ApprovedStage
<1> QED BY <1>2, <1>3 DEF Merge!ReadMaster

LEMMA GatheredIs ==
  ASSUME NEW m \in MergeJob, NEW d
  PROVE  /\ Merge!Gathered(m, d) \in MergeJob /\ Same(m, Merge!Gathered(m, d))
         /\ Merge!Gathered(m, d).at \in {m.at, "done", "children"}
<1> DEFINE dups == DOMAIN m.read \ {Master}
<1>1. dups \in SUBSET (Dups \cup Kids) /\ "children" \in MergeStage
  BY ReadIs DEF MergeStage
<1>2. \/ Merge!Gathered(m, d) = [m EXCEPT !.at = "done", !.todo = {}]
      \/ Merge!Gathered(m, d) = Merge!Goes(m, d, "children", dups)
  BY DEF Merge!Gathered
<1> HIDE DEF dups
<1>3. CASE Merge!Gathered(m, d) = [m EXCEPT !.at = "done", !.todo = {}]
  BY <1>3 DEF MergeJob, MergeStage, Same
<1>4. CASE Merge!Gathered(m, d) = Merge!Goes(m, d, "children", dups)
  <2>1. Went(m, d, "children", dups, Merge!Gathered(m, d))
    BY <1>1, <1>4, GoesIs
  <2> QED BY <2>1 DEF Went
<1> QED BY <1>2, <1>3, <1>4

LEMMA ReadDuplicateKeeps == ASSUME MergeInv, NEW d \in Dups, Merge!ReadDuplicate(d) PROVE MergeInv'
<1>1. /\ UNCHANGED <<item, parent, userEdits, quiet>> /\ previewed' = previewed /\ MergeTypeOK
      /\ merge.at = "duplicates"
  BY DEF Merge!ReadDuplicate, Merge!Reads, Merge!Stays, Merge!libraryVars, Merge!At, MergeInv
<1>2. merge \in MergeJob /\ Master \in DOMAIN merge.read
  BY <1>1 DEF MergeTypeOK, MergeInv, InLoop
<1>3. CASE fresh' = fresh /\ merge' = Merge!Gathered(merge, d)
  <2>1. merge' \in MergeJob /\ Same(merge, merge') /\ merge'.at \in {"duplicates", "done", "children"}
    BY <1>1, <1>2, <1>3, GatheredIs
  <2>2. InLoop'
    BY <1>2, <2>1 DEF InLoop, Same, MovingStage, TrashingStage
  <2> QED BY <1>1, <1>3, <2>1, <2>2, JobKeeps DEF MovingStage, TrashingStage, ApprovedStage
<1>4. CASE fresh' = fresh \cup {d} /\ merge' = Merge!Gathered([merge EXCEPT !.read = Merge!With(@, d, item[d])], d)
  <2> DEFINE read == Merge!With(merge.read, d, item[d])
             m == [merge EXCEPT !.read = read]
  <2>1. merge.read \in Readings /\ d \in Records /\ item[d] \in Record
    BY <1>1, <1>2, Apart DEF MergeTypeOK, MergeJob
  <2>2. Extends(merge.read, d, item[d], read)
    BY <2>1, WithIs
  <2>3. merge' = Merge!Gathered(m, d)
    BY <1>4
  <2> HIDE DEF read
  <2>4. m \in MergeJob /\ m.read = read /\ m.children = merge.children /\ m.at = "duplicates"
    BY <1>1, <1>2, <2>2 DEF MergeJob, Extends
  <2> HIDE DEF m
  <2>5. /\ merge' \in MergeJob /\ merge'.read = read /\ merge'.children = merge.children
        /\ merge'.at \in {"duplicates", "done", "children"}
    BY <2>3, <2>4, GatheredIs DEF Same
  <2>6. DOMAIN merge.children \subseteq Kids /\ DOMAIN read = DOMAIN merge.read \cup {d} /\ read[d] = item[d]
        /\ \A i \in DOMAIN merge.read \ {d} : read[i] = merge.read[i]
    BY <1>2, <2>2, ReadIs DEF Extends
  <2>7. FreshIsRead'
    BY <1>1, <1>4, <2>5, <2>6, Apart DEF FreshIsRead, MergeInv
  <2>8. MergeTypeOK'
    BY <1>1, <2>5 DEF MergeTypeOK
  <2> QED BY <1>2, <2>5, <2>6, <2>7, <2>8
          DEF MergeInv, InLoop, Absorbed, StillEmpty, AsApproved, MovingStage, TrashingStage, ApprovedStage
<1> QED BY <1>3, <1>4 DEF Merge!ReadDuplicate

\* One more duplicate's children, or none of them.
LEMMA ListChildrenKeeps == ASSUME MergeInv, NEW d \in Dups, Merge!ListChildren(d) PROVE MergeInv'
<1> DEFINE dups == DOMAIN merge.read \ {Master}
<1>1. /\ UNCHANGED <<item, parent, userEdits, quiet>> /\ previewed' = previewed /\ MergeTypeOK
      /\ merge.at = "children"
  BY DEF Merge!ListChildren, Merge!Reads, Merge!Stays, Merge!libraryVars, Merge!At, MergeInv
<1>2. /\ merge \in MergeJob /\ Master \in DOMAIN merge.read
      /\ dups \in SUBSET (Dups \cup Kids) /\ "second opinion" \in MergeStage
  BY <1>1, ReadIs DEF MergeTypeOK, MergeInv, InLoop, MergeStage
<1>3. CASE fresh' = fresh /\ merge' = Merge!Goes([merge EXCEPT !.unsafe = @ \cup {d}], d, "second opinion", dups)
  <2> DEFINE unsafe == merge.unsafe \cup {d}
             m == [merge EXCEPT !.unsafe = unsafe]
  <2>1. merge' = Merge!Goes(m, d, "second opinion", dups) /\ unsafe \subseteq Dups
    BY <1>2, <1>3 DEF MergeJob
  <2> HIDE DEF unsafe, dups
  <2>2. m \in MergeJob /\ Same(merge, m) /\ m.at = "children"
    BY <1>1, <1>2, <2>1 DEF MergeJob, Same
  <2> HIDE DEF m
  <2>3. Went(m, d, "second opinion", dups, merge')
    BY <1>2, <2>1, <2>2, GoesIs
  <2>4. merge' \in MergeJob /\ Same(merge, merge') /\ merge'.at \in {"children", "second opinion"}
    BY <2>2, <2>3 DEF Went, Same
  <2>5. InLoop'
    BY <1>2, <2>4 DEF InLoop, Same, MovingStage, TrashingStage
  <2> QED BY <1>1, <1>3, <2>4, <2>5, JobKeeps DEF MovingStage, TrashingStage, ApprovedStage
<1>4. CASE /\ fresh' = fresh \cup Merge!KidsOf(d)
           /\ merge' = Merge!Goes([merge EXCEPT !.children = [k \in DOMAIN @ \cup Merge!KidsOf(d) |->
                                                               IF k \in Merge!KidsOf(d) THEN d ELSE @[k]]],
                                  d, "second opinion", dups)
  <2> DEFINE found == Merge!KidsOf(d)
             children == [k \in DOMAIN merge.children \cup found |-> IF k \in found THEN d ELSE merge.children[k]]
             m == [merge EXCEPT !.children = children]
  <2>1. merge' = Merge!Goes(m, d, "second opinion", dups)
    BY <1>4
  <2>2. found \subseteq Kids /\ \A k \in found : parent[k] = d
    BY DEF Merge!KidsOf
  <2>3. DOMAIN merge.children \subseteq Kids /\ \A k \in DOMAIN merge.children : merge.children[k] \in Dups
    BY <1>2, ReadIs
  <2> HIDE DEF found, dups
  <2>4. /\ children \in [DOMAIN merge.children \cup found -> Dups]
        /\ DOMAIN merge.children \cup found \in SUBSET Kids
    BY <2>2, <2>3
  <2>5. /\ DOMAIN children = DOMAIN merge.children \cup found
        /\ \A k \in found : children[k] = parent[k]
        /\ \A k \in DOMAIN merge.children \ found : children[k] = merge.children[k]
    BY <2>2
  <2> HIDE DEF children
  <2>6. children \in UNION {[some -> Dups] : some \in SUBSET Kids}
    BY <2>4, PartialFrom
  <2>7. m \in MergeJob /\ m.read = merge.read /\ m.children = children /\ m.at = "children"
    BY <1>1, <1>2, <2>6 DEF MergeJob, Listings
  <2> HIDE DEF m
  <2>8. Went(m, d, "second opinion", dups, merge')
    BY <1>2, <2>1, <2>7, GoesIs
  <2>9. /\ merge' \in MergeJob /\ merge'.read = merge.read /\ merge'.children = children
        /\ merge'.at \in {"children", "second opinion"}
    BY <2>7, <2>8 DEF Went, Same
  <2>10. DOMAIN merge.read \subseteq Records /\ fresh' = fresh \cup found
    BY <1>2, <1>4, ReadIs DEF found
  <2>11. FreshIsRead'
    <3>1. \A i \in fresh' : i \in DOMAIN merge.read => merge.read[i] = item[i]
      BY <2>2, <2>10, Apart DEF FreshIsRead, MergeInv
    <3>2. \A k \in fresh' : k \in DOMAIN children => parent[k] = children[k]
      BY <2>5, <2>10 DEF FreshIsRead, MergeInv
    <3> QED BY <1>1, <2>9, <3>1, <3>2 DEF FreshIsRead
  <2>12. MergeTypeOK'
    BY <1>1, <2>9 DEF MergeTypeOK
  <2> QED BY <1>2, <2>9, <2>11, <2>12
          DEF MergeInv, InLoop, Absorbed, StillEmpty, AsApproved, MovingStage, TrashingStage, ApprovedStage
<1> QED BY <1>3, <1>4 DEF Merge!ListChildren, Merge!Unlisted

LEMMA AskOtherKeeps == ASSUME MergeInv, NEW d \in Dups, Merge!AskOther(d) PROVE MergeInv'
<1>1. /\ UNCHANGED <<item, parent, userEdits, fresh, previewed>> /\ merge.at = "second opinion" /\ merge \in MergeJob
      /\ Master \in DOMAIN merge.read
  BY DEF Merge!AskOther, Merge!Reads, Merge!Stays, Merge!libraryVars, Merge!At, MergeInv, MergeTypeOK, InLoop
<1>2. PICK veto \in {{}, elsewhere \cap {d}} :
         merge' = Merge!Goes([merge EXCEPT !.unsafe = @ \cup veto], d, "plan", {})
  BY DEF Merge!AskOther
<1> DEFINE unsafe == merge.unsafe \cup veto
           m == [merge EXCEPT !.unsafe = unsafe]
<1>3. merge' = Merge!Goes(m, d, "plan", {}) /\ unsafe \subseteq Dups
  BY <1>1, <1>2 DEF MergeJob
<1> HIDE DEF unsafe
<1>4. m \in MergeJob /\ Same(merge, m) /\ m.at = "second opinion"
  BY <1>1, <1>3 DEF MergeJob, Same
<1> HIDE DEF m
<1>5. "plan" \in MergeStage /\ {} \in SUBSET (Dups \cup Kids)
  BY DEF MergeStage
<1>6. Went(m, d, "plan", {}, merge')
  BY <1>3, <1>4, <1>5, GoesIs
<1>7. merge' \in MergeJob /\ Same(merge, merge') /\ merge'.at \in {"second opinion", "plan"}
  BY <1>4, <1>6 DEF Went, Same
<1>8. InLoop'
  BY <1>1, <1>7 DEF InLoop, Same, MovingStage, TrashingStage
<1> QED BY <1>1, <1>7, <1>8, JobKeeps DEF MovingStage, TrashingStage, ApprovedStage

LEMMA PreviewKeeps == ASSUME MergeInv, Merge!Preview PROVE MergeInv'
<1> DEFINE dups == DOMAIN merge.read \ {Master}
           expect == [is |-> "approved", dups |-> dups, children |-> merge.children]
<1>1. /\ UNCHANGED <<item, parent, userEdits, fresh>> /\ MergeTypeOK /\ merge' = Merge!Starts(expect)
  BY DEF Merge!Preview, Merge!Reads, Merge!Stays, Merge!libraryVars, MergeInv
<1>2. dups \subseteq Dups /\ merge.children \in Listings
  BY <1>1, ReadIs DEF MergeTypeOK, MergeJob
<1> HIDE DEF dups
<1>3. expect \in Expected
  BY <1>2 DEF Expected
<1> HIDE DEF expect
<1>4. <<>> \in Readings /\ <<>> \in Listings /\ DOMAIN <<>> = {}
  BY EmptyRead
<1>5. merge' \in MergeJob /\ merge'.at = "master" /\ merge'.read = <<>> /\ merge'.children = <<>>
  BY <1>1, <1>3, <1>4 DEF Merge!Starts, MergeJob, MergeStage
<1> QED BY <1>1, <1>4, <1>5
        DEF MergeInv, MergeTypeOK, FreshIsRead, InLoop, Absorbed, StillEmpty, AsApproved, MovingStage, TrashingStage, ApprovedStage

LEMMA ApproveKeeps == ASSUME MergeInv, Merge!Approve PROVE MergeInv'
<1>1. /\ UNCHANGED <<item, parent, userEdits, quiet, fresh, previewed>> /\ MergeTypeOK
      /\ merge.at = "plan" /\ merge \in MergeJob /\ Master \in DOMAIN merge.read
  BY DEF Merge!Approve, Merge!Reads, Merge!Stays, Merge!libraryVars, Merge!At, MergeInv, MergeTypeOK, InLoop
<1>2. CASE Merge!Stops
  BY <1>1, <1>2, StopKeeps
<1>3. CASE merge' = [merge EXCEPT !.at = "patch"] /\ ~(merge.expect.is = "approved" /\ Merge!Stale)
  <2>1. merge' \in MergeJob /\ Same(merge, merge') /\ merge'.at = "patch"
    BY <1>1, <1>3 DEF MergeJob, MergeStage, Same
  <2>2. AsApproved'
    BY <1>1, <1>3, <2>1 DEF AsApproved, Same, Merge!Stale
  <2>3. MergeTypeOK' /\ FreshIsRead'
    BY <1>1, <2>1 DEF MergeTypeOK, FreshIsRead, Same, MergeInv
  <2> QED BY <1>1, <2>1, <2>2, <2>3 DEF MergeInv, InLoop, Same, Absorbed, StillEmpty, MovingStage, TrashingStage
<1> QED BY <1>2, <1>3 DEF Merge!Approve

\* What the master is written to have.
LEMMA PatchIs ==
  ASSUME merge \in MergeJob, NEW m \in Record, NEW p \in Merge!Patches(m)
  PROVE  /\ p \in Record /\ m.tags \subseteq p.tags /\ m.abstract \in {None, p.abstract}
         /\ \A d \in DOMAIN merge.read \ {Master} :
              /\ merge.read[d].tags \subseteq p.tags
              /\ merge.read[d].abstract # None => p.abstract # None
<1> DEFINE dups == DOMAIN merge.read \ {Master}
           filled == {merge.read[d].abstract : d \in dups} \ {None}
           tags == m.tags \cup UNION {merge.read[d].tags : d \in dups}
<1>1. PICK a \in IF m.abstract # None \/ filled = {} THEN {m.abstract} ELSE filled :
         p = [m EXCEPT !.tags = tags, !.abstract = a]
  BY DEF Merge!Patches
<1>2. \A d \in dups : merge.read[d].tags \subseteq Tags \cup {t1} /\ merge.read[d].abstract \in Abstracts \cup {None, a1}
  BY ReadIs DEF Record
<1>3. m.tags \subseteq Tags \cup {t1} /\ m.abstract \in Abstracts \cup {None, a1} /\ m.live \in BOOLEAN
  BY DEF Record
<1>4. tags \subseteq Tags \cup {t1} /\ m.tags \subseteq tags /\ \A d \in dups : merge.read[d].tags \subseteq tags
  BY <1>2, <1>3
<1>5. a \in Abstracts \cup {None, a1} /\ m.abstract \in {None, a}
  BY <1>1, <1>2, <1>3
<1>6. \A d \in dups : merge.read[d].abstract # None => a # None
  BY <1>1
<1> HIDE DEF tags, filled
<1>7. p.tags = tags /\ p.abstract = a /\ p \in Record
  BY <1>1, <1>4, <1>5 DEF Record
<1> QED BY <1>4, <1>5, <1>6, <1>7

\* After the master is written there are the children to move, then the duplicates to trash.
LEMMA OnwardLoops ==
  ASSUME NEW m \in MergeJob, merge' \in MergeJob, Same(m, merge'), Master \in DOMAIN m.read,
         \/ ToTrash(m, merge')
         \/ merge'.at = "move" /\ merge'.todo \subseteq DOMAIN m.children
  PROVE  /\ InLoop' /\ merge'.at # "emptied"
         /\ merge'.at = "done" \/ merge'.at \in MovingStage \cup TrashingStage
BY DEF InLoop, Same, ToTrash, MovingStage, TrashingStage

LEMMA PatchMasterKeeps ==
  ASSUME MergeInv, NEW stage \in {"patch", "repatch"}, NEW conflict \in {"reread", "done"}, Merge!PatchMaster(stage, conflict)
  PROVE  MergeInv'
<1>1. /\ MergeTypeOK /\ merge \in MergeJob /\ merge.at = stage /\ Master \in DOMAIN merge.read
  BY DEF Merge!PatchMaster, Merge!At, MergeInv, MergeTypeOK, InLoop
<1>2. CASE /\ merge' = [merge EXCEPT !.at = conflict] \/ Merge!Stops
           /\ Merge!Reads /\ UNCHANGED <<fresh, previewed>>
  <2>1. UNCHANGED <<item, parent, userEdits, fresh, previewed>>
    BY <1>2 DEF Merge!Reads, Merge!Stays, Merge!libraryVars
  <2>2. CASE merge' = [merge EXCEPT !.at = conflict]
    <3>1. merge' \in MergeJob /\ Same(merge, merge') /\ merge'.at = conflict
      BY <1>1, <2>2 DEF MergeJob, MergeStage, Same
    <3>2. InLoop'
      BY <1>1, <3>1 DEF InLoop, Same, MovingStage, TrashingStage
    <3> QED BY <1>1, <2>1, <3>1, <3>2, JobKeeps DEF MovingStage, TrashingStage, ApprovedStage
  <2> QED BY <1>2, <2>1, <2>2, StopKeeps
<1>3. ASSUME NEW p \in Merge!Patches(merge.read[Master]),
             item' = [item EXCEPT ![Master] = [@ EXCEPT !.tags = p.tags, !.abstract = p.abstract]],
             merge' = Merge!Moving([merge EXCEPT !.wrote = p]) \/ Merge!Stops,
             Merge!Bumps(Master, fresh \ {Master}), UNCHANGED parent
      PROVE  MergeInv'
  <2>1. /\ merge.read[Master] \in Record /\ item[Master] \in Record /\ Master \in Records
    BY <1>1, ReadIs, Apart DEF MergeTypeOK
  <2>2. /\ p \in Record
        /\ \A d \in DOMAIN merge.read \ {Master} :
             /\ merge.read[d].tags \subseteq p.tags
             /\ merge.read[d].abstract # None => p.abstract # None
    BY <1>1, <1>3, <2>1, PatchIs
  <2>3. item' \in [Records -> Record] /\ \A i \in Records \ {Master} : item'[i] = item[i]
    <3>1. [item[Master] EXCEPT !.tags = p.tags, !.abstract = p.abstract] \in Record
      BY <2>1, <2>2 DEF Record
    <3> QED BY <1>1, <1>3, <2>1, <3>1 DEF MergeTypeOK
  <2>4. /\ fresh' = fresh \ {Master} /\ previewed' = previewed \ {Master} /\ parent' = parent
        /\ userEdits' = userEdits /\ quiet' = FALSE
    BY <1>3 DEF Merge!Bumps, Merge!Stays
  <2>5. CASE Merge!Stops
    <3>1. merge' \in MergeJob /\ Same(merge, merge') /\ merge'.at = "done"
      BY <1>1, <2>5, StopsIs
    <3>2. InLoop'
      BY <3>1 DEF InLoop, MovingStage, TrashingStage
    <3> QED BY <1>1, <2>3, <2>4, <3>1, <3>2, StepKeeps DEF MergeTypeOK, MovingStage, TrashingStage, ApprovedStage
  <2>6. CASE merge' = Merge!Moving([merge EXCEPT !.wrote = p])
    <3> DEFINE m == [merge EXCEPT !.wrote = p]
    <3>1. /\ m \in MergeJob /\ m.expect = merge.expect /\ m.read = merge.read /\ m.children = merge.children
          /\ m.wrote = p
      BY <1>1, <2>2 DEF MergeJob
    <3>2. merge' = Merge!Moving(m)
      BY <2>6
    <3> HIDE DEF m
    <3>3. /\ merge' \in MergeJob /\ Same(m, merge')
          /\ \/ ToTrash(m, merge')
             \/ merge'.at = "move" /\ merge'.todo = DOMAIN m.children
      BY <3>1, <3>2, MovingIs
    <3>4. InLoop' /\ merge'.at # "emptied"
      BY <1>1, <3>1, <3>3, OnwardLoops
    <3>5. /\ merge'.expect = merge.expect /\ merge'.read = merge.read /\ merge'.children = merge.children
          /\ merge'.wrote = p
      BY <3>1, <3>3 DEF Same
    <3>6. FreshIsRead'
      BY <1>1, <2>3, <2>4, <3>5, ReadIs DEF FreshIsRead, MergeInv
    <3>7. Absorbed'
      BY <2>2, <3>5 DEF Absorbed
    <3>8. merge.at \in ApprovedStage
      BY <1>1 DEF ApprovedStage
    <3>9. AsApproved'
      BY <2>4, <3>5, <3>8 DEF AsApproved, MergeInv
    <3>10. MergeTypeOK'
      BY <1>1, <2>3, <2>4, <3>3 DEF MergeTypeOK
    <3> QED BY <3>4, <3>6, <3>7, <3>9, <3>10 DEF MergeInv, StillEmpty
  <2> QED BY <1>3, <2>5, <2>6
<1> QED BY <1>2, <1>3 DEF Merge!PatchMaster, Merge!Accepted

LEMMA ReadMasterAgainKeeps == ASSUME MergeInv, Merge!ReadMasterAgain PROVE MergeInv'
<1>1. /\ UNCHANGED <<item, parent, userEdits, quiet>> /\ previewed' = previewed /\ MergeTypeOK
      /\ merge.at = "reread" /\ merge \in MergeJob
  BY DEF Merge!ReadMasterAgain, Merge!Reads, Merge!Stays, Merge!libraryVars, Merge!At, MergeInv, MergeTypeOK
<1>2. CASE Merge!Stops /\ fresh' = fresh
  BY <1>1, <1>2, StopKeeps
<1>3. CASE /\ fresh' = fresh \cup {Master}
           /\ merge' = [merge EXCEPT !.at = "repatch", !.read = Merge!With(@, Master, item[Master])]
  <2> DEFINE read == Merge!With(merge.read, Master, item[Master])
  <2>1. merge.read \in Readings /\ Master \in Records /\ item[Master] \in Record
    BY <1>1, Apart DEF MergeTypeOK, MergeJob
  <2>2. Extends(merge.read, Master, item[Master], read)
    BY <2>1, WithIs
  <2>3. merge' = [merge EXCEPT !.at = "repatch", !.read = read]
    BY <1>3
  <2> HIDE DEF read
  <2>4. /\ merge' \in MergeJob /\ merge'.at = "repatch" /\ merge'.read = read /\ merge'.children = merge.children
        /\ merge'.expect = merge.expect
    BY <1>1, <2>2, <2>3 DEF MergeJob, MergeStage, Extends
  <2>5. DOMAIN merge.children \subseteq Kids /\ merge.expect.dups \subseteq Dups
    BY <1>1, ReadIs DEF MergeJob, Expected
  <2>6. FreshIsRead'
    BY <1>1, <1>3, <2>2, <2>4, <2>5, Apart DEF FreshIsRead, MergeInv, Extends
  <2>7. AsApproved'
    BY <1>1, <1>3, <2>4, <2>5, Apart DEF AsApproved, MergeInv, ApprovedStage
  <2>8. MergeTypeOK'
    BY <1>1, <2>4 DEF MergeTypeOK
  <2> QED BY <2>2, <2>4, <2>6, <2>7, <2>8
          DEF MergeInv, InLoop, Absorbed, StillEmpty, Extends, MovingStage, TrashingStage
<1> QED BY <1>2, <1>3 DEF Merge!ReadMasterAgain, Merge!Rebuilt

\* A child was moved, or kept where it is, and the loop goes on.
LEMMA ChildIsDone ==
  ASSUME MergeInv, merge.at \in MovingStage, NEW k \in Kids, k \in merge.todo,
         merge' \in {Merge!Done(merge, k), Merge!Kept(k)}
  PROVE  /\ merge' \in MergeJob /\ Same(merge, merge') /\ InLoop' /\ merge'.at # "emptied"
         /\ merge'.at = "done" \/ merge'.at \in MovingStage \cup TrashingStage
<1>1. merge \in MergeJob /\ merge.todo \subseteq DOMAIN merge.children /\ Master \in DOMAIN merge.read
  BY DEF MergeInv, MergeTypeOK, InLoop, MovingStage
<1>2. /\ merge' \in MergeJob /\ Same(merge, merge')
      /\ ToTrash(merge, merge') \/ (merge'.at = "move" /\ merge'.todo = merge.todo \ {k})
  BY <1>1, DoneIs, KeptIs
<1> QED BY <1>1, <1>2, OnwardLoops

LEMMA StagesApproved ==
  merge.at \in MovingStage \cup TrashingStage => merge.at \in ApprovedStage
BY DEF ApprovedStage

LEMMA PatchChildKeeps ==
  ASSUME MergeInv, merge.at \in MovingStage, NEW k \in Kids,
         NEW conflict \in {[merge EXCEPT !.at = "conflict", !.on = k], Merge!Kept(k)}, Merge!PatchChild(k, conflict)
  PROVE  MergeInv'
<1>1. /\ MergeTypeOK /\ merge \in MergeJob /\ k \in merge.todo /\ merge.todo \subseteq DOMAIN merge.children
      /\ merge.at \in ApprovedStage /\ Master \in DOMAIN merge.read
  BY StagesApproved DEF Merge!PatchChild, MergeInv, MergeTypeOK, InLoop, MovingStage
<1>2. CASE /\ parent' = [parent EXCEPT ![k] = Master] /\ merge' \in {Merge!Done(merge, k), Merge!Kept(k)}
           /\ Merge!Bumps(k, fresh \ {k}) /\ UNCHANGED item
  <2>1. /\ merge' \in MergeJob /\ Same(merge, merge') /\ InLoop' /\ merge'.at # "emptied"
        /\ merge'.at = "done" \/ merge'.at \in MovingStage \cup TrashingStage
    BY <1>1, <1>2, ChildIsDone
  <2>2. /\ fresh' = fresh \ {k} /\ previewed' = previewed \ {k} /\ userEdits' = userEdits /\ item' = item
    BY <1>2 DEF Merge!Bumps, Merge!Stays
  <2>3. parent' \in [Kids -> Records \cup {None, d1, d2}] /\ \A c \in Kids \ {k} : parent'[c] = parent[c]
    BY <1>1, <1>2, Apart DEF MergeTypeOK
  <2> QED BY <1>1, <2>1, <2>2, <2>3, StepKeeps DEF MergeTypeOK, ApprovedStage
<1>3. CASE merge' \in {conflict, Merge!Kept(k)} /\ Merge!Reads /\ UNCHANGED <<fresh, previewed>>
  <2>1. UNCHANGED <<item, parent, userEdits, fresh, previewed>>
    BY <1>3 DEF Merge!Reads, Merge!Stays, Merge!libraryVars
  <2>2. CASE merge' = Merge!Kept(k)
    <3>1. /\ merge' \in MergeJob /\ Same(merge, merge') /\ InLoop' /\ merge'.at # "emptied"
          /\ merge'.at = "done" \/ merge'.at \in MovingStage \cup TrashingStage
      BY <1>1, <2>2, ChildIsDone
    <3> QED BY <1>1, <2>1, <3>1, JobKeeps DEF ApprovedStage
  <2>3. CASE merge' = [merge EXCEPT !.at = "conflict", !.on = k]
    <3>1. merge' \in MergeJob /\ Same(merge, merge') /\ merge'.at = "conflict" /\ merge'.on = k /\ merge'.todo = merge.todo
      BY <1>1, <2>3 DEF MergeJob, MergeStage, Same
    <3>2. InLoop'
      BY <1>1, <3>1 DEF InLoop, Same, MovingStage, TrashingStage
    <3> QED BY <1>1, <2>1, <3>1, <3>2, JobKeeps DEF ApprovedStage
  <2> QED BY <1>3, <2>2, <2>3
<1> QED BY <1>2, <1>3 DEF Merge!PatchChild

LEMMA MoveKeeps ==
  ASSUME MergeInv, NEW k \in Kids, Merge!MoveChild(k) \/ Merge!MoveChildAgain(k) PROVE MergeInv'
<1>1. CASE Merge!MoveChild(k)
  BY <1>1, PatchChildKeeps DEF Merge!MoveChild, Merge!At, MovingStage
<1>2. CASE Merge!MoveChildAgain(k)
  BY <1>2, PatchChildKeeps DEF Merge!MoveChildAgain, Merge!At, MovingStage
<1> QED BY <1>1, <1>2

LEMMA ReadChildAgainKeeps == ASSUME MergeInv, NEW k \in Kids, Merge!ReadChildAgain(k) PROVE MergeInv'
<1>1. /\ UNCHANGED <<item, parent, userEdits, quiet>> /\ previewed' = previewed /\ MergeTypeOK
      /\ merge.at = "conflict" /\ merge.on = k /\ merge \in MergeJob
  BY DEF Merge!ReadChildAgain, Merge!Reads, Merge!Stays, Merge!libraryVars, Merge!At, MergeInv, MergeTypeOK
<1>2. k \in merge.todo /\ merge.todo \subseteq DOMAIN merge.children /\ merge.at \in MovingStage /\ merge.at \in ApprovedStage
      /\ Master \in DOMAIN merge.read
  BY <1>1, StagesApproved DEF MergeInv, InLoop, MovingStage
<1>3. CASE merge' = Merge!Kept(k) /\ fresh' = fresh
  <2>1. /\ merge' \in MergeJob /\ Same(merge, merge') /\ InLoop' /\ merge'.at # "emptied"
        /\ merge'.at = "done" \/ merge'.at \in MovingStage \cup TrashingStage
    BY <1>2, <1>3, ChildIsDone
  <2> QED BY <1>1, <1>2, <1>3, <2>1, JobKeeps DEF ApprovedStage
<1>4. CASE Merge!StillThere(k) /\ fresh' = fresh \cup {k} /\ merge' = [merge EXCEPT !.at = "move again"]
  <2>1. merge' \in MergeJob /\ Same(merge, merge') /\ merge'.at = "move again" /\ merge'.on = k /\ merge'.todo = merge.todo
    BY <1>1, <1>4 DEF MergeJob, MergeStage, Same
  <2>2. DOMAIN merge.read \subseteq Records /\ merge.expect.dups \subseteq Dups
    BY <1>1, ReadIs DEF MergeJob, Expected
  <2>3. FreshIsRead'
    BY <1>1, <1>4, <2>1, <2>2, Apart DEF FreshIsRead, MergeInv, Same, Merge!StillThere
  <2>4. AsApproved'
    BY <1>1, <1>2, <1>4, <2>1, <2>2, Apart DEF AsApproved, MergeInv, Same
  <2>5. MergeTypeOK' /\ InLoop'
    BY <1>1, <1>2, <2>1 DEF MergeTypeOK, InLoop, Same, MovingStage, TrashingStage
  <2> QED BY <1>2, <2>1, <2>3, <2>4, <2>5 DEF MergeInv, Absorbed, StillEmpty, Same
<1> QED BY <1>3, <1>4 DEF Merge!ReadChildAgain

\* The loop over the duplicates goes on.
LEMMA DuplicateIsLeft ==
  ASSUME MergeInv, merge.at \in TrashingStage, NEW d \in Dups, merge' = Merge!Left(d)
  PROVE  /\ merge' \in MergeJob /\ Same(merge, merge') /\ InLoop' /\ merge'.at # "emptied"
         /\ merge.at \in ApprovedStage
<1>1. merge \in MergeJob /\ merge.todo \subseteq DOMAIN merge.read \ {Master} /\ Master \in DOMAIN merge.read
  BY DEF MergeInv, MergeTypeOK, InLoop, TrashingStage
<1>2. /\ merge' \in MergeJob /\ Same(merge, merge')
      /\ merge'.at \in {"trash", "done"} /\ merge'.todo \subseteq merge.todo
  BY <1>1, LeftIs
<1>3. InLoop'
  BY <1>1, <1>2 DEF InLoop, Same, MovingStage, TrashingStage
<1> QED BY <1>2, <1>3, StagesApproved

LEMMA ListAgainKeeps == ASSUME MergeInv, NEW d \in Dups, Merge!ListAgain(d) PROVE MergeInv'
<1>1. /\ UNCHANGED <<item, parent, userEdits, fresh, previewed>> /\ MergeTypeOK
      /\ merge.at = "trash" /\ d \in merge.todo /\ merge \in MergeJob /\ merge.at \in TrashingStage
  BY DEF Merge!ListAgain, Merge!Stays, Merge!At, MergeInv, MergeTypeOK, TrashingStage
<1>2. CASE merge' = Merge!Left(d)
  <2>1. /\ merge' \in MergeJob /\ Same(merge, merge') /\ InLoop' /\ merge'.at # "emptied"
        /\ merge.at \in ApprovedStage
    BY <1>1, <1>2, DuplicateIsLeft
  <2> QED BY <1>1, <2>1, JobKeeps
<1>3. CASE Merge!Emptied(d) /\ merge' = [merge EXCEPT !.at = "emptied", !.on = d]
  <2>1. merge' \in MergeJob /\ Same(merge, merge') /\ merge'.at = "emptied" /\ merge'.on = d /\ merge'.todo = merge.todo
    BY <1>1, <1>3 DEF MergeJob, MergeStage, Same
  <2>2. Merge!KidsOf(d)' = {}
    BY <1>1, <1>3 DEF Merge!Emptied, Merge!KidsOf
  <2>3. StillEmpty'
    BY <2>1, <2>2 DEF StillEmpty, Merge!KidsOf
  <2>4. InLoop'
    BY <1>1, <2>1 DEF InLoop, MergeInv, Same, MovingStage, TrashingStage
  <2>5. merge.at \in ApprovedStage
    BY <1>1, StagesApproved
  <2>6. MergeTypeOK' /\ FreshIsRead' /\ Absorbed' /\ AsApproved'
    BY <1>1, <2>1, <2>5 DEF MergeTypeOK, MergeInv, FreshIsRead, Absorbed, AsApproved, Same
  <2> QED BY <2>3, <2>4, <2>6 DEF MergeInv
<1> QED BY <1>2, <1>3 DEF Merge!ListAgain

LEMMA TrashKeeps == ASSUME MergeInv, NEW d \in Dups, Merge!Trash(d) PROVE MergeInv'
<1>1. MergeTypeOK /\ merge.at \in TrashingStage /\ merge' = Merge!Left(d)
  BY DEF Merge!Trash, Merge!At, MergeInv, TrashingStage
<1>2. /\ merge' \in MergeJob /\ Same(merge, merge') /\ InLoop' /\ merge'.at # "emptied"
      /\ merge.at \in ApprovedStage
  BY <1>1, DuplicateIsLeft
<1>3. CASE Merge!Reads /\ UNCHANGED <<fresh, previewed>>
  BY <1>1, <1>2, <1>3, JobKeeps DEF Merge!Reads, Merge!Stays, Merge!libraryVars
<1>4. CASE item' = [item EXCEPT ![d].live = FALSE] /\ Merge!Bumps(d, fresh \ {d}) /\ UNCHANGED parent
  <2>1. fresh' = fresh \ {d} /\ previewed' = previewed \ {d} /\ userEdits' = userEdits /\ parent' = parent
    BY <1>4 DEF Merge!Bumps, Merge!Stays
  <2>2. d \in Records /\ item[d] \in Record
    BY <1>1, Apart DEF MergeTypeOK
  <2>3. [item[d] EXCEPT !.live = FALSE] \in Record
    BY <2>2 DEF Record
  <2>4. item' \in [Records -> Record] /\ \A i \in Records \ {d} : item'[i] = item[i]
    BY <1>1, <1>4, <2>2, <2>3 DEF MergeTypeOK
  <2> QED BY <1>1, <1>2, <2>1, <2>4, StepKeeps DEF MergeTypeOK
<1> QED BY <1>3, <1>4 DEF Merge!Trash

LEMMA EditKeeps ==
  ASSUME MergeInv,
         \/ \E i \in Merge!Merged : Merge!EditItem(i)
         \/ \E k \in Kids : Merge!EditChild(k)
  PROVE  MergeInv'
<1>1. MergeTypeOK /\ merge \in MergeJob
  BY DEF MergeInv, MergeTypeOK
<1>2. ASSUME NEW r, Merge!Edited(r)
      PROVE  /\ fresh' = fresh \ {r} /\ previewed' = previewed \ {r} /\ quiet' = FALSE /\ userEdits' \in Nat
             /\ merge' \in MergeJob /\ Same(merge, merge') /\ InLoop' /\ merge' = merge
  <2>1. fresh' = fresh \ {r} /\ previewed' = previewed \ {r} /\ quiet' = FALSE /\ userEdits' = userEdits + 1
        /\ merge' = merge
    BY <1>2 DEF Merge!Edited
  <2>2. userEdits' \in Nat
    BY <1>1, <2>1 DEF MergeTypeOK
  <2>3. InLoop
    BY DEF MergeInv
  <2>4. InLoop'
    BY <2>1, <2>3 DEF InLoop
  <2> QED BY <1>1, <2>1, <2>2, <2>4 DEF Same
<1>3. ASSUME NEW i \in Merge!Merged, Merge!EditItem(i) PROVE MergeInv'
  <2>1. i \in Records /\ item[i] \in Record
    BY <1>1 DEF Records, MergeTypeOK
  <2>2. PICK r \in Record : item' = [item EXCEPT ![i] = r]
    <3>1. ASSUME NEW t \in Tags, item' = [item EXCEPT ![i].tags = IF t \in @ THEN @ \ {t} ELSE @ \cup {t}]
          PROVE  \E r \in Record : item' = [item EXCEPT ![i] = r]
      <4> DEFINE tags == IF t \in item[i].tags THEN item[i].tags \ {t} ELSE item[i].tags \cup {t}
      <4>1. tags \subseteq Tags \cup {t1}
        BY <2>1 DEF Record
      <4>2. item' = [item EXCEPT ![i] = [item[i] EXCEPT !.tags = tags]]
        BY <3>1
      <4> HIDE DEF tags
      <4>3. [item[i] EXCEPT !.tags = tags] \in Record
        BY <2>1, <4>1 DEF Record
      <4> QED BY <4>2, <4>3
    <3>2. ASSUME NEW a \in Abstracts, item' = [item EXCEPT ![i].abstract = a]
          PROVE  \E r \in Record : item' = [item EXCEPT ![i] = r]
      <4>1. item' = [item EXCEPT ![i] = [item[i] EXCEPT !.abstract = a]]
        BY <3>2
      <4>2. [item[i] EXCEPT !.abstract = a] \in Record
        BY <2>1 DEF Record
      <4> QED BY <4>1, <4>2
    <3>3. ASSUME item' = [item EXCEPT ![i].live = FALSE]
          PROVE  \E r \in Record : item' = [item EXCEPT ![i] = r]
      <4>1. item' = [item EXCEPT ![i] = [item[i] EXCEPT !.live = FALSE]]
        BY <3>3
      <4>2. [item[i] EXCEPT !.live = FALSE] \in Record
        BY <2>1 DEF Record
      <4> QED BY <4>1, <4>2
    <3> QED BY <1>3, <3>1, <3>2, <3>3 DEF Merge!EditItem
  <2>3. item' \in [Records -> Record] /\ \A j \in Records \ {i} : item'[j] = item[j]
    BY <1>1, <2>1, <2>2 DEF MergeTypeOK
  <2>4. Merge!Edited(i) /\ parent' = parent
    BY <1>3 DEF Merge!EditItem
  <2> QED BY <1>1, <1>2, <2>3, <2>4, StepKeeps DEF MergeTypeOK
<1>4. ASSUME NEW k \in Kids, Merge!EditChild(k) PROVE MergeInv'
  <2>1. PICK to \in {None} \cup Records : parent' = [parent EXCEPT ![k] = to]
    BY <1>4 DEF Merge!EditChild, Records
  <2>2. parent' \in [Kids -> Records \cup {None, d1, d2}] /\ \A c \in Kids \ {k} : parent'[c] = parent[c]
    BY <1>1, <2>1 DEF MergeTypeOK
  <2>3. Merge!Edited(k) /\ item' = item
    BY <1>4 DEF Merge!EditChild
  <2> QED BY <1>1, <1>2, <2>2, <2>3, StepKeeps DEF MergeTypeOK
<1> QED BY <1>3, <1>4

LEMMA MergeInvKept == MergeInv /\ [Next]_vars => MergeInv'
<1> SUFFICES ASSUME MergeInv, [Next]_vars PROVE MergeInv'
  OBVIOUS
<1>1. CASE UNCHANGED mergeVars
  <2>1. UNCHANGED <<item, parent, fresh, previewed, quiet, userEdits, merge>>
    BY <1>1 DEF mergeVars
  <2> QED BY <2>1 DEF MergeInv, MergeTypeOK, FreshIsRead, InLoop, Absorbed, StillEmpty, AsApproved, Merge!KidsOf
<1>2. CASE Merge!MergeNext
  BY <1>2, ReadMasterKeeps, PreviewKeeps, ApproveKeeps, ReadMasterAgainKeeps, PatchMasterKeeps, ReadDuplicateKeeps,
     ListChildrenKeeps, AskOtherKeeps, ListAgainKeeps, TrashKeeps, MoveKeeps, ReadChildAgainKeeps, EditKeeps DEF Merge!MergeNext
<1> QED BY <1>1, <1>2 DEF Next, vars

\* What the steps of a merge do to the library.
LEMMA TrashIs ==
  ASSUME MergeInv, ~OnCloud, NEW d \in Dups, Merge!Trash(d), NEW e \in Dups, Merge!Trashes(e)
  PROVE  /\ Merge!KidsOf(e) = {}
         /\ item[e].tags \subseteq merge.wrote.tags /\ (item[e].abstract # None => merge.wrote.abstract # None)
         /\ merge.expect.is = "approved" /\ e \in merge.expect.dups => e \in previewed
<1>1. MergeTypeOK /\ merge.at = "emptied" /\ merge.on = d
  BY DEF Merge!Trash, Merge!At, MergeInv
<1>2. e \in Records /\ item \in [Records -> Record]
  BY <1>1, Apart DEF MergeTypeOK
<1>3. e = d /\ Merge!Pinned(d)
  BY <1>2 DEF Merge!Trash, Merge!Trashes, Merge!Reads, Merge!libraryVars
<1>4. d \in fresh /\ quiet
  BY <1>3 DEF Merge!Pinned
<1>5. d \in DOMAIN merge.read \ {Master}
  BY <1>1 DEF MergeInv, InLoop, TrashingStage
<1>6. merge.read[d] = item[d]
  BY <1>4, <1>5 DEF MergeInv, FreshIsRead
<1>7. Merge!KidsOf(d) = {}
  BY <1>1, <1>4 DEF MergeInv, StillEmpty
<1>8. item[d].tags \subseteq merge.wrote.tags /\ (item[d].abstract # None => merge.wrote.abstract # None)
  BY <1>1, <1>5, <1>6 DEF MergeInv, Absorbed, TrashingStage
<1>9. merge.expect.is = "approved" /\ d \in merge.expect.dups => d \in previewed
  BY <1>1, <1>4 DEF MergeInv, AsApproved, ApprovedStage, TrashingStage
<1> QED BY <1>3, <1>7, <1>8, <1>9

\* A child that moves is where it was listed, and the preview listed it.
LEMMA MoveIs ==
  ASSUME MergeInv, NEW k \in Kids, Merge!MoveChild(k) \/ Merge!MoveChildAgain(k), NEW c \in Kids, parent'[c] # parent[c]
  PROVE  /\ parent[c] = merge.children[c]
         /\ merge.expect.is = "approved" => c \in DOMAIN merge.expect.children
<1>1. MergeTypeOK /\ merge.at \in MovingStage
  BY DEF Merge!MoveChild, Merge!MoveChildAgain, Merge!At, MergeInv, MovingStage
<1>2. PICK conflict : Merge!PatchChild(k, conflict)
  BY DEF Merge!MoveChild, Merge!MoveChildAgain
<1>3. c = k /\ k \in fresh /\ k \in merge.todo
  BY <1>1, <1>2 DEF Merge!PatchChild, Merge!Accepted, Merge!Reads, Merge!libraryVars, MergeTypeOK
<1>4. k \in DOMAIN merge.children
  BY <1>1, <1>3 DEF MergeInv, InLoop
<1> QED BY <1>1, <1>3, <1>4, StagesApproved DEF MergeInv, FreshIsRead, AsApproved

\* The master keeps the tags and the field it has.
LEMMA PatchKeeps ==
  ASSUME MergeInv, NEW stage \in {"patch", "repatch"}, NEW conflict, Merge!PatchMaster(stage, conflict)
  PROVE  /\ item[Master].tags \subseteq item'[Master].tags
         /\ item[Master].abstract \in {None, item'[Master].abstract}
         /\ parent' = parent /\ \A d \in Dups : item'[d] = item[d]
<1>1. MergeTypeOK /\ merge \in MergeJob /\ Master \in DOMAIN merge.read
  BY DEF Merge!PatchMaster, Merge!At, MergeInv, MergeTypeOK, InLoop
<1>2. Master \in Records /\ item[Master] \in Record /\ Dups \subseteq Records \ {Master}
  BY <1>1, Apart DEF MergeTypeOK
<1>3. CASE Merge!Reads
  BY <1>3 DEF Merge!Reads, Merge!libraryVars
<1>4. ASSUME Merge!Accepted(Master), UNCHANGED parent, NEW p \in Merge!Patches(merge.read[Master]),
             item' = [item EXCEPT ![Master] = [@ EXCEPT !.tags = p.tags, !.abstract = p.abstract]]
      PROVE  /\ item[Master].tags \subseteq item'[Master].tags
             /\ item[Master].abstract \in {None, item'[Master].abstract}
             /\ parent' = parent /\ \A d \in Dups : item'[d] = item[d]
  <2>1. merge.read[Master] = item[Master]
    BY <1>1, <1>4 DEF Merge!Accepted, MergeInv, FreshIsRead
  <2>2. item[Master].tags \subseteq p.tags /\ item[Master].abstract \in {None, p.abstract}
    BY <1>1, <1>2, <1>4, <2>1, PatchIs
  <2>3. /\ item'[Master] = [item[Master] EXCEPT !.tags = p.tags, !.abstract = p.abstract]
        /\ \A d \in Dups : item'[d] = item[d]
    BY <1>1, <1>2, <1>4 DEF MergeTypeOK
  <2>4. item'[Master].tags = p.tags /\ item'[Master].abstract = p.abstract
    BY <1>2, <2>3 DEF Record
  <2> QED BY <1>4, <2>2, <2>3, <2>4
<1> QED BY <1>3, <1>4 DEF Merge!PatchMaster

\* The other steps of a merge write nothing, and those of the user count.
LEMMA OthersWriteNothing ==
  ASSUME MergeInv, Merge!MergeNext, userEdits' = userEdits
  PROVE  \/ item' = item /\ parent' = parent
         \/ \E d \in Dups : Merge!Trash(d)
         \/ \E k \in Kids : Merge!MoveChild(k) \/ Merge!MoveChildAgain(k)
         \/ \E stage \in {"patch", "repatch"}, conflict \in {"reread", "done"} : Merge!PatchMaster(stage, conflict)
<1>1. ASSUME NEW r PROVE ~Merge!Edited(r)
  BY DEF Merge!Edited, MergeInv, MergeTypeOK
<1>2. ~(\E i \in Merge!Merged : Merge!EditItem(i)) /\ ~(\E k \in Kids : Merge!EditChild(k))
  BY <1>1 DEF Merge!EditItem, Merge!EditChild
<1>3. CASE Merge!ReadMaster \/ Merge!Preview \/ Merge!Approve \/ Merge!ReadMasterAgain
  BY <1>3 DEF Merge!ReadMaster, Merge!Preview, Merge!Approve, Merge!ReadMasterAgain, Merge!Reads, Merge!libraryVars
<1>4. CASE \E d \in Dups : Merge!ReadDuplicate(d) \/ Merge!ListChildren(d) \/ Merge!AskOther(d) \/ Merge!ListAgain(d)
  BY <1>4 DEF Merge!ReadDuplicate, Merge!ListChildren, Merge!AskOther, Merge!ListAgain, Merge!Reads, Merge!libraryVars
<1>5. CASE \E k \in Kids : Merge!ReadChildAgain(k)
  BY <1>5 DEF Merge!ReadChildAgain, Merge!Reads, Merge!libraryVars
<1> QED BY <1>2, <1>3, <1>4, <1>5 DEF Merge!MergeNext

\* What a step of the merge, not of the user, does to the library is what it may do.
MayDo ==
  userEdits' = userEdits =>
    /\ \A d \in Dups : Merge!Trashes(d) =>
         /\ Merge!KidsOf(d) = {}
         /\ item[d].tags \subseteq merge.wrote.tags /\ (item[d].abstract # None => merge.wrote.abstract # None)
         /\ merge.expect.is = "approved" /\ d \in merge.expect.dups => d \in previewed
    /\ item[Master].tags \subseteq item'[Master].tags
    /\ item[Master].abstract \in {None, item'[Master].abstract}
    /\ \A k \in Kids : parent'[k] # parent[k] =>
         /\ parent[k] = merge.children[k]
         /\ merge.expect.is = "approved" => k \in DOMAIN merge.expect.children

LEMMA StepMayDo == ASSUME ~OnCloud, MergeInv, Merge!MergeNext PROVE MayDo
<1> SUFFICES ASSUME userEdits' = userEdits PROVE MayDo
  BY DEF MayDo
<1>1. MergeTypeOK
  BY DEF MergeInv
<1>2. CASE item' = item /\ parent' = parent
  BY <1>2 DEF MayDo, Merge!Trashes
<1>3. ASSUME NEW d \in Dups, Merge!Trash(d) PROVE MayDo
  <2>1. \A e \in Dups : Merge!Trashes(e) =>
         /\ Merge!KidsOf(e) = {}
         /\ item[e].tags \subseteq merge.wrote.tags /\ (item[e].abstract # None => merge.wrote.abstract # None)
         /\ merge.expect.is = "approved" /\ e \in merge.expect.dups => e \in previewed
    BY <1>3, TrashIs
  <2>2. parent' = parent /\ item'[Master] = item[Master]
    BY <1>1, <1>3, Apart DEF Merge!Trash, Merge!Reads, Merge!libraryVars, MergeTypeOK
  <2> QED BY <2>1, <2>2 DEF MayDo
<1>4. ASSUME NEW k \in Kids, Merge!MoveChild(k) \/ Merge!MoveChildAgain(k) PROVE MayDo
  <2>1. item' = item
    BY <1>4 DEF Merge!MoveChild, Merge!MoveChildAgain, Merge!PatchChild, Merge!Reads, Merge!libraryVars
  <2>2. \A c \in Kids : parent'[c] # parent[c] =>
         /\ parent[c] = merge.children[c]
         /\ merge.expect.is = "approved" => c \in DOMAIN merge.expect.children
    BY <1>4, MoveIs
  <2> QED BY <2>1, <2>2 DEF MayDo, Merge!Trashes
<1>5. ASSUME NEW stage \in {"patch", "repatch"}, NEW conflict \in {"reread", "done"}, Merge!PatchMaster(stage, conflict)
      PROVE  MayDo
  BY <1>5, PatchKeeps DEF MayDo, Merge!Trashes
<1> QED BY <1>2, <1>3, <1>4, <1>5, OthersWriteNothing

LEMMA MergeInvAlways == Spec => []MergeInv
BY MergeStarts, MergeInvKept, PTL DEF Spec

\* A merge through the desktop app trashes no child, nothing the master did not absorb and
\* nothing the preview did not show as it is, whatever requests fail or lose their answer,
\* and what the user does meanwhile stands (tools/merge-items.ts:769).
THEOREM MergeKeepsAllHolds == ASSUME ~OnCloud PROVE Spec => MergeKeepsAll
<1> DEFINE NoChildGoes == \A d \in Dups : Merge!Trashes(d) => Merge!KidsOf(d) = {}
           Whole == \A d \in Dups : Merge!Trashes(d) =>
                      /\ item[d].tags \subseteq merge.wrote.tags
                      /\ item[d].abstract # None => merge.wrote.abstract # None
           EditsStand == userEdits' = userEdits =>
                           /\ item[Master].tags \subseteq item'[Master].tags
                           /\ item[Master].abstract \in {None, item'[Master].abstract}
                           /\ \A k \in Kids : parent'[k] # parent[k] => parent[k] = merge.children[k]
           Approved == merge.expect.is = "approved" /\ userEdits' = userEdits =>
                         /\ \A d \in merge.expect.dups : Merge!Trashes(d) => d \in previewed
                         /\ \A k \in Kids : parent'[k] # parent[k] => k \in DOMAIN merge.expect.children
           seen == <<item, parent, elsewhere, fresh, previewed, quiet, userEdits, merge>>
<1>1. ASSUME MergeInv, MayDo PROVE NoChildGoes /\ Whole /\ EditsStand /\ Approved
  <2>1. merge.expect.dups \subseteq Dups
    BY <1>1 DEF MergeInv, MergeTypeOK, MergeJob, Expected
  <2>2. NoChildGoes /\ Whole
    BY <1>1 DEF MayDo, Merge!Trashes
  <2>3. EditsStand
    BY <1>1 DEF MayDo
  <2>4. Approved
    BY <1>1, <2>1 DEF MayDo
  <2> QED BY <2>2, <2>3, <2>4
<1> HIDE DEF NoChildGoes, Whole, EditsStand, Approved
<1>2. MergeInv /\ [Next]_vars => [NoChildGoes]_seen /\ [Whole]_seen /\ [EditsStand]_seen /\ [Approved]_seen
  <2>1. CASE UNCHANGED mergeVars
    BY <2>1 DEF mergeVars
  <2>2. CASE Merge!MergeNext
    BY <1>1, <2>2, StepMayDo
  <2> QED BY <2>1, <2>2 DEF Next, vars
<1>3. Spec => [][NoChildGoes]_seen /\ [][Whole]_seen /\ [][EditsStand]_seen /\ [][Approved]_seen
  BY <1>2, MergeInvAlways, PTL DEF Spec
<1> QED BY <1>3 DEF NoChildGoes, Whole, EditsStand, Approved, MergeKeepsAll, Merge!MergeKeepsAll, Merge!NoChildTrashed,
                    Merge!AbsorbedWhole, Merge!UserEditsStand, Merge!ApprovedRecordsOnly, Merge!mergeVars
=============================================================================


