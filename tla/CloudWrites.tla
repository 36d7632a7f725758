---------------------------- MODULE CloudWrites ----------------------------
(***************************************************************************)
(* The write tools on zotero.org (api/web-client.ts, writes): objects are  *)
(* created and edited in batches, a batch of new ones under a write token, *)
(* edited ones each at the version it was read at; deletions name the      *)
(* library's version; a tag is added to, and a note rewritten from, the    *)
(* item as read.  A file becomes an attachment in several requests, first  *)
(* tried on the desktop app (tools/attach-file.ts).  Meanwhile others edit *)
(* the library, requests are lost before or after they take effect, and    *)
(* the fetcher repeats one that was answered 503 after it took effect.     *)
(*                                                                         *)
(* The text of an item is what of each writer is in it: tags, or the       *)
(* paragraphs of a note.                                                   *)
(***************************************************************************)
EXTENDS Naturals, Sequences, FiniteSets

CONSTANTS
  Jobs,         \* calls of write tools
  Records,      \* items they edit
  Works,        \* what a call may be: its kind and the items it is given
  Batch,        \* objects to a request (fifty)
  MaxMishaps,   \* bound: edits by others, lost requests, late 503s
  AnswersAfter, \* kinds whose request may be answered 503 after it took effect
  Other         \* who edits with another client

VARIABLES
  cloud,    \* the library's version, and its items
  made,     \* made[place][c][n]: how often the n-th object of call c was created
  filed,    \* the calls whose file is stored, and where
  job,      \* the calls
  reported, \* what onWrite was told each call wrote
  unseen,   \* ghost: calls that discarded what they had not read
  mishaps

cloudVars == <<cloud, made, filed, job, reported, unseen, mishaps>>

CloudAssumption ==
  /\ Batch \in Nat \ {0} /\ MaxMishaps \in Nat
  /\ Other \notin Jobs

Places == {"cloud", "desktop"}
Writers == Jobs \cup {Other}
Objects == 1..2
Texts == [Writers -> 0..2]
Nobody == [w \in Writers |-> 0]

Kinds == {"create", "trash", "delete", "tag", "append", "replace", "attach"}
Steps == {"idle", "desktop", "upload", "read", "send", "authorize", "bytes", "register",
          "done", "failed"}

NoWork == [kind |-> "create", items |-> <<>>]

\* seen: each item as the call read it; pin: the version its caller read, or 0;
\* told, refused: the positions it reports as written and as failed; late: a request
\* of it took effect and was answered 503.
Idle == [work |-> NoWork, pc |-> "idle", at |-> 1, seen |-> [i \in Records |-> [text |-> Nobody, ver |-> 0]],
         lib |-> 0, pin |-> 0, again |-> FALSE, late |-> FALSE, told |-> {}, refused |-> {}]

CloudTypeOK ==
  /\ cloud \in [lib : Nat, item : [Records -> [text : Texts, ver : Nat, there : BOOLEAN, trashed : BOOLEAN]]]
  /\ made \in [Places -> [Jobs -> [Objects -> 0..2]]]
  /\ filed \in [Jobs -> SUBSET Places]
  /\ job \in [Jobs -> [work : Works \cup {NoWork}, pc : Steps, at : Nat,
                       seen : [Records -> [text : Texts, ver : Nat]], lib : Nat, pin : Nat,
                       again : BOOLEAN, late : BOOLEAN, told : SUBSET Objects, refused : SUBSET Objects]]
  /\ reported \in [Jobs -> SUBSET Objects]
  /\ unseen \subseteq Jobs
  /\ mishaps \in 0..MaxMishaps

CloudInit ==
  /\ cloud = [lib |-> 1, item |-> [i \in Records |->
                [text |-> Nobody, ver |-> 1, there |-> TRUE, trashed |-> FALSE]]]
  /\ made = [p \in Places |-> [c \in Jobs |-> [n \in Objects |-> 0]]]
  /\ filed = [c \in Jobs |-> {}]
  /\ job = [c \in Jobs |-> Idle]
  /\ reported = [c \in Jobs |-> {}]
  /\ unseen = {}
  /\ mishaps = 0

library == <<cloud, made, filed, reported, unseen>>

Kind(c) == job[c].work.kind
Given(c) == job[c].work.items
Item(c) == Given(c)[job[c].at]
InStep(c, s) == job[c].pc = s
Amount(c) == IF Kind(c) = "attach" THEN 1 ELSE Len(Given(c))

Mishap == mishaps < MaxMishaps /\ mishaps' = mishaps + 1

\* Another client adds to an item.
OtherEdits(i) ==
  /\ Mishap
  /\ cloud.item[i].there /\ cloud.item[i].text[Other] = 0
  /\ cloud' = [lib |-> cloud.lib + 1,
               item |-> [cloud.item EXCEPT ![i].text[Other] = 1, ![i].ver = cloud.lib + 1]]
  /\ UNCHANGED <<made, filed, job, reported, unseen>>

-----------------------------------------------------------------------------
(* The tools: what a call reads before it writes.                          *)

\* A note may be replaced at the version its caller has read it at.
Begin(c, work, pinned) ==
  /\ InStep(c, "idle")
  /\ pinned => work.kind = "replace"
  /\ job' = [job EXCEPT ![c] =
       [Idle EXCEPT !.work = work,
          !.pc = CASE work.kind = "create" -> "send" [] work.kind = "attach" -> "desktop" [] OTHER -> "read",
          !.pin = IF pinned THEN cloud.item[work.items[1]].ver ELSE 0,
          !.seen = IF pinned THEN [i \in Records |-> [text |-> cloud.item[i].text, ver |-> cloud.item[i].ver]]
                   ELSE Idle.seen]]
  /\ UNCHANGED <<library, mishaps>>

OneByOne == {"tag", "append", "replace"}

\* The call ends, or a loop over items goes on with the next.
Goes(c, told, refused) ==
  IF Kind(c) = "tag" /\ job[c].at < Len(Given(c))
  THEN [job[c] EXCEPT !.pc = "read", !.at = @ + 1, !.told = told, !.refused = refused]
  ELSE [job[c] EXCEPT !.pc = IF Kind(c) # "tag" /\ refused # {} THEN "failed" ELSE "done",
                      !.told = told, !.refused = refused]

Written(c) == Goes(c, job[c].told \cup {job[c].at}, job[c].refused)
Refused(c) == Goes(c, job[c].told, job[c].refused \cup {job[c].at})

\* What a caller pinned is what it has read, whatever the tool reads now.
AsRead(c) == [job[c].seen EXCEPT ![Item(c)] =
                [text |-> IF job[c].pin = 0 THEN cloud.item[Item(c)].text ELSE @.text,
                 ver |-> cloud.item[Item(c)].ver]]

\* A deletion reads the library's version; trashing reads every item before it
\* writes, the others read the one they write next.  A pin the item has moved
\* from is refused here already.
Read(c) ==
  /\ InStep(c, "read")
  /\ job' = [job EXCEPT ![c] =
       CASE Kind(c) = "delete" ->
              [job[c] EXCEPT !.pc = "send", !.lib = cloud.lib,
                        !.seen = [i \in Records |-> [text |-> cloud.item[i].text, ver |-> cloud.item[i].ver]]]
         [] Kind(c) # "delete" /\ ~cloud.item[Item(c)].there ->
              IF Kind(c) = "trash" THEN [job[c] EXCEPT !.pc = "failed"] ELSE Refused(c)
         [] Kind(c) = "trash" /\ cloud.item[Item(c)].there ->
              IF job[c].at < Len(Given(c))
              THEN [job[c] EXCEPT !.seen = AsRead(c), !.at = @ + 1]
              ELSE [job[c] EXCEPT !.seen = AsRead(c), !.at = 1, !.pc = "send"]
         [] Kind(c) \in OneByOne /\ cloud.item[Item(c)].there ->
              IF ~job[c].again /\ job[c].pin \notin {0, cloud.item[Item(c)].ver} THEN Refused(c)
              ELSE [job[c] EXCEPT !.seen = AsRead(c), !.pc = "send"]]
  /\ UNCHANGED <<library, mishaps>>

-----------------------------------------------------------------------------
(* What zotero.org does with a request.                                    *)

\* The positions of the objects in the request.
Sent(c) ==
  CASE Kind(c) \in OneByOne -> {job[c].at}
    [] OTHER -> {n \in job[c].at..Amount(c) : n < job[c].at + Batch}

\* An append starts from the note as read, also when it is tried again.
NewText(c, i) ==
  LET old == job[c].seen[i].text IN
  CASE Kind(c) = "tag" -> [old EXCEPT ![c] = 1]
    [] Kind(c) = "append" -> [old EXCEPT ![c] = IF @ < 2 THEN @ + 1 ELSE @]
    [] Kind(c) = "replace" -> [Nobody EXCEPT ![c] = 1]
    [] OTHER -> cloud.item[i].text

\* Of the objects of the request, those that are taken: new ones unless the
\* token of the request was used, edited ones that have not moved.
Taken(c) ==
  CASE Kind(c) \in {"create", "attach"} -> IF job[c].again THEN {} ELSE Sent(c)
    [] Kind(c) = "delete" -> IF job[c].lib = cloud.lib THEN Sent(c) ELSE {}
    [] OTHER -> {n \in Sent(c) : /\ cloud.item[Given(c)[n]].there
                                 /\ cloud.item[Given(c)[n]].ver = job[c].seen[Given(c)[n]].ver}

\* A whole request is refused, or its objects one by one.
RefusedWhole(c) == Kind(c) # "trash" /\ Taken(c) = {}

Edited(c, takes) == {Given(c)[n] : n \in takes}

\* Another's words that go, and were not in the item when it was read.
Discards(c, i) ==
  /\ Kind(c) # "trash"
  /\ \E w \in Writers : /\ cloud.item[i].text[w] > 0 /\ job[c].seen[i].text[w] = 0
                        /\ Kind(c) = "delete" \/ NewText(c, i)[w] = 0

Apply(c, takes) ==
  IF Kind(c) \in {"create", "attach"}
  THEN /\ made' = [made EXCEPT !["cloud"][c] = [n \in Objects |-> @[n] + (IF n \in takes THEN 1 ELSE 0)]]
       /\ UNCHANGED <<cloud, unseen>>
  ELSE /\ cloud' = IF takes = {} THEN cloud ELSE
            [lib |-> cloud.lib + 1,
             item |-> [i \in Records |->
               IF i \notin Edited(c, takes) THEN cloud.item[i] ELSE
               [text |-> NewText(c, i), ver |-> cloud.lib + 1, there |-> Kind(c) # "delete",
                trashed |-> cloud.item[i].trashed \/ Kind(c) = "trash"]]]
       /\ unseen' = IF \E i \in Edited(c, takes) : Discards(c, i) THEN unseen \cup {c} ELSE unseen
       /\ UNCHANGED made

-----------------------------------------------------------------------------
(* What the tool makes of the answer.                                      *)

\* Seeded fault: a conflict is met with the text of the first reading.
Reread_VersionOnly(c) == [job[c] EXCEPT !.again = TRUE,
                                        !.seen[Item(c)].ver = cloud.item[Item(c)].ver]

\* A conflict: the note is read again, and what is appended is appended to that.
Reread(c) == [job[c] EXCEPT !.pc = "read", !.again = TRUE]

\* Seeded fault: a pinned version is forgotten once it was refused.
MayReread_Pinned(c) == Kind(c) \in {"append", "replace"} /\ ~job[c].again

\* Once, and only when no version was asked for.
MayReread(c) ==
  Kind(c) \in {"append", "replace"} /\ job[c].pin = 0 /\ ~job[c].again

\* An error, with or without an answer, ends the call, its batches that were
\* taken included; of a loop it is that item's failure.
Fails(c) ==
  CASE Kind(c) \in OneByOne -> Refused(c)
    [] OTHER -> [job[c] EXCEPT !.pc = "failed"]

\* Seeded fault: a batch's failures are counted from its own start.
Positions_OfBatch(c, ns) == {n - job[c].at + 1 : n \in ns}

\* mergeWriteBody(): positions in a batch become positions in the call.
Positions(c, ns) == ns

\* Seeded fault: what the last batch wrote is what the call wrote.
Reports_LastBatch(c, takes) == Positions(c, takes)

\* onWrite hears of a call's batches together, when the last was answered.
Reports(c, takes) == job[c].told \cup Positions(c, takes)

\* A POST was answered: the next batch, or the call returns.
BatchAnswered(c, takes) ==
  LET told == job[c].told \cup Positions(c, takes)
      refused == job[c].refused \cup Positions(c, Sent(c) \ takes)
      next == job[c].at + Batch
  IN  IF next <= Amount(c)
      THEN [job[c] EXCEPT !.told = told, !.refused = refused, !.at = next, !.again = FALSE]
      ELSE [job[c] EXCEPT !.told = told, !.refused = refused,
                          !.pc = IF Kind(c) = "attach" THEN (IF takes = {} THEN "failed" ELSE "authorize")
                                 ELSE "done"]

Answered(c, takes) ==
  IF Kind(c) \in OneByOne THEN Written(c) ELSE BatchAnswered(c, takes)

LastRequest(c) == Kind(c) \in OneByOne \/ job[c].at + Batch > Amount(c)

\* The request is carried out, as a whole or without an object that is not
\* valid, and answered.
Served(c) ==
  /\ InStep(c, "send")
  /\ ~RefusedWhole(c)
  /\ \E takes \in SUBSET Taken(c) :
       /\ takes = Taken(c) \/ Kind(c) \in {"create", "attach"}
       /\ Apply(c, takes)
       /\ job' = [job EXCEPT ![c] = Answered(c, takes)]
       /\ reported' = IF LastRequest(c) THEN [reported EXCEPT ![c] = @ \cup Reports(c, takes)]
                      ELSE reported
  /\ UNCHANGED <<filed, mishaps>>

Conflicts(c) ==
  /\ InStep(c, "send")
  /\ RefusedWhole(c)
  /\ job' = [job EXCEPT ![c] = IF MayReread(c) THEN Reread(c) ELSE Fails(c)]
  /\ UNCHANGED <<library, mishaps>>

\* No answer comes, whether the request arrived or not.
Unanswered(c) ==
  /\ InStep(c, "send")
  /\ Mishap
  /\ \/ UNCHANGED <<cloud, made, unseen>>
     \/ ~RefusedWhole(c) /\ Apply(c, Taken(c))
  /\ job' = [job EXCEPT ![c] = Fails(c)]
  /\ UNCHANGED <<filed, reported>>

\* Seeded fault: every attempt has a token of its own.
Repeats_NewToken(c) == [job[c] EXCEPT !.late = TRUE]

\* The fetcher sends the very same request again: its token with it.  An append has
\* none, and finds its own write in its way.
Repeats(c) ==
  [job[c] EXCEPT !.late = TRUE, !.again = @ \/ Kind(c) \in {"create", "attach"}]

Busy(c) ==
  /\ InStep(c, "send")
  /\ Kind(c) \in AnswersAfter
  /\ Mishap
  /\ ~RefusedWhole(c)
  /\ Apply(c, Taken(c))
  /\ job' = [job EXCEPT ![c] = Repeats(c)]
  /\ UNCHANGED <<filed, reported>>

-----------------------------------------------------------------------------
(* Attachments.                                                            *)

\* Seeded fault: a file that could not be stored sends the call to the cloud.
DesktopUploadFails_StartsOver(c) == [job[c] EXCEPT !.pc = "send"]

\* AttachmentUploadError: the item is there, so nothing else is tried.
DesktopUploadFails(c) == [job[c] EXCEPT !.pc = "failed"]

\* storeLocalAttachment(): the item, then its file.
DesktopCreates(c) ==
  /\ InStep(c, "desktop")
  /\ made' = [made EXCEPT !["desktop"][c][1] = @ + 1]
  /\ \/ job' = [job EXCEPT ![c].pc = "upload"] /\ UNCHANGED mishaps
     \/ job' = [job EXCEPT ![c].pc = "failed"] /\ Mishap
  /\ UNCHANGED <<cloud, filed, reported, unseen>>

\* The desktop is not asked, or has no such endpoint; other refusals are final.
DesktopRefuses(c) ==
  /\ InStep(c, "desktop")
  /\ \E then \in {"send", "failed"} : job' = [job EXCEPT ![c].pc = then]
  /\ UNCHANGED <<library, mishaps>>

DesktopStores(c) ==
  /\ InStep(c, "upload")
  /\ \/ /\ filed' = [filed EXCEPT ![c] = @ \cup {"desktop"}]
        /\ job' = [job EXCEPT ![c].pc = "done"]
        /\ UNCHANGED mishaps
     \/ /\ Mishap
        /\ filed' \in {filed, [filed EXCEPT ![c] = @ \cup {"desktop"}]}
        /\ job' = [job EXCEPT ![c] = DesktopUploadFails(c)]
  /\ UNCHANGED <<cloud, made, reported, unseen>>

\* uploadAttachmentBytes(): permission, unless zotero.org has the file; the
\* bytes; and their registration, which is what puts the file on the item.
After(step) == CASE step = "authorize" -> "bytes" [] step = "bytes" -> "register" [] OTHER -> "done"

CloudStores(c) ==
  /\ job[c].pc \in {"authorize", "bytes", "register"}
  /\ \E exists \in {b \in BOOLEAN : b => InStep(c, "authorize")} :
       LET stored == exists \/ InStep(c, "register") IN
       \/ /\ filed' = IF stored THEN [filed EXCEPT ![c] = @ \cup {"cloud"}] ELSE filed
          /\ job' = [job EXCEPT ![c].pc = IF exists THEN "done" ELSE After(@)]
          /\ UNCHANGED mishaps
       \/ /\ Mishap
          /\ filed' \in {filed, IF stored THEN [filed EXCEPT ![c] = @ \cup {"cloud"}] ELSE filed}
          /\ job' = [job EXCEPT ![c].pc = "failed"]
  /\ UNCHANGED <<cloud, made, reported, unseen>>

JobStep(c) ==
  \/ Read(c) \/ Served(c) \/ Conflicts(c) \/ Unanswered(c) \/ Busy(c)
  \/ DesktopCreates(c) \/ DesktopRefuses(c) \/ DesktopStores(c) \/ CloudStores(c)

CloudNext ==
  \/ \E i \in Records : OtherEdits(i)
  \/ \E c \in Jobs : JobStep(c) \/ \E work \in Works, pinned \in BOOLEAN : Begin(c, work, pinned)

-----------------------------------------------------------------------------

\* A call that has not come to its end.
Unsettled(c) == job[c].pc \notin {"idle", "done", "failed"}

Ended(c, how) == job[c].pc = how

\* No write, deletion or retry discards what another put into an item after it
\* was read, or after the version its caller named (write-note.ts:104,
\* manage-tags.ts:84, web-client.ts:620).
NothingUnseenLost == unseen = {}

\* Each object is created once and each text appended once, however often the
\* request was sent, and an attachment is not left on both copies; only an append that
\* took effect and was answered 503 is made again, since its own write is the conflict
\* it meets (web-client.ts:661, attach-file.ts:276, write-note.ts:104).
CreatedOnce ==
  \A c \in Jobs :
    /\ \A n \in Objects : made["cloud"][c][n] + made["desktop"][c][n] <= 1
    /\ ~(Kind(c) = "append" /\ job[c].late) => \A i \in Records : cloud.item[i].text[c] <= 1

\* What a finished call says of its objects is so: those it names as written
\* are, those it names as failed are not, and the router was told of the first
\* (web-client.ts:690).
ResultHonest ==
  \A c \in Jobs : Ended(c, "done") =>
    /\ Kind(c) = "create" => /\ job[c].told = {n \in Objects : made["cloud"][c][n] = 1}
                             /\ reported[c] = job[c].told
                             /\ job[c].refused = (1..Amount(c)) \ job[c].told
    /\ Kind(c) = "trash" => /\ \A n \in job[c].told : cloud.item[Given(c)[n]].trashed
                            /\ reported[c] = job[c].told
    /\ Kind(c) = "delete" => /\ \A n \in 1..Amount(c) : ~cloud.item[Given(c)[n]].there
                             /\ reported[c] = 1..Amount(c)
    /\ Kind(c) = "attach" => \E p \in Places : filed[c] = {p} /\ made[p][c][1] = 1

\* No write of zotero.org is lost on others or made twice, and none misreported.
CloudHonest == CloudTypeOK /\ NothingUnseenLost /\ CreatedOnce /\ ResultHonest
=============================================================================
