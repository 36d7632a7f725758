--------------------------- MODULE DesktopWrites ---------------------------
(***************************************************************************)
(* Write tools on one library that two Zotero copies hold: the running     *)
(* desktop app, written through its local API (api/local-writes.ts), and   *)
(* zotero.org.  withLibraryWriter (tools/library-writer.ts) tries the      *)
(* desktop app first and starts the whole operation over on the cloud when *)
(* the app turns out not to take writes and nothing has landed on it.      *)
(*                                                                         *)
(* An operation is a sequence of calls of its writer: "tag" reads an item  *)
(* and patches it at the version it read (zotero_manage_tags, and          *)
(* zotero_manage_collections' membership), "update" is a patch that is     *)
(* tried again on the version another edit left (zotero_update_item),      *)
(* "create" posts new objects, fifty to a request.  Operations share the   *)
(* client's key and its memory of the running app.                         *)
(***************************************************************************)
EXTENDS Naturals, Sequences, FiniteSets

CONSTANTS
  Ops,        \* the operations
  Items,      \* items they edit
  Programs,   \* what an operation may be: the calls it makes, in order
  MaxGrants,  \* bound: keys the app hands out
  MaxFaults,  \* bound: edits in the app, revocations, restarts, lost answers
  User,       \* who edits in the app
  NoKey, NoItem

VARIABLES
  app,      \* the desktop app: the run of it, whether it takes writes, its keys
  copy,     \* both copies of the items: tags, and each item's version
  created,  \* created[c][o]: requests of o that created objects on copy c
  client,   \* LocalWriteClient: key, stored grant, serverId
  pending,  \* a cloud write waits for the app to sync it
  op,       \* the operations under way
  everTagged, \* ghost: everTagged[c][i], the tags copy c was ever given
  faults

WritesAssumption == MaxGrants \in Nat /\ MaxFaults \in Nat

vars == <<app, copy, created, client, pending, op, everTagged, faults>>

Copies == {"local", "cloud"}
GrantedKeys == 1..MaxGrants

Kinds == {"tag", "update", "create"}

\* A call of the writer, and how many requests it takes.
Call == [kind : Kinds, item : Items \cup {NoItem}, requests : Nat]

Phases == {"idle", "call", "prepare", "asking", "sent", "answered", "done", "failed"}
Answers == {"none", "ok", "401", "412", "missing", "lost", "denied"}

\* One operation: the copy its writer goes to, the call and the request of it
\* it is at, what it read, and the flags of request() and write().  Before: what
\* had been answered well of the call an operation started over from.
Op == [calls : Programs \cup {<<>>}, pc : Phases, target : Copies, at : Nat, batch : Nat, before : Nat,
       tags : SUBSET (Ops \cup {User}), ver : Nat,
       key : GrantedKeys \cup {NoKey}, sid : Nat,
       retried : BOOLEAN, reread : BOOLEAN, landed : BOOLEAN,
       wrote : SUBSET Copies, answer : Answers]

Fresh == [calls |-> <<>>, pc |-> "call", target |-> "local", at |-> 1, batch |-> 1, before |-> 0,
          tags |-> {}, ver |-> 0, key |-> NoKey, sid |-> 0,
          retried |-> FALSE, reread |-> FALSE, landed |-> FALSE,
          wrote |-> {}, answer |-> "none"]

WritesTypeOK ==
  /\ app \in [run : Nat, writes : BOOLEAN, keys : SUBSET GrantedKeys, once : SUBSET GrantedKeys,
              granted : 0..MaxGrants]
  /\ copy \in [Copies -> [Items -> [tags : SUBSET (Ops \cup {User}), ver : Nat]]]
  /\ created \in [Copies -> [Ops -> Nat]]
  /\ client \in [key : GrantedKeys \cup {NoKey}, stored : GrantedKeys \cup {NoKey}, serverId : Nat]
  /\ pending \in BOOLEAN
  /\ op \in [Ops -> Op]
  /\ everTagged \in [Copies -> [Items -> SUBSET (Ops \cup {User})]]
  /\ faults \in 0..MaxFaults

Init ==
  /\ app = [run |-> 1, writes |-> TRUE, keys |-> {}, once |-> {}, granted |-> 0]
  /\ copy = [c \in Copies |-> [i \in Items |-> [tags |-> {}, ver |-> 1]]]
  /\ created = [c \in Copies |-> [o \in Ops |-> 0]]
  /\ client = [key |-> NoKey, stored |-> NoKey, serverId |-> 0]
  /\ pending = FALSE
  /\ op = [o \in Ops |-> [Fresh EXCEPT !.pc = "idle"]]
  /\ everTagged = [c \in Copies |-> [i \in Items |-> {}]]
  /\ faults = 0

world == <<app, copy, created, everTagged>>
At(o) == op[o].calls[op[o].at]
InPhase(o, p) == op[o].pc = p

-----------------------------------------------------------------------------
(* The copies.                                                             *)

\* What a request of o's current call does to copy c.
Apply(o, c) ==
  LET call == At(o) IN
  \/ /\ call.kind = "create"
     /\ created' = [created EXCEPT ![c][o] = @ + 1]
     /\ UNCHANGED <<copy, everTagged>>
  \/ /\ call.kind = "tag"
     /\ copy' = [copy EXCEPT ![c][call.item] =
                   [tags |-> op[o].tags \cup {o}, ver |-> @.ver + 1]]
     /\ everTagged' = [everTagged EXCEPT ![c][call.item] = @ \cup {o}]
     /\ UNCHANGED created
  \/ /\ call.kind = "update"
     /\ copy' = [copy EXCEPT ![c][call.item].ver = @ + 1]
     /\ UNCHANGED <<created, everTagged>>

\* An edit is taken only on the version it names.
Current(o, c) ==
  IF At(o).kind = "create" THEN TRUE ELSE copy[c][At(o).item].ver = op[o].ver

Fault == faults < MaxFaults /\ faults' = faults + 1

\* The user tags an item in the app.
EditInApp(i) ==
  /\ Fault
  /\ User \notin copy["local"][i].tags
  /\ copy' = [copy EXCEPT !["local"][i] = [tags |-> @.tags \cup {User}, ver |-> @.ver + 1]]
  /\ everTagged' = [everTagged EXCEPT !["local"][i] = @ \cup {User}]
  /\ UNCHANGED <<app, created, client, pending, op>>

\* The user revokes the keys in the app's settings.
Revoke ==
  /\ Fault
  /\ app.keys # {}
  /\ app' = [app EXCEPT !.keys = {}]
  /\ UNCHANGED <<copy, created, client, pending, op, everTagged>>

\* The app is started again, in a version that may not take writes.
Restart(writes) ==
  /\ Fault
  /\ app.writes
  /\ app' = [app EXCEPT !.run = @ + 1, !.writes = writes, !.keys = @ \ app.once]
  /\ UNCHANGED <<copy, created, client, pending, op, everTagged>>

\* The desktop app has synced what the cloud took.
Sync ==
  /\ pending
  /\ pending' = FALSE
  /\ UNCHANGED <<world, client, op, faults>>

\* The locals of a request, of a call and of an operation that is over.
AfterRequest(o) == [op[o] EXCEPT !.key = NoKey, !.sid = 0, !.answer = "none"]
AfterCall(o) == [AfterRequest(o) EXCEPT !.batch = 1, !.tags = {}, !.ver = 0, !.retried = FALSE]
Ended(o, how) == [Fresh EXCEPT !.pc = how, !.calls = op[o].calls, !.target = op[o].target,
                               !.before = op[o].before, !.wrote = op[o].wrote]

\* The next call, or the operation has made all its calls.
Proceeds(o) ==
  IF op[o].at < Len(op[o].calls) THEN [AfterCall(o) EXCEPT !.pc = "call", !.at = @ + 1]
  ELSE Ended(o, "done")

-----------------------------------------------------------------------------
(* withLibraryWriter and the tools' loops.                                 *)

\* desktopTakesWrites(), with a serverId that is cached once seen.
DesktopTakesWrites == ~pending /\ (client.serverId # 0 \/ app.writes)

Begin(o, calls) ==
  /\ InPhase(o, "idle")
  /\ op' = [op EXCEPT ![o] =
              [Fresh EXCEPT !.calls = calls,
                            !.target = IF DesktopTakesWrites THEN "local" ELSE "cloud"]]
  /\ client' = [client EXCEPT !.serverId =
                  IF ~pending /\ @ = 0 /\ app.writes THEN app.run ELSE @]
  /\ UNCHANGED <<world, pending, faults>>

\* The next call: a tag or an update reads its item from the copy the write
\* will go to.
ReadItem(o) ==
  /\ InPhase(o, "call")
  /\ LET c == op[o].target IN
     op' = [op EXCEPT ![o] =
              [@ EXCEPT !.pc = "prepare", !.batch = 1, !.retried = FALSE,
                        !.tags = IF At(o).kind = "tag" THEN copy[c][At(o).item].tags ELSE {},
                        !.ver = IF At(o).kind = "create" THEN 0 ELSE copy[c][At(o).item].ver]]
  /\ UNCHANGED <<world, client, pending, faults>>

\* Seeded fault: anything but a plain success is read as "no local writes".
Unavailable_AnyFailure(answer) == answer # "denied"

\* isLocalWritesUnavailable(): the endpoint is missing, or a key that was
\* asked for again is still refused.
Unavailable(answer) == answer \in {"missing", "401"}

\* Seeded fault: what landed is forgotten.
Landed_Never(o) == FALSE

\* write(): has a call of this writer come back?  One of several requests has not
\* while the last is out, whatever the first ones did.
Landed(o) == op[o].landed

\* zotero_update_item tries once more, on the version it finds now.
Again(o) == At(o).kind = "update" /\ ~op[o].reread

\* The error of a call reaches the tool.  It starts the operation over on the
\* cloud, tries the update again, goes on with the next item of a loop, or
\* gives up.
CallFails(o, answer) ==
  \/ /\ op[o].target = "local" /\ Unavailable(answer) /\ ~Landed(o)
     /\ op' = [op EXCEPT ![o] = [Fresh EXCEPT !.calls = op[o].calls, !.target = "cloud",
                                           !.before = op[o].batch - 1,
                                           !.wrote = op[o].wrote]]
  \/ /\ ~(op[o].target = "local" /\ Unavailable(answer) /\ ~Landed(o))
     /\ \/ /\ answer = "412" /\ Again(o)
           /\ op' = [op EXCEPT ![o] = [AfterCall(o) EXCEPT !.pc = "call", !.reread = TRUE]]
        \/ /\ ~(answer = "412" /\ Again(o))
           /\ At(o).kind = "tag"
           /\ op' = [op EXCEPT ![o] = Proceeds(o)]
        \/ /\ ~(answer = "412" /\ Again(o))
           /\ At(o).kind # "tag"
           /\ op' = [op EXCEPT ![o] = Ended(o, "failed")]

\* A request was answered well: the next one of the same call, or the call
\* returns and the operation goes on.
RequestSucceeds(o) ==
  IF op[o].batch < At(o).requests
  THEN op' = [op EXCEPT ![o] = [AfterRequest(o) EXCEPT !.pc = "prepare", !.batch = @ + 1, !.retried = FALSE]]
  ELSE op' = [op EXCEPT ![o] = [Proceeds(o) EXCEPT !.landed = TRUE, !.reread = FALSE,
                                                   !.wrote = @ \cup {op[o].target}]]

-----------------------------------------------------------------------------
(* LocalWriteClient.request.                                               *)

\* ensureKey(): the key in hand, or the one a grant of the past left on disk.
KnownKey == IF client.key # NoKey THEN client.key ELSE client.stored

\* With a key the request goes out, under the key and the server id known now.
Prepare(o) ==
  /\ InPhase(o, "prepare") /\ op[o].target = "local"
  /\ \/ /\ KnownKey = NoKey
        /\ op' = [op EXCEPT ![o].pc = "asking"]
        /\ UNCHANGED client
     \/ /\ KnownKey # NoKey
        /\ client' = [client EXCEPT !.key = KnownKey]
        /\ op' = [op EXCEPT ![o] = [@ EXCEPT !.pc = "sent", !.key = KnownKey,
                                             !.sid = client.serverId]]
  /\ UNCHANGED <<world, pending, faults>>

\* authorize(): the user answers the app's dialog.
Authorize(o, remember) ==
  /\ InPhase(o, "asking")
  /\ app.writes /\ app.granted < MaxGrants
  /\ LET k == app.granted + 1 IN
     /\ app' = [app EXCEPT !.granted = k, !.keys = @ \cup {k},
                           !.once = IF remember THEN @ ELSE @ \cup {k}]
     /\ client' = [client EXCEPT !.key = k, !.stored = k, !.serverId = app.run]
  /\ op' = [op EXCEPT ![o].pc = "prepare"]
  /\ UNCHANGED <<copy, created, everTagged, pending, faults>>

\* The user denies it, or the app has no such endpoint.
AuthorizeFails(o) ==
  /\ InPhase(o, "asking")
  /\ CallFails(o, IF app.writes THEN "denied" ELSE "missing")
  /\ UNCHANGED <<world, client, pending, faults>>

\* The app judges a request: what it lacks, what it does not know, what moved.
Refusal(o) ==
  CASE ~app.writes -> "missing"
    [] app.writes /\ op[o].sid # app.run -> "412"
    [] app.writes /\ op[o].sid = app.run /\ op[o].key \notin app.keys -> "401"
    [] app.writes /\ op[o].sid = app.run /\ op[o].key \in app.keys /\ ~Current(o, "local") -> "412"
    [] OTHER -> "none"

\* A refused request changes nothing; a key for one use is used up by it not.
Refuse(o) ==
  /\ InPhase(o, "sent")
  /\ Refusal(o) # "none"
  /\ op' = [op EXCEPT ![o] = [@ EXCEPT !.pc = "answered", !.answer = Refusal(o)]]
  /\ UNCHANGED <<world, client, pending, faults>>

\* The app is not reached, which the client cannot tell from a lost answer.
Unreached(o) ==
  /\ InPhase(o, "sent")
  /\ Fault
  /\ op' = [op EXCEPT ![o] = [@ EXCEPT !.pc = "answered", !.answer = "lost"]]
  /\ UNCHANGED <<world, client, pending>>

\* The request is carried out; the answer may be lost, or come after the
\* client's time budget.
Serve(o) ==
  /\ InPhase(o, "sent")
  /\ Refusal(o) = "none"
  /\ Apply(o, "local")
  /\ app' = [app EXCEPT !.keys = IF op[o].key \in app.once THEN @ \ {op[o].key} ELSE @]
  /\ \/ op' = [op EXCEPT ![o] = [@ EXCEPT !.pc = "answered", !.answer = "ok"]] /\ UNCHANGED faults
     \/ op' = [op EXCEPT ![o] = [@ EXCEPT !.pc = "answered", !.answer = "lost"]] /\ Fault
  /\ UNCHANGED <<client, pending>>

\* Seeded fault: a retry may be retried.
MayRetry_Always(o) == TRUE

\* request() retries once.
MayRetry(o) == ~op[o].retried

\* Seeded fault: the retry names the version found now.
Resent_Unpinned(o) == [AfterRequest(o) EXCEPT !.pc = "prepare", !.retried = TRUE,
                                    !.ver = IF At(o).kind = "create" THEN 0
                                            ELSE copy["local"][At(o).item].ver]

\* The retry sends what was sent: a version named by the caller is a pin.
Resent(o) == [AfterRequest(o) EXCEPT !.pc = "prepare", !.retried = TRUE]

Succeeded(o) ==
  /\ InPhase(o, "answered") /\ op[o].answer = "ok"
  /\ RequestSucceeds(o)
  /\ UNCHANGED <<world, client, pending, faults>>

\* 401: the key is dropped, whoever set it meanwhile, and a new one asked for.
KeyRefused(o) ==
  /\ InPhase(o, "answered") /\ op[o].answer = "401"
  /\ MayRetry(o)
  /\ client' = [client EXCEPT !.key = NoKey]
  /\ op' = [op EXCEPT ![o] = [AfterRequest(o) EXCEPT !.pc = "asking", !.retried = TRUE]]
  /\ UNCHANGED <<world, pending, faults>>

\* 412: the running app is asked again who it is and where it stands.
ProbeAgain(o) ==
  /\ InPhase(o, "answered") /\ op[o].answer = "412"
  /\ MayRetry(o)
  /\ \/ /\ app.writes
        /\ client' = [client EXCEPT !.serverId = app.run]
        /\ op' = [op EXCEPT ![o] = Resent(o)]
     \/ /\ ~app.writes
        /\ CallFails(o, "missing")
        /\ UNCHANGED client
  /\ UNCHANGED <<world, pending, faults>>

GivesUp(o) ==
  /\ InPhase(o, "answered") /\ op[o].answer # "ok"
  /\ ~(op[o].answer \in {"401", "412"} /\ MayRetry(o))
  /\ CallFails(o, op[o].answer)
  /\ UNCHANGED <<world, client, pending, faults>>

-----------------------------------------------------------------------------

\* The same request on zotero.org, reported to the router when it is taken.
CloudRequest(o) ==
  /\ InPhase(o, "prepare") /\ op[o].target = "cloud"
  /\ \/ /\ Current(o, "cloud")
        /\ Apply(o, "cloud")
        /\ RequestSucceeds(o)
        /\ pending' = TRUE
     \/ /\ ~Current(o, "cloud")
        /\ CallFails(o, "412")
        /\ UNCHANGED <<copy, created, everTagged, pending>>
  /\ UNCHANGED <<app, client, faults>>

OpStep(o) ==
  \/ ReadItem(o) \/ Prepare(o) \/ Refuse(o) \/ Unreached(o) \/ Serve(o)
  \/ (\E remember \in BOOLEAN : Authorize(o, remember)) \/ AuthorizeFails(o)
  \/ Succeeded(o) \/ KeyRefused(o) \/ ProbeAgain(o) \/ GivesUp(o)
  \/ CloudRequest(o)

Environment ==
  \/ \E i \in Items : EditInApp(i)
  \/ Revoke
  \/ \E writes \in BOOLEAN : Restart(writes)
  \/ Sync

Next == Environment \/ \E o \in Ops : OpStep(o) \/ \E calls \in Programs : Begin(o, calls)

Spec == Init /\ [][Next]_vars

\* A request has a time budget, and so has the dialog.
FairSpec == Spec /\ \A o \in Ops : WF_vars(OpStep(o))

-----------------------------------------------------------------------------

AskedFor(o) == LET calls == op[o].calls IN
  IF calls # <<>> /\ calls[1].kind = "create" THEN calls[1].requests ELSE 0

\* What one operation creates, over both copies, is what was asked of it, whichever
\* requests were refused, retried or unanswered and wherever the operation started over;
\* only what had been created of the very call that broke off is created again, on the
\* cloud, and of calls that returned nothing is (library-writer.ts:107).
AppliedOnce ==
  \A o \in Ops :
    /\ created["local"][o] + created["cloud"][o] <= AskedFor(o) + op[o].before
    /\ op[o].before > 0 => op[o].target = "cloud" /\ op[o].before < AskedFor(o)

\* What an operation was told has landed is all on one copy
\* (library-writer.ts:107-111).
OneCopy == \A o \in Ops : Cardinality(op[o].wrote) <= 1 /\ op[o].wrote \subseteq {op[o].target}

\* No edit is lost: a tag that was given to an item, by the user in the app or
\* by an operation, stays, whoever else was between reading the item and
\* writing it (local-writes.ts:297-299).
TagsSurvive == \A c \in Copies, i \in Items : everTagged[c][i] \subseteq copy[c][i].tags

\* What is written is written once, in one place, over nobody's edit.
WritesLandOnce == WritesTypeOK /\ AppliedOnce /\ OneCopy /\ TagsSurvive

\* An operation that has not ended, as every one does.
Unsettled(o) == op[o].pc \notin {"idle", "done", "failed"}
=============================================================================
