---------------------------- MODULE MergeItems ----------------------------
(***************************************************************************)
(* zotero_merge_items (tools/merge-items.ts, features/dedupe/merge-plan.ts)*)
(* on the copy of the library it writes to: the records are read one by    *)
(* one, a plan is computed, and the master is patched, the children are    *)
(* moved and the duplicates are trashed, each in a request of its own,     *)
(* while the user goes on editing the same records.                        *)
(*                                                                         *)
(* A version is only ever compared: instead of numbers the model keeps     *)
(* which records are still as the merge last read them, which are still as *)
(* the preview showed them, and whether the library moved since a listing. *)
(* Any request may fail, and one that wrote may lose its answer.           *)
(***************************************************************************)
EXTENDS Integers, FiniteSets

CONSTANTS
  Master, Dups, Kids,
  Tags, Abstracts,   \* what tags and a field hold
  None,
  Libraries,         \* what a library holds at first
  OnCloud,           \* the merge writes through the Web API, not the desktop app's
  MaxEdits           \* how often the user edits

MergeAssumption ==
  /\ Master \notin Dups /\ None \notin Abstracts \cup Dups \cup {Master}
  /\ Kids \cap (Dups \cup {Master}) = {}
  /\ MaxEdits \in Nat

Merged == Dups \cup {Master}

VARIABLES
  item,       \* tags, a field, and whether the item is out of the trash
  parent,     \* of each child; None once it is deleted, moved away, or not there yet
  elsewhere,  \* duplicates with a child only the other copy has
  fresh,      \* records still at the version the merge read
  previewed,  \* records still at the version the preview reported
  quiet,      \* nothing was written since the last listing
  edits,
  merge

mergeVars == <<item, parent, elsewhere, fresh, previewed, quiet, edits, merge>>
libraryVars == <<item, parent, quiet>>

\* runMerge's locals: its stage and what is left to do in it, the records it
\* read, the children found and under what, the duplicates not to be trashed,
\* what the approved preview listed, and the master as it was written.
Starts(expect) ==
  [at |-> "master", expect |-> expect, todo |-> {}, on |-> None, read |-> <<>>, children |-> <<>>,
   unsafe |-> {}, wrote |-> None]

KidsOf(d) == {k \in Kids : parent[k] = d}
NoPreview == [is |-> "none", dups |-> {}, children |-> <<>>]

MergeInit ==
  /\ \E lib \in Libraries : item = lib.item /\ parent = lib.parent /\ elsewhere = lib.elsewhere
  /\ fresh = {} /\ previewed = {} /\ quiet = FALSE /\ edits = 0
  /\ \E first \in {"preview", "none"} : merge = Starts([NoPreview EXCEPT !.is = first])

At(stage) == merge.at = stage
Stays == UNCHANGED <<elsewhere, edits>>
Reads == UNCHANGED libraryVars /\ Stays

\* A function with one more value.
With(f, x, v) == [y \in DOMAIN f \cup {x} |-> IF y = x THEN v ELSE f[y]]

Mergeable(i) == item[i].live

\* The call answers, and nothing further is written.
Stops == merge' = [merge EXCEPT !.at = "done", !.todo = {}]

\* A loop goes on with what is left of it, or the next stage begins.
Goes(m, d, stage, todo) ==
  IF m.todo = {d} THEN [m EXCEPT !.at = stage, !.todo = todo] ELSE [m EXCEPT !.todo = @ \ {d}]

ReadMaster ==
  /\ At("master") /\ Reads /\ UNCHANGED previewed
  /\ \/ /\ Mergeable(Master)
        /\ fresh' = {Master}
        /\ merge' = [merge EXCEPT !.at = "duplicates", !.todo = Dups, !.read = With(<<>>, Master, item[Master])]
     \/ Stops /\ UNCHANGED fresh

\* What the merge goes on with once each duplicate was read, or could not be.
Gathered(m, d) ==
  LET dups == DOMAIN m.read \ {Master} IN
  IF m.todo = {d} /\ dups = {} THEN [m EXCEPT !.at = "done", !.todo = {}]
  ELSE Goes(m, d, "children", dups)

ReadDuplicate(d) ==
  /\ At("duplicates") /\ d \in merge.todo /\ Reads /\ UNCHANGED previewed
  /\ \/ /\ Mergeable(d)
        /\ fresh' = fresh \cup {d}
        /\ merge' = Gathered([merge EXCEPT !.read = With(@, d, item[d])], d)
     \/ UNCHANGED fresh /\ merge' = Gathered(merge, d)

\* A duplicate whose children could not be listed stays out of the trash.
Unlisted(d) == {d}

\* The pages of the listing, read under one version of the library.
ListChildren(d) ==
  /\ At("children") /\ d \in merge.todo /\ Reads /\ UNCHANGED previewed
  /\ LET dups == DOMAIN merge.read \ {Master} IN
     \/ /\ fresh' = fresh \cup KidsOf(d)
        /\ merge' = Goes([merge EXCEPT !.children = [k \in DOMAIN @ \cup KidsOf(d) |-> IF k \in KidsOf(d) THEN d ELSE @[k]]],
                          d, "second opinion", dups)
     \/ /\ UNCHANGED fresh
        /\ merge' = Goes([merge EXCEPT !.unsafe = @ \cup Unlisted(d)], d, "second opinion", dups)

\* The other copy may know of a child this one does not have; it may not answer.
AskOther(d) ==
  /\ At("second opinion") /\ d \in merge.todo /\ Reads /\ UNCHANGED <<fresh, previewed>>
  /\ \E veto \in {{}, elsewhere \cap {d}} :
       merge' = Goes([merge EXCEPT !.unsafe = @ \cup veto], d, "plan", {})

\* planVersions(): the versions the answer reports, and staleSince() compares.
Planned == DOMAIN merge.read \cup DOMAIN merge.children

\* Seeded fault: only the records are compared, not which children there are.
Stale_Records == ~ (DOMAIN merge.expect.children \cup merge.expect.dups \cup {Master} \subseteq previewed)

\* A record the preview named has moved or is not read, or a child has come or gone.
Stale ==
  \/ ~ (DOMAIN merge.expect.children \cup merge.expect.dups \cup {Master} \subseteq previewed)
  \/ ~ (merge.expect.dups \subseteq DOMAIN merge.read)
  \/ DOMAIN merge.children # DOMAIN merge.expect.children

\* The preview's answer, which the caller hands back.
Preview ==
  /\ At("plan") /\ merge.expect.is = "preview" /\ Reads /\ UNCHANGED fresh
  /\ previewed' = Planned \cap fresh
  /\ merge' = Starts([is |-> "approved", dups |-> DOMAIN merge.read \ {Master}, children |-> merge.children])

\* The plan is the one that was approved, or nothing is written.
Approve ==
  /\ At("plan") /\ merge.expect.is # "preview" /\ Reads /\ UNCHANGED <<fresh, previewed>>
  /\ IF merge.expect.is = "approved" /\ Stale THEN Stops ELSE merge' = [merge EXCEPT !.at = "patch"]

\* buildMergePlan(): the field is filled when the master has none, from the first
\* duplicate that does; the tags are the master's and the duplicates'.
Patches(m) ==
  LET dups == DOMAIN merge.read \ {Master}
      filled == {merge.read[d].abstract : d \in dups} \ {None}
  IN {[m EXCEPT !.tags = @ \cup UNION {merge.read[d].tags : d \in dups}, !.abstract = a] :
        a \in IF m.abstract # None \/ filled = {} THEN {m.abstract} ELSE filled}

\* A write of record r, which is refused unless it is at the version the merge has.
Accepted(r) == r \in fresh

\* What a write moves on: the record's version, and the library's.
Bumps(r, to) ==
  /\ previewed' = previewed \ {r}
  /\ fresh' = to
  /\ quiet' = FALSE /\ Stays

\* The duplicates that can go, once nothing is left to move.
Trashing(m) ==
  LET gone == (DOMAIN m.read \ {Master}) \ m.unsafe IN
  [m EXCEPT !.at = IF gone = {} THEN "done" ELSE "trash", !.todo = gone, !.on = None]

Moving(m) == IF DOMAIN m.children = {} THEN Trashing(m) ELSE [m EXCEPT !.at = "move", !.todo = DOMAIN m.children]

\* The master's PATCH: it lands, with its answer or without, or it fails.  No
\* answer ends the merge, a conflict has the master read again.
PatchMaster(stage, conflict) ==
  /\ At(stage)
  /\ \/ /\ Accepted(Master)
        /\ \E p \in Patches(merge.read[Master]) :
             /\ item' = [item EXCEPT ![Master] = [@ EXCEPT !.tags = p.tags, !.abstract = p.abstract]]
             /\ merge' = Moving([merge EXCEPT !.wrote = p]) \/ Stops
        /\ Bumps(Master, fresh \ {Master})
        /\ UNCHANGED parent
     \/ ~Accepted(Master) /\ merge' = [merge EXCEPT !.at = conflict] /\ Reads /\ UNCHANGED <<fresh, previewed>>
     \/ Stops /\ Reads /\ UNCHANGED <<fresh, previewed>>

\* Seeded fault: the plan is replayed at the new version.
Rebuilt_Replayed == merge.read[Master]

\* patchMaster(): the plan is rebuilt against the master as it now is.
Rebuilt == item[Master]

ReadMasterAgain ==
  /\ At("reread") /\ Reads /\ UNCHANGED previewed
  /\ \/ /\ Mergeable(Master)
        /\ fresh' = fresh \cup {Master}
        /\ merge' = [merge EXCEPT !.at = "repatch", !.read = With(@, Master, Rebuilt)]
     \/ Stops /\ UNCHANGED fresh

\* The loop over the children goes on.
Done(m, k) == IF m.todo = {k} THEN Trashing(m) ELSE [m EXCEPT !.at = "move", !.todo = @ \ {k}, !.on = None]

\* Child k did not move, as far as is known: what it hung off is kept.
Kept(k) == Done([merge EXCEPT !.unsafe = @ \cup {merge.children[k]}], k)

\* reparentChild(): a PATCH of k, refused when k has changed.
PatchChild(k, conflict) ==
  /\ k \in merge.todo
  /\ \/ /\ Accepted(k)
        /\ parent' = [parent EXCEPT ![k] = Master]
        /\ merge' \in {Done(merge, k), Kept(k)}
        /\ Bumps(k, fresh \ {k})
        /\ UNCHANGED item
     \/ ~Accepted(k) /\ merge' = conflict /\ Reads /\ UNCHANGED <<fresh, previewed>>
     \/ merge' = Kept(k) /\ Reads /\ UNCHANGED <<fresh, previewed>>

MoveChild(k) == At("move") /\ PatchChild(k, [merge EXCEPT !.at = "conflict", !.on = k])

\* It still belongs to the duplicate it was listed under.
StillThere(k) == parent[k] = merge.children[k]

\* A conflict: the child is read again, and moved if it is where it was.
ReadChildAgain(k) ==
  /\ At("conflict") /\ merge.on = k /\ Reads /\ UNCHANGED previewed
  /\ \/ StillThere(k) /\ fresh' = fresh \cup {k} /\ merge' = [merge EXCEPT !.at = "move again"]
     \/ merge' = Kept(k) /\ UNCHANGED fresh

MoveChildAgain(k) == At("move again") /\ merge.on = k /\ PatchChild(k, Kept(k))

\* The loop over the duplicates goes on.
Left(d) == Goes([merge EXCEPT !.on = None, !.at = "trash"], d, "done", {})

Emptied(d) == KidsOf(d) = {}

\* Just before it is trashed a duplicate's children are listed once more.
ListAgain(d) ==
  /\ At("trash") /\ d \in merge.todo
  /\ quiet' = TRUE
  /\ UNCHANGED <<item, parent, fresh, previewed>> /\ Stays
  /\ \/ Emptied(d) /\ merge' = [merge EXCEPT !.at = "emptied", !.on = d]
     \/ merge' = Left(d)

\* Seeded faults: the request pins only the duplicate, or only the library.
Pinned_Item(d) == d \in fresh
Pinned_Library(d) == quiet

\* The request pins the version of the duplicate, and that of the library; the
\* client of the Web API leaves the library's out when every object names its
\* own (web-client.ts:659).
Pinned(d) == d \in fresh /\ (OnCloud \/ quiet)

Trash(d) ==
  /\ At("emptied") /\ merge.on = d
  /\ merge' = Left(d)
  /\ \/ /\ Pinned(d)
        /\ item' = [item EXCEPT ![d].live = FALSE]
        /\ Bumps(d, fresh \ {d})
        /\ UNCHANGED parent
     \/ Reads /\ UNCHANGED <<fresh, previewed>>

\* The user's edit of record r.
Edited(r) ==
  /\ ~At("done") /\ edits < MaxEdits /\ edits' = edits + 1
  /\ fresh' = fresh \ {r} /\ previewed' = previewed \ {r} /\ quiet' = FALSE
  /\ UNCHANGED <<merge, elsewhere>>

EditItem(i) ==
  /\ Edited(i) /\ item[i].live
  /\ \/ \E t \in Tags : item' = [item EXCEPT ![i].tags = IF t \in @ THEN @ \ {t} ELSE @ \cup {t}]
     \/ \E a \in Abstracts : item' = [item EXCEPT ![i].abstract = a]
     \/ i = Master /\ item' = [item EXCEPT ![i].live = FALSE]
  /\ UNCHANGED parent

EditChild(k) ==
  /\ Edited(k)
  /\ \E to \in {None} \cup {i \in Merged : item[i].live} : parent' = [parent EXCEPT ![k] = to]
  /\ UNCHANGED item

MergeNext ==
  \/ ReadMaster \/ Preview \/ Approve \/ ReadMasterAgain
  \/ PatchMaster("patch", "reread") \/ PatchMaster("repatch", "done")
  \/ \E d \in Dups : ReadDuplicate(d) \/ ListChildren(d) \/ AskOther(d) \/ ListAgain(d) \/ Trash(d)
  \/ \E k \in Kids : MoveChild(k) \/ ReadChildAgain(k) \/ MoveChildAgain(k) \/ EditChild(k)
  \/ \E i \in Merged : EditItem(i)

MergeSpec == MergeInit /\ [][MergeNext]_mergeVars

-----------------------------------------------------------------------------

Trashes(d) == edits' = edits /\ item[d].live /\ ~item'[d].live

\* No child goes to the trash with its duplicate: not one whose listing failed,
\* that was added or moved there during the merge, or whose own move failed or
\* was not answered (merge-items.ts:769).
NoChildTrashed == [][\A d \in Dups : Trashes(d) => KidsOf(d) = {}]_mergeVars

\* What a duplicate holds when it is trashed is on the master as it was written:
\* what the user adds to it meanwhile is not trashed with it.
AbsorbedWhole ==
  [][\A d \in Dups : Trashes(d) =>
       /\ item[d].tags \subseteq merge.wrote.tags
       /\ item[d].abstract # None => merge.wrote.abstract # None]_mergeVars

\* What the user does during the merge stands: no tag or value of the master's
\* goes, and no child moves that is not where it was listed (merge-items.ts:216).
UserEditsStand ==
  [][edits' = edits =>
       /\ item[Master].tags \subseteq item'[Master].tags
       /\ item[Master].abstract \in {None, item'[Master].abstract}
       /\ \A k \in Kids : parent'[k] # parent[k] => parent[k] = merge.children[k]]_mergeVars

\* A duplicate the approved preview named is trashed only as the preview showed
\* it, and no child is moved that the preview did not list (merge-items.ts:304).
ApprovedRecordsOnly ==
  [][merge.expect.is = "approved" /\ edits' = edits =>
       /\ \A d \in merge.expect.dups : Trashes(d) => d \in previewed
       /\ \A k \in Kids : parent'[k] # parent[k] => k \in DOMAIN merge.expect.children]_mergeVars

\* What goes is what may go, and what stays is as it was.
MergeKeepsAll == NoChildTrashed /\ AbsorbedWhole /\ UserEditsStand /\ ApprovedRecordsOnly
=============================================================================
