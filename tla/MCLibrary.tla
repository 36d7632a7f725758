----------------------------- MODULE MCLibrary -----------------------------
(***************************************************************************)
(* What is done to the items of a library, what a listing shows of them    *)
(* and what the index knows of them: merging duplicates, importing         *)
(* entries, a search of the library, and the two catch-ups of an index     *)
(* job, for the text of attachments and for the user's own words.  They    *)
(* share no state (each has the library's items by its own view), so a     *)
(* behaviour exercises one of them and the others stay as they start.      *)
(***************************************************************************)
EXTENDS Naturals, Sequences, FiniteSets

CONSTANTS
  None, MaxEdits, OnCloud,
  Master, Dups, Kids, Tags, Abstracts,
  Items, Atts, FULLTEXT_RECOVERY_ATTEMPTS, MaxExtractions, MaxBodyEdits, Unread,
  Children, Homes, MaxVersion,
  Entries, MaxEntries, Chunk,
  TrashPage, KeyBatch, MaxListEdits, AppStops,
  d1, d2, k1, t1, a1, i1, i2, att3, n1

VARIABLES
  part,  \* the component this behaviour exercises
  item, parent, elsewhere, fresh, previewed, quiet, userEdits, merge,
  extracted, edits, dirty, settles, index, vouched, job,
  clock, itemVer, home, gone, childVer, words, owed, wordsJob,
  asked, saved, broke, call,
  lib, up, query, keySide, list, listEdits, apis, matched

\* A duplicate has a tag, the field and a child, the other one is bare; the second
\* child may be there, under either, or not yet.
Libraries ==
  LET Full == [tags |-> {t1}, abstract |-> a1, live |-> TRUE]
      Bare == [tags |-> {}, abstract |-> None, live |-> TRUE]
  IN  {[item |-> [i \in Dups \cup {Master} |-> IF i = d1 THEN Full ELSE Bare],
        parent |-> [k \in Kids |-> IF k = k1 THEN d1 ELSE p],
        elsewhere |-> e] : p \in {None, d1, d2}, e \in {{}, {d2}}}

\* One item with two attachments, which a short map can cut in two, and one with one.
Parent == [a \in Atts |-> IF a = att3 THEN i2 ELSE i1]

\* Where two children may hang off two items, but for the names of both.
StartHomes ==
  {[c \in Children |-> IF c = n1 THEN at[1] ELSE at[2]] :
     at \in {<<None, None>>, <<i1, None>>, <<i1, i1>>, <<i1, i2>>}}

\* A paper with a note and a highlight, and a note of its own; one of them in the trash.
Item(k, p, t, tags, d, colls) ==
  [key |-> k, parent |-> p, type |-> t, tags |-> tags, deleted |-> d, colls |-> colls]
Shelves ==
  {<<Item("p", None, "paper", t, d = "p", {"c"}), Item("n", "p", "note", {"a"}, d = "n", {}),
     Item("m", None, "note", {"a"}, d = "m", {"c"}), Item("h", "p", "annotation", {}, FALSE, {})>> :
     t \in {{}, {"a"}}, d \in {"p", "n", "m", "nothing"}}

\* Pages of what has a tag and a type or lacks them, with the trash or without; a tag of a
\* collection.
Clauses(v) == {{}, {[negate |-> FALSE, any |-> {v}]}, {[negate |-> TRUE, any |-> {v}]}}
Query(tag, type, top, trashed, coll, start) ==
  [tag |-> tag, type |-> type, keys |-> None, top |-> top, trashed |-> trashed,
   coll |-> coll, start |-> start, limit |-> start + 1]
Queries ==
  {Query(t, y, p, d, None, n) : t \in Clauses("a"), y \in Clauses("note"), p, d \in BOOLEAN, n \in {0, 1}}
    \cup {Query(t, {}, p, d, "c", 0) : t \in Clauses("a"), p, d \in BOOLEAN}

Merge == INSTANCE MergeItems WITH edits <- userEdits
Body == INSTANCE BodyText WITH MaxEdits <- MaxBodyEdits, MaxVersion <- MaxExtractions
Words == INSTANCE OwnWords WITH index <- words, job <- wordsJob
Imports == INSTANCE Import
Lists == INSTANCE Listing WITH call <- query, edits <- listEdits, MaxEdits <- MaxListEdits

ASSUME LibraryAssumption ==
  /\ Merge!MergeAssumption /\ Body!BodyAssumption /\ Words!WordsAssumption
  /\ Imports!ImportAssumption

mergeVars == <<item, parent, elsewhere, fresh, previewed, quiet, userEdits, merge>>
bodyVars == <<extracted, edits, dirty, settles, index, vouched, job>>
wordsVars == <<clock, itemVer, home, gone, childVer, words, owed, wordsJob>>
importVars == <<asked, saved, broke, call>>
listingVars == <<lib, up, query, keySide, list, listEdits, apis, matched>>
vars == <<part, mergeVars, bodyVars, wordsVars, importVars, listingVars>>

Init ==
  /\ part \in {"merge", "body", "words", "import", "listing"}
  /\ Merge!MergeInit
  /\ part # "merge" => elsewhere = {} /\ \A k \in Kids : parent[k] # d2 /\ parent[k] # None
  /\ part # "merge" => merge.expect.is = "none"
  /\ Body!BodyInit /\ (part # "body" => \A a \in Atts : extracted[a] = 0)
  /\ Words!WordsInit /\ (part = "words" => home \in Homes) /\ (part # "words" => \A c \in Children : home[c] = None)
  /\ Imports!ImportInit /\ (part # "import" => asked = CHOOSE a \in Imports!Asked : TRUE)
  /\ Lists!ListingInit
  /\ part # "listing" => up /\ \A n \in DOMAIN lib : ~lib[n].deleted /\ lib[1].tags = {}

Next ==
  \/ /\ part = "merge" /\ Merge!MergeNext
     /\ UNCHANGED <<part, bodyVars, wordsVars, importVars, listingVars>>
  \/ /\ part = "body" /\ Body!BodyNext
     /\ UNCHANGED <<part, mergeVars, wordsVars, importVars, listingVars>>
  \/ /\ part = "words" /\ Words!WordsNext
     /\ UNCHANGED <<part, mergeVars, bodyVars, importVars, listingVars>>
  \/ /\ part = "import" /\ Imports!ImportNext
     /\ UNCHANGED <<part, mergeVars, bodyVars, wordsVars, listingVars>>
  \/ /\ part = "listing" /\ Lists!ListingNext
     /\ UNCHANGED <<part, mergeVars, bodyVars, wordsVars, importVars>>

Spec == Init /\ [][Next]_vars

\* A merge trashes no child, nothing the master did not absorb and nothing the preview
\* did not show as it is, and what the user does meanwhile stands (merge-items.ts:769).
MergeKeepsAll == Merge!MergeKeepsAll

\* No child is trashed with the item it hangs off (merge-items.ts:774).
NoChildTrashed == Merge!NoChildTrashed

\* Text the full-text cursor has passed is in the index, and so are the notes and
\* annotations from before the stamp, but for text an update gave up and notes that went
\* with the item they had left for another (index-manager.ts:2379, :2194, :2041, :2733).
CatchUpsHonest == Body!CursorHonest /\ Words!WordsHonest

\* What an update takes out of the index is marked to be read again, and it takes no
\* note out that is still there; one not asked for full text or own words takes out those
\* of the items the library changed, and no others (index-manager.ts:2093, :2065, :2041).
CatchUpsKeep == Body!LossMarked /\ Words!NoteStays

\* No entry is saved twice and none blank, but for what a local save of several requests
\* had written when it broke off (import.ts:829, :1347, :725).
SavedOnce == Imports!SavedOnce

\* A search of the library answers the page that was meant, of one source, whatever the
\* two Zotero APIs make of its filters (library-router.ts:384, :89, local-client.ts:331).
ListingsHonest == Lists!ListingsHonest
=============================================================================
