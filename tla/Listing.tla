------------------------------- MODULE Listing -------------------------------
(***************************************************************************)
(* A search by zotero_search_items: the listing a caller describes,        *)
(* assembled from listings the two Zotero APIs answer differently          *)
(* (LibraryRouter.searchItems and topLevelItemsOfType,                     *)
(* router/library-router.ts; LocalApiClient.listItems, listItemKeys,       *)
(* matchAcrossTrash and listItemsAcrossTrash, api/local-client.ts).        *)
(*                                                                         *)
(* The APIs are external: what they answer is what the comments, and the   *)
(* stand-in the tests use, say was measured of them.                       *)
(***************************************************************************)
EXTENDS Naturals, Sequences, FiniteSets

CONSTANTS
  None,
  Shelves,     \* the libraries to start from: sequences of items, in the order asked for
  Queries,     \* what callers ask
  TrashPage,   \* TRASH_PAGE
  KeyBatch,    \* ITEM_KEY_BATCH
  MaxEdits,    \* bound: changes to the library during a call
  AppStops     \* may the desktop app come and go during a call?

VARIABLES
  lib,      \* the library, the same on both sides: [key, parent, type, tags, deleted, colls]
  up,       \* the desktop app serves it
  call,     \* the search: its query, the API it was routed to, how far it is
  keySide,  \* topLevelItemsOfType, or None
  list,     \* the listing it is waiting for (listItems or listItemKeys), or None
  edits,    \* changes made during this call
  apis,     \* ghost: the APIs that answered it
  matched   \* ghost: the keys that matched it at some time

listingVars == <<lib, up, call, keySide, list, edits, apis, matched>>

-----------------------------------------------------------------------------
(* Items and what is asked of them.                                        *)

KeysOf(s) == [n \in DOMAIN s |-> s[n].key]
AsSet(s) == {s[n] : n \in DOMAIN s}

\* An item, its parent and its parent's.
Line(l, i) ==
  LET parents == {j \in AsSet(l) : j.key = i.parent} IN
  {i} \cup parents \cup {g \in AsSet(l) : \E p \in parents : g.key = p.parent}

\* In the trash, or under something that is.
InTrash(l, i) == \E j \in Line(l, i) : j.deleted

\* One parameter: any of its alternatives, or, negated, anything that lacks one and
\* is no annotation.
Satisfies(i, clause, has) ==
  IF clause.negate THEN i.type # "annotation" /\ clause.any \ has # {}
  ELSE clause.any \cap has # {}

Matches(i, q) ==
  /\ \A c \in q.tag : Satisfies(i, c, i.tags)
  /\ \A c \in q.type : Satisfies(i, c, {i.type})

Filtered(q) == q.tag # {} \/ q.type # {} \/ q.keys # None
In(q, i) == q.coll = None \/ q.coll \in i.colls
Paged(s, start, limit) ==
  LET last == IF limit = None \/ start + limit > Len(s) THEN Len(s) ELSE start + limit IN
  SubSeq(s, start + 1, last)

\* What the caller means.
Meant(l, q) ==
  SelectSeq(l, LAMBDA i : /\ Matches(i, q) /\ In(q, i)
                          /\ q.top => i.parent = None
                          /\ q.trashed \/ ~InTrash(l, i))

\* The desktop app: a filter is a search of its own, which never sees the trash and, for
\* a tag or a type, not the restriction to the top level either; a keyed read off the top
\* level brings the descendants.
DesktopItems(l, q) ==
  SelectSeq(l, LAMBDA i :
    /\ Matches(i, q) /\ In(q, i)
    /\ q.top => i.parent = None \/ q.tag # {} \/ q.type # {}
    /\ q.keys # None => \E j \in IF q.top THEN {i} ELSE Line(l, i) : j.key \in q.keys
    /\ ~InTrash(l, i) \/ (q.trashed /\ ~Filtered(q)))

\* The cloud: right, but that a type filter at the top level answers with the parents of
\* what matched.
CloudItems(l, q) ==
  SelectSeq(l, LAMBDA i :
    /\ In(q, i)
    /\ q.top => i.parent = None
    /\ \E j \in IF q.top /\ q.type # {} THEN {k \in AsSet(l) : i \in Line(l, k)} ELSE {i} :
         Matches(j, q)
    /\ q.keys # None => i.key \in q.keys
    /\ q.trashed \/ ~InTrash(l, i))

\* /items/trash, and /items/trash/top: no other restriction can be put on them.
TrashItems(l, top) == SelectSeq(l, LAMBDA i : InTrash(l, i) /\ (top => i.parent = None))

-----------------------------------------------------------------------------

Idle == [pc |-> "idle", q |-> None, api |-> None, data |-> <<>>, total |-> 0]

ListingInit ==
  /\ lib \in Shelves
  /\ up \in BOOLEAN
  /\ call = Idle
  /\ keySide = None /\ list = None
  /\ edits = 0
  /\ apis = {}
  /\ matched = {}

\* losesTrashedMatches.
LosesTrashedMatches(q) == q.trashed /\ Filtered(q)

\* A listing on the API of the call: one request, or the three of matchAcrossTrash.
NewList(q, form, api) ==
  [q |-> q, form |-> form,
   asks |-> IF api = "local" /\ LosesTrashedMatches(q) THEN {"everything", "live", "trash"}
            ELSE {"page"},
   page |-> <<>>, total |-> 0,
   everything |-> <<>>, live |-> {}, trash |-> {},
   candidates |-> None, at |-> 0, seen |-> {}, inTrash |-> {},
   wanted |-> None, left |-> <<>>, fetched |-> {}]

\* Seeded fault: only a type filter is kept from the API.
KeySideNeeded_TypeOnly(q, api) == q.top /\ q.type # {}

\* searchItems: top with a type, and on the desktop with a tag, is worked out here.
KeySideNeeded(q, api) == q.top /\ (q.type # {} \/ (api = "local" /\ q.tag # {}))

\* searchItems, topLevelItemsOfType: routed, then the listing, or the key set of what
\* matches and the top-level key set at once.
Search(q) ==
  LET api == IF up THEN "local" ELSE "cloud" IN
  /\ call.pc = "idle"
  /\ call' = [Idle EXCEPT !.pc = "asking", !.q = q, !.api = api]
  /\ IF KeySideNeeded(q, api)
     THEN /\ keySide' = [top |-> None, matching |-> None, hits |-> None, left |-> <<>>, fetched |-> {}]
          /\ list' = NewList([q EXCEPT !.top = FALSE, !.start = 0, !.limit = None], "keys", api)
     ELSE /\ keySide' = None
          /\ list' = NewList(q, "items", api)
  /\ edits' = 0
  /\ apis' = {}
  /\ matched' = AsSet(KeysOf(Meant(lib, q)))
  /\ UNCHANGED <<lib, up>>

\* Seeded fault: every request is routed anew.
Route_Each == IF up THEN "local" ELSE "cloud"

\* Every request of a call goes where its first one did.
Route == call.api

\* A request is answered by an API that is there.
Answers == call.pc = "asking" /\ (Route = "local" => up) /\ apis' = apis \cup {Route}

ListItems(q) == IF Route = "local" THEN DesktopItems(lib, q) ELSE CloudItems(lib, q)

\* listItems and listItemKeys where one request will do.
PageAnswered ==
  /\ list # None /\ "page" \in list.asks
  /\ Answers
  /\ list' = [list EXCEPT !.asks = {}, !.total = Len(ListItems(list.q)),
                          !.page = Paged(ListItems(list.q), list.q.start, list.q.limit)]
  /\ UNCHANGED <<lib, up, call, keySide, edits, matched>>

\* topLevelItemsOfType: the top-level keys, beside whatever the filters need.
TopAnswered ==
  /\ keySide # None /\ keySide.top = None
  /\ Answers
  /\ keySide' = [keySide EXCEPT
       !.top = AsSet(KeysOf(ListItems([call.q EXCEPT !.tag = {}, !.type = {}, !.coll = None])))]
  /\ UNCHANGED <<lib, up, call, list, edits, matched>>

-----------------------------------------------------------------------------
(* matchAcrossTrash: the superset, the live matches and the trash's keys.  *)

Scope(q) == [q EXCEPT !.tag = {}, !.type = {}, !.keys = None]

EverythingAnswered ==
  /\ list # None /\ "everything" \in list.asks
  /\ Answers
  /\ list' = [list EXCEPT !.asks = @ \ {"everything"},
                          !.everything = KeysOf(DesktopItems(lib, Scope(list.q)))]
  /\ UNCHANGED <<lib, up, call, keySide, edits, matched>>

LiveAnswered ==
  /\ list # None /\ "live" \in list.asks
  /\ Answers
  /\ list' = [list EXCEPT !.asks = @ \ {"live"},
       !.live = AsSet(KeysOf(DesktopItems(lib, [list.q EXCEPT !.trashed = FALSE])))]
  /\ UNCHANGED <<lib, up, call, keySide, edits, matched>>

TrashAnswered ==
  /\ list # None /\ "trash" \in list.asks
  /\ Answers
  /\ list' = [list EXCEPT !.asks = @ \ {"trash"}, !.trash = AsSet(KeysOf(TrashItems(lib, FALSE)))]
  /\ UNCHANGED <<lib, up, call, keySide, edits, matched>>

\* The trashed items the query reaches: named, where keys are.
Candidates ==
  /\ list # None /\ "page" \notin list.asks /\ list.asks = {}
  /\ LosesTrashedMatches(list.q) /\ call.api = "local" /\ list.candidates = None
  /\ list' = [list EXCEPT !.candidates =
       {k \in AsSet(list.everything) \cap list.trash : list.q.keys # None => k \in list.q.keys}]
  /\ UNCHANGED <<lib, up, call, keySide, edits, apis, matched>>

More == list.candidates # None /\ list.wanted = None /\ list.candidates \ list.seen # {}

\* One page of the trash as JSON, its candidates tested against the filters.
TrashPageAnswered ==
  LET all == TrashItems(lib, list.q.top)
      page == Paged(all, list.at, TrashPage)
      found == {i \in AsSet(page) : i.key \in list.candidates} IN
  /\ list # None /\ More
  /\ Answers
  /\ list' = [list EXCEPT
       !.at = @ + Len(page),
       !.seen = IF page = <<>> \/ list.at + Len(page) >= Len(all) THEN list.candidates
                ELSE @ \cup {i.key : i \in found},
       !.inTrash = @ \cup {i \in found : Matches(i, list.q)}]
  /\ UNCHANGED <<lib, up, call, keySide, edits, matched>>

Trashed(k) == \E i \in list.inTrash : i.key = k

\* The matches, in the order of the superset and within it.
Merged ==
  SelectSeq(list.everything, LAMBDA k : Trashed(k) \/ (k \notin list.trash /\ k \in list.live))

\* pageOf the matches; what is not in hand is read by key.
Merge ==
  /\ list # None /\ list.candidates # None /\ ~More /\ list.wanted = None
  /\ LET keys == Merged
         wanted == Paged(keys, list.q.start, list.q.limit) IN
     list' = [list EXCEPT !.total = Len(keys), !.wanted = wanted,
       !.left = IF list.form = "keys" THEN <<>> ELSE SelectSeq(wanted, LAMBDA k : ~Trashed(k))]
  /\ UNCHANGED <<lib, up, call, keySide, edits, apis, matched>>

Batch(s) == AsSet(Paged(s, 0, KeyBatch))
Rest(s) == Paged(s, KeyBatch, None)

\* listItemsAcrossTrash: a batch of live matches, the filters along.
LiveBatchAnswered ==
  /\ list # None /\ list.wanted # None /\ list.left # <<>>
  /\ Answers
  /\ list' = [list EXCEPT !.left = Rest(@), !.fetched = @ \cup
       AsSet(DesktopItems(lib, [list.q EXCEPT !.keys = Batch(list.left), !.coll = None, !.trashed = FALSE]))]
  /\ UNCHANGED <<lib, up, call, keySide, edits, matched>>

\* The items of these keys, where they were found.
Found(keys, items) ==
  LET held == SelectSeq(keys, LAMBDA k : \E i \in items : i.key = k) IN
  [n \in DOMAIN held |-> CHOOSE i \in items : i.key = held[n]]

Listed ==
  /\ list # None /\ list.asks = {}
  /\ IF LosesTrashedMatches(list.q) /\ call.api = "local"
     THEN list.wanted # None /\ list.left = <<>> ELSE TRUE

\* Seeded fault: the trashed copy of an item is looked for among those read by key only.
Outcome_LiveOnly ==
  [keys |-> IF list.wanted = None THEN KeysOf(list.page) ELSE list.wanted,
   data |-> IF list.wanted = None THEN list.page ELSE Found(list.wanted, list.fetched)]

\* What a listing that is complete returns.
Outcome ==
  [keys |-> IF list.wanted = None THEN KeysOf(list.page) ELSE list.wanted,
   data |-> IF list.wanted = None THEN list.page
            ELSE Found(list.wanted, list.inTrash \cup
                         {i \in list.fetched : ~Trashed(i.key)})]

-----------------------------------------------------------------------------
(* The end of a search, and topLevelItemsOfType's second half.             *)

Done(data, total) ==
  /\ call' = [call EXCEPT !.pc = "done", !.data = data, !.total = total]
  /\ list' = None
  /\ keySide' = None

Returned ==
  /\ Listed /\ keySide = None
  /\ Done(Outcome.data, list.total)
  /\ UNCHANGED <<lib, up, edits, apis, matched>>

\* Seeded fault: the page of matches is cut before they are held against the top level.
Hits_PagedFirst ==
  SelectSeq(Paged(Outcome.keys, call.q.start, call.q.limit), LAMBDA k : k \in keySide.top)

\* The matches that are top-level.
Hits == SelectSeq(Outcome.keys, LAMBDA k : k \in keySide.top)

\* Seeded fault: the page is read by key without the trash.
ByKey_Live(keys) ==
  [call.q EXCEPT !.keys = keys, !.tag = {}, !.type = {}, !.coll = None, !.trashed = FALSE,
                 !.start = 0, !.limit = Cardinality(keys)]

\* The keyed read of a batch: no filter but the trash.
ByKey(keys) ==
  [call.q EXCEPT !.keys = keys, !.tag = {}, !.type = {}, !.coll = None,
                 !.start = 0, !.limit = Cardinality(keys)]

Matching ==
  /\ keySide # None /\ keySide.top # None /\ keySide.hits = None
  /\ Listed
  /\ keySide' = [keySide EXCEPT !.hits = Hits, !.left = Paged(Hits, call.q.start, call.q.limit)]
  /\ list' = None
  /\ UNCHANGED <<lib, up, call, edits, apis, matched>>

NextBatch ==
  /\ keySide # None /\ keySide.hits # None /\ list = None /\ keySide.left # <<>>
  /\ keySide' = [keySide EXCEPT !.left = Rest(@)]
  /\ list' = NewList(ByKey(Batch(keySide.left)), "items", call.api)
  /\ UNCHANGED <<lib, up, call, edits, apis, matched>>

BatchRead ==
  /\ keySide # None /\ keySide.hits # None
  /\ Listed
  /\ keySide' = [keySide EXCEPT !.fetched = @ \cup AsSet(Outcome.data)]
  /\ list' = None
  /\ UNCHANGED <<lib, up, call, edits, apis, matched>>

KeySideDone ==
  /\ keySide # None /\ keySide.hits # None /\ list = None /\ keySide.left = <<>>
  /\ Done(Found(Paged(keySide.hits, call.q.start, call.q.limit), keySide.fetched), Len(keySide.hits))
  /\ UNCHANGED <<lib, up, edits, apis, matched>>

\* A request of a call pinned to an app that is gone: the search fails.
Fails ==
  /\ call.pc = "asking" /\ Route = "local" /\ ~up
  /\ call' = [call EXCEPT !.pc = "failed"]
  /\ list' = None /\ keySide' = None
  /\ UNCHANGED <<lib, up, edits, apis, matched>>

-----------------------------------------------------------------------------
(* The library and the app, meanwhile.                                     *)

Edited(n) ==
  {[lib EXCEPT ![n].deleted = ~@]} \cup
  {[lib EXCEPT ![n].tags = (@ \cup {t}) \ (@ \cap {t})] : t \in {"a"}} \cup
  {SelectSeq(lib, LAMBDA i : lib[n] \notin Line(lib, i))}

Edit ==
  /\ call.pc = "asking" /\ edits < MaxEdits
  /\ \E n \in DOMAIN lib : lib' \in Edited(n)
  /\ edits' = edits + 1
  /\ matched' = matched \cup AsSet(KeysOf(Meant(lib', call.q)))
  /\ UNCHANGED <<up, call, keySide, list, apis>>

AppComesOrGoes ==
  /\ AppStops /\ call.pc = "asking"
  /\ up' = ~up
  /\ UNCHANGED <<lib, call, keySide, list, edits, apis, matched>>

ListingNext ==
  \/ \E q \in Queries : Search(q)
  \/ PageAnswered \/ TopAnswered
  \/ EverythingAnswered \/ LiveAnswered \/ TrashAnswered
  \/ Candidates \/ TrashPageAnswered \/ Merge \/ LiveBatchAnswered
  \/ Returned \/ Matching \/ NextBatch \/ BatchRead \/ KeySideDone
  \/ Fails
  \/ Edit \/ AppComesOrGoes

ListingSpec == ListingInit /\ [][ListingNext]_listingVars

-----------------------------------------------------------------------------
(* Properties.                                                             *)

\* A search of a library nothing changed answers the page that was meant and counts all
\* that was, whichever API served it (library-router.ts:384, local-client.ts:331).
PageAsMeant ==
  call.pc = "done" /\ edits = 0 =>
    /\ call.data = Paged(Meant(lib, call.q), call.q.start, call.q.limit)
    /\ call.total = Len(Meant(lib, call.q))

\* Whatever changes meanwhile, nothing is answered that never was what was asked for, nor
\* twice (local-client.ts:430).
OnlyMatches ==
  call.pc = "done" =>
    /\ AsSet(KeysOf(call.data)) \subseteq matched
    /\ Cardinality(AsSet(KeysOf(call.data))) = Len(call.data)

\* No answer is put together from both APIs (library-router.ts:89).
OneSource == Cardinality(apis) <= 1

ListingsHonest == PageAsMeant /\ OnlyMatches /\ OneSource
=============================================================================
