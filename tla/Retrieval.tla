------------------------------ MODULE Retrieval ------------------------------
(***************************************************************************)
(* A search (tools/semantic-search.ts over query() of features/search/     *)
(* index-manager.ts).  Each index ranks PASSAGES twice, by keyword and by  *)
(* vector, and the page is made of ITEMS: the two rankings are fused, and  *)
(* the pool taken from each is widened until the page is full or both have *)
(* been read to their end.  Several libraries are searched one after the   *)
(* other and merged by rank.  Jobs change an index while the query is      *)
(* being embedded.                                                         *)
(***************************************************************************)
EXTENDS Integers, SequencesExt

CONSTANTS
  Libraries,
  Order,        \* of the libraries, as the registry lists them
  ItemOf,       \* the item of a passage
  Ranks,        \* what a ranker may answer for the question asked, whole
  Old,          \* those of the files that are there from the beginning
  Limits,
  PoolPerHit,   \* 3 in the code
  MaxSearches,
  MaxChanges,
  None

VARIABLES
  index,     \* per library: whether there is a file, whose stamp it has, its rankings
  embedder,  \* there is an object that could embed a query
  call,      \* the search under way
  answer,    \* what the last one returned
  searches, changes

searchVars == <<index, embedder, call, answer, searches, changes>>

Modes == {"auto", "keyword", "semantic"}
NoFile == [file |-> FALSE, stamp |-> None, fault |-> FALSE, keyword |-> <<>>, vector |-> <<>>, documents |-> 0]
Set(q) == {q[k] : k \in DOMAIN q}

\* An index of n passages, of which these the question finds.
File(stamp, keyword, vector) ==
  [file |-> TRUE, stamp |-> stamp, fault |-> FALSE, keyword |-> keyword, vector |-> vector,
   documents |-> Cardinality(Set(keyword) \cup Set(vector))]

IsEmpty(x) == x.documents = 0
HasVectors(x) == x.vector # <<>>

SearchInit ==
  /\ index \in [Libraries -> {NoFile} \cup {File(s, q, q) : s \in Libraries \cup {None}, q \in Old}]
  /\ embedder \in BOOLEAN
  /\ call = None /\ answer = None /\ searches = 0 /\ changes = 0

------------------------------------------------------------------------------
(* query().                                                                *)

Top(q, n) == SubSeq(q, 1, IF n < Len(q) THEN n ELSE Len(q))
RankIn(q, p) == CHOOSE k \in DOMAIN q : q[k] = p

\* rrf: 1/(60 + rank) summed over the lists, times a common multiple for four ranks.
Scale == 61 * 62 * 63 * 64
Part(q, p) == IF p \in Set(q) THEN Scale \div (60 + RankIn(q, p)) ELSE 0

\* Best first; of equals the one listed first, the keyword list before the other.
Fused(keyword, vector) ==
  LET both == keyword \o SelectSeq(vector, LAMBDA p : p \notin Set(keyword))
      score(p) == Part(keyword, p) + Part(vector, p)
  IN  SetToSortSeq(Set(both), LAMBDA p, r :
        score(p) > score(r) \/ (score(p) = score(r) /\ RankIn(both, p) < RankIn(both, r)))

\* distinctHits: the first items, each where its best passage is.
Distinct(fused, limit) ==
  Top(FoldLeft(LAMBDA items, p : IF ItemOf[p] \in Set(items) THEN items ELSE Append(items, ItemOf[p]),
               <<>>, fused), limit)

Open(q, pool) == Len(q) >= pool

\* Seeded fault: one list read to its end is taken for both.
Widens_Both(keyword, vector, pool, total) ==
  (Open(keyword, pool) /\ Open(vector, pool)) /\ pool < total

\* Whether a wider pool could bring more.
Widens(keyword, vector, pool, total) == (Open(keyword, pool) \/ Open(vector, pool)) /\ pool < total

\* The page, from the pool at which it is full or cannot grow.
Page(keyword, vector, limit, total) ==
  LET round[pool \in 1..(limit * PoolPerHit + total)] ==
        LET k == Top(keyword, pool)
            v == Top(vector, pool)
            hits == Distinct(Fused(k, v), limit)
        IN  IF Len(hits) >= limit \/ ~Widens(keyword, vector, pool, total) THEN hits
            ELSE round[IF pool * 2 < total THEN pool * 2 ELSE total]
  IN  round[limit * PoolPerHit]

\* What is ranked: vectors only with a query vector.
Ranking(l, x, mode, limit, embedded) ==
  LET keyword == IF mode = "semantic" THEN <<>> ELSE x.keyword
      vector == IF embedded THEN x.vector ELSE <<>>
  IN  [library |-> l, keyword |-> keyword, vector |-> vector, hits |-> Page(keyword, vector, limit, x.documents)]

\* Hits of a ranking as the answer labels them.
Labelled(r) == [k \in DOMAIN r.hits |-> [library |-> r.library, item |-> r.hits[k], rank |-> k]]

\* Seeded fault: the answers one after the other.
Merged_InTurn(ranked, limit) == Top(FlattenSeq([k \in DOMAIN ranked |-> Labelled(ranked[k])]), limit)

\* Rank 1 of every library, then rank 2: within a rank, in the order they were asked.
Merged(ranked, limit) ==
  LET at(k) == FlattenSeq([r \in DOMAIN ranked |-> SelectSeq(Labelled(ranked[r]), LAMBDA h : h.rank = k)])
  IN  Top(FlattenSeq([k \in 1..limit |-> at(k)]), limit)

Embeds(x, mode) == mode # "keyword" /\ embedder /\ HasVectors(x)

------------------------------------------------------------------------------
(* A search of one library, or of several.                                 *)

Idle == call = None

Begin(todo, mode, limit, combined) ==
  /\ Idle /\ searches < MaxSearches /\ searches' = searches + 1
  /\ call' = [todo |-> todo, mode |-> mode, limit |-> limit, combined |-> combined, asked |-> FALSE,
              ranked |-> <<>>, notes |-> <<>>]
  /\ answer' = None
  /\ UNCHANGED <<index, embedder, changes>>

Refuses(why) == call' = None /\ answer' = None

\* zotero_semantic_search: the named library's own file, or one without a file for it,
\* which the index at hand cannot answer for.
SearchOne(l, mode, limit) == Begin(<<l>>, mode, limit, FALSE)

\* libraries: "all", those that have a file, or some that are named.
SearchSeveral(named, mode, limit) ==
  /\ named # {}
  /\ mode = "semantic" => embedder
  /\ Begin(SelectSeq(Order, LAMBDA l : l \in named), mode, limit, TRUE)

Now == index[Head(call.todo)]
Asking == ~Idle /\ call.todo # <<>> /\ ~call.asked

\* Why an index is not asked.
Denied(x, l, mode) ==
  IF ~x.file THEN "no index"
  ELSE IF x.stamp \notin {l, None} THEN "another library's"
  ELSE IF x.fault THEN "fault"
  ELSE IF IsEmpty(x) THEN "empty"
  ELSE IF mode = "semantic" /\ ~HasVectors(x) THEN "no vectors"
  ELSE None

\* One library is through; what was ranked is kept with its rankings.
Through(note, ranking) ==
  [call EXCEPT !.todo = Tail(@), !.asked = FALSE, !.notes = Append(@, note),
               !.ranked = IF note = None THEN Append(@, ranking) ELSE @]

\* An index is refused, or passed over with a note.
PassOver ==
  LET l == Head(call.todo)
      why == Denied(Now, l, call.mode)
  IN
  /\ Asking /\ why # None
  /\ IF call.combined THEN call' = Through(why, None) /\ UNCHANGED answer
     ELSE Refuses(why)
  /\ UNCHANGED <<index, embedder, searches, changes>>

\* It is asked: the query is sent to be embedded, when that is of use.
Ask ==
  /\ Asking /\ Denied(Now, Head(call.todo), call.mode) = None
  /\ call' = [call EXCEPT !.asked = TRUE]
  /\ UNCHANGED <<index, embedder, answer, searches, changes>>

\* The ranking, in one go once the query vector is there or will not be.  Of several
\* libraries, one that had to be ranked by vectors and was not is no answer.
Rank(embedded) ==
  LET ranking == Ranking(Head(call.todo), Now, call.mode, call.limit, embedded) IN
  /\ ~Idle /\ call.asked
  /\ embedded => Embeds(Now, call.mode)
  /\ IF call.combined
     THEN /\ call' = Through(IF call.mode = "semantic" /\ ~embedded THEN "no ranking" ELSE None, ranking)
          /\ UNCHANGED answer
     ELSE call' = None /\ answer' = [ranked |-> <<ranking>>, merged |-> Merged(<<ranking>>, call.limit), limit |-> call.limit]
  /\ UNCHANGED <<index, embedder, searches, changes>>

\* The query is of another width than the vectors, which are dropped.
DropVectors ==
  LET l == Head(call.todo) IN
  /\ ~Idle /\ call.asked /\ Embeds(Now, call.mode)
  /\ changes < MaxChanges /\ changes' = changes + 1
  /\ index' = [index EXCEPT ![l].vector = <<>>]
  /\ UNCHANGED <<embedder, call, answer, searches>>

Answer ==
  /\ ~Idle /\ call.todo = <<>>
  /\ IF None \notin Set(call.notes) THEN Refuses("nothing searched")
     ELSE call' = None /\ answer' = [ranked |-> call.ranked, merged |-> Merged(call.ranked, call.limit), limit |-> call.limit]
  /\ UNCHANGED <<index, embedder, searches, changes>>

------------------------------------------------------------------------------
(* The jobs, as far as a search can tell.                                  *)

Changes(l, x) ==
  /\ changes < MaxChanges /\ changes' = changes + 1
  /\ index' = [index EXCEPT ![l] = x]
  /\ UNCHANGED <<embedder, call, answer, searches>>

\* A job leaves an index with what it ranks for the question; a build begins with none.
Indexed(l, keyword, vector) == Idle /\ Changes(l, File(l, keyword, vector))
Rebuilds(l) == index[l].file /\ ~Idle /\ Changes(l, File(l, <<>>, <<>>))

Faults(l) == index[l].file /\ ~index[l].fault /\ Changes(l, [index[l] EXCEPT !.fault = TRUE])

SearchNext ==
  \/ \E mode \in Modes, limit \in Limits :
       \/ \E l \in Libraries : SearchOne(l, mode, limit)
       \/ \E named \in SUBSET Libraries : SearchSeveral(named, mode, limit)
  \/ PassOver \/ Ask \/ DropVectors \/ Answer
  \/ \E embedded \in BOOLEAN : Rank(embedded)
  \/ \E l \in Libraries :
       \/ \E keyword, vector \in Ranks : Indexed(l, keyword, vector)
       \/ Rebuilds(l) \/ Faults(l)

SearchSpec == SearchInit /\ [][SearchNext]_searchVars
------------------------------------------------------------------------------

ItemsIn(q) == {ItemOf[p] : p \in Set(q)}

\* Ahead of r in every list that has r.
Ahead(p, r, lists) ==
  \A q \in lists : r \in Set(q) => p \in Set(q) /\ RankIn(q, p) < RankIn(q, r)

\* A page that is not full leaves out no item either ranker found, however many passages
\* of one item come first, and none stands before an item with a passage that beats all of its own:
\* the widening stops neither too early nor where the order would change (index-manager.ts:3175).
PageWhole ==
  answer # None => \A k \in DOMAIN answer.ranked :
    LET x == answer.ranked[k]
        lists == {x.keyword, x.vector}
    IN
    /\ Len(x.hits) < answer.limit => Set(x.hits) = ItemsIn(x.keyword) \cup ItemsIn(x.vector)
    /\ \A p \in Set(x.keyword) \cup Set(x.vector) : \A k2 \in DOMAIN x.hits :
         (\A q \in lists : \A r \in Set(q) : ItemOf[r] = x.hits[k2] => Ahead(p, r, lists)) =>
           \E k1 \in 1..k2 : x.hits[k1] = ItemOf[p]

\* In an answer over several libraries, a library's hit is left out only when the answer
\* is full of hits that stand no deeper in their own library (semantic-search.ts:206).
MergeFair ==
  answer # None => \A k \in DOMAIN answer.ranked : \A h \in Set(Labelled(answer.ranked[k])) :
    h \in Set(answer.merged) \/
      (Len(answer.merged) = answer.limit /\ \A g \in Set(answer.merged) : g.rank <= h.rank)

SearchesHonest == PageWhole /\ MergeFair
=============================================================================
