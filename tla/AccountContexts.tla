------------------------- MODULE AccountContexts -------------------------
(***************************************************************************)
(* server.ts, ContextCache: one context for each Zotero key of each        *)
(* account, the account's search indexes under all of them, and the tool   *)
(* calls that have one resolved each.  Misses are built one after another  *)
(* (resolveTail); hits are not.  A key is asked about again when it has    *)
(* been trusted for the recheck interval.                                  *)
(*                                                                         *)
(* Time is counted in steps of that interval, or less.  zotero.org answers *)
(* a fraction of that (a request has a deadline of a minute), so what it   *)
(* says is read at the step in which the answer arrives.                   *)
(***************************************************************************)
EXTENDS Integers, Sequences, FiniteSets

CONSTANTS
  Users,         \* Zotero accounts
  Keys,          \* Zotero keys; a key is one authorization of one account
  UserOf,        \* the account of each key
  Calls,         \* the tool calls in progress at once
  MaxEntries,    \* accounts that hold contexts
  KeysPerAccount,
  RecheckAfter,  \* steps of time a key is trusted for
  MaxRegistries, \* bound: index registries in use at once
  MaxRevoked,    \* bound: keys that are revoked
  None

Registries == 1..MaxRegistries

\* A KeyEntry and its context: the indexes, how long ago the key was last
\* confirmed, and whether zotero.org is being asked about it.
Entry == [registry : Registries, invalidated : BOOLEAN, age : 0..RecheckAfter, checking : BOOLEAN]

Registry == [user : Users, state : {"open", "closing", "closed"}, building : BOOLEAN]

\* "resolved": the handler has its context.  "retired": it waits for the check of
\* a context that has left the cache.  registry: the handler's, the one a build
\* is to share, or the one an eviction is releasing.
Call == [pc : {"idle", "queued", "building", "evicting", "checking", "retired",
               "resolved", "searching"},
         key : Keys \cup {None}, registry : Registries \cup {None}]

ContextsAssumption ==
  /\ UserOf \in [Keys -> Users]
  /\ {MaxEntries, KeysPerAccount, RecheckAfter, MaxRegistries} \subseteq Nat \ {0}
  /\ MaxRevoked \in Nat
  /\ None \notin Nat \cup Entry \cup Registry

VARIABLES
  keys,      \* each account's cached keys, least recently used first
  accounts,  \* the accounts that hold contexts, least recently used first
  entry,     \* the cached entry of each key
  registry,  \* the index registries in use
  call,
  tail,      \* resolveTail: the misses that are not settled
  revoked,   \* the keys zotero.org refuses,
  since,     \* and how long ago it could first have said so
  shut       \* has flushIndexes been called, and has it closed the indexes?

vars == <<keys, accounts, entry, registry, call, tail, revoked, since, shut>>

Elements(s) == {s[i] : i \in DOMAIN s}

ContextsTypeOK ==
  /\ keys \in [Users -> Seq(Keys)]
  /\ entry \in [Keys -> Entry \cup {None}]
  /\ \A u \in Users :
       /\ Cardinality(Elements(keys[u])) = Len(keys[u])
       /\ Len(keys[u]) <= KeysPerAccount
       /\ u \in Elements(accounts) <=> keys[u] # <<>>
       /\ Elements(keys[u]) = {k \in Keys : UserOf[k] = u /\ entry[k] # None}
  /\ Len(accounts) = Cardinality(Elements(accounts))
  /\ registry \in [Registries -> Registry \cup {None}]
  /\ call \in [Calls -> Call]
  /\ tail \in Seq(Calls)
  /\ revoked \subseteq Keys
  /\ since \in [Keys -> 0..RecheckAfter]
  /\ shut \in {"no", "flushing", "done"}

Idle == [pc |-> "idle", key |-> None, registry |-> None]

Init ==
  /\ keys = [u \in Users |-> <<>>] /\ accounts = <<>>
  /\ entry = [k \in Keys |-> None]
  /\ registry = [r \in Registries |-> None]
  /\ call = [c \in Calls |-> Idle]
  /\ tail = <<>>
  /\ revoked = {} /\ since = [k \in Keys |-> 0]
  /\ shut = "no"

\* A sequence without the elements of a set: each place that stays, by its rank.
Sans(s, out) ==
  LET places == {i \in DOMAIN s : s[i] \notin out}
      Rank(i) == Cardinality({j \in places : j <= i})
  IN  [n \in 1..Cardinality(places) |-> s[CHOOSE i \in places : Rank(i) = n]]

Without(s, x) == Sans(s, {x})

\* The least recently used of those in S.
First(s, S) ==
  s[CHOOSE i \in DOMAIN s : s[i] \in S /\ \A j \in DOMAIN s : s[j] \in S => i <= j]

Last(s, x) == Append(Without(s, x), x)

\* A closed registry that nobody has any more is collected.
Collected(rs, cs) ==
  LET used == {cs[c].registry : c \in Calls}
  IN  [r \in Registries |-> IF rs[r] # None /\ rs[r].state = "closed" /\ r \notin used
                            THEN None ELSE rs[r]]

\* A call that gets a retired context is refused (registry.ts, resolveContext).
Given(k, e) ==
  IF e.invalidated THEN Idle ELSE [pc |-> "resolved", key |-> k, registry |-> e.registry]

-----------------------------------------------------------------------------
(* resolve.                                                                *)

\* hit marks the key and its account used.
Hit(k) ==
  /\ keys' = [keys EXCEPT ![UserOf[k]] = Last(@, k)]
  /\ accounts' = Last(accounts, UserOf[k])

\* Seeded fault: a cached key is never asked about again.
Trusted_Always(e) == TRUE

Trusted(e) == e.invalidated \/ e.age < RecheckAfter

Asks(c) == call[c] = Idle /\ shut = "no"

\* A hit that may be served, or refused, at once.
ResolveHit(c, k) ==
  /\ Asks(c)
  /\ entry[k] # None /\ Trusted(entry[k])
  /\ Hit(k)
  /\ call' = [call EXCEPT ![c] = Given(k, entry[k])]
  /\ UNCHANGED <<entry, registry, tail, revoked, since, shut>>

\* recheck, which starts the request or joins it.
ResolveDue(c, k) ==
  /\ Asks(c)
  /\ entry[k] # None /\ ~Trusted(entry[k])
  /\ Hit(k)
  /\ entry' = [entry EXCEPT ![k].checking = TRUE]
  /\ call' = [call EXCEPT ![c] = [Idle EXCEPT !.pc = "checking", !.key = k]]
  /\ UNCHANGED <<registry, tail, revoked, since, shut>>

ResolveMiss(c, k) ==
  /\ Asks(c)
  /\ entry[k] = None
  /\ call' = [call EXCEPT ![c] = [Idle EXCEPT !.pc = "queued", !.key = k]]
  /\ tail' = Append(tail, c)
  /\ UNCHANGED <<keys, accounts, entry, registry, revoked, since, shut>>

-----------------------------------------------------------------------------
(* resolveMiss.                                                            *)

\* Each miss waits for the one before it.
Turn(c) == tail # <<>> /\ c = Head(tail)

\* An identical miss was queued before this one.
MissHits(c) ==
  /\ Turn(c) /\ call[c].pc = "queued"
  /\ entry[call[c].key] # None
  /\ Hit(call[c].key)
  /\ call' = [call EXCEPT ![c] = Given(@.key, entry[@.key])]
  /\ tail' = Without(tail, c)
  /\ UNCHANGED <<entry, registry, revoked, since, shut>>

\* Seeded fault: every key opens indexes of its own.
Sibling_None(k) == None

\* The indexes another context of the account holds.
Sibling(k) ==
  IF keys[UserOf[k]] = <<>> THEN None ELSE entry[Head(keys[UserOf[k]])].registry

\* buildContext begins.
Build(c) ==
  /\ Turn(c) /\ call[c].pc = "queued"
  /\ entry[call[c].key] = None
  /\ call' = [call EXCEPT ![c].pc = "building", ![c].registry = Sibling(call[c].key)]
  /\ UNCHANGED <<keys, accounts, entry, registry, tail, revoked, since, shut>>

Settled(c) == Without(tail, c)

\* zotero.org did not confirm the key, or did not answer.
BuildFails(c) ==
  /\ call[c].pc = "building"
  /\ call' = [call EXCEPT ![c] = Idle]
  /\ tail' = Settled(c)
  /\ UNCHANGED <<keys, accounts, entry, registry, revoked, since, shut>>

\* Seeded fault: the key that is being added is not counted.
Stale_OneMore(u) ==
  LET dead == {k \in Elements(keys[u]) : entry[k].invalidated}
      rest == Elements(keys[u]) \ dead
  IN  IF Cardinality(rest) > KeysPerAccount THEN dead \cup {First(keys[u], rest)} ELSE dead

\* dropStaleKeys: the refused keys, and one more if there are still too many.
Stale(u) ==
  LET dead == {k \in Elements(keys[u]) : entry[k].invalidated}
      rest == Elements(keys[u]) \ dead
  IN  IF Cardinality(rest) >= KeysPerAccount THEN dead \cup {First(keys[u], rest)} ELSE dead

Leased(r) == \E c \in Calls : call[c].pc = "searching" /\ call[c].registry = r

\* Seeded fault: an account that is searched may go.
Evictable_Searched(u, added, es, rs, ks) == u # added /\ ~rs[es[Head(ks[u])].registry].building

\* One context answers for all of the account's.
Evictable(u, added, es, rs, ks) ==
  /\ u # added
  /\ LET r == es[Head(ks[u])].registry IN ~rs[r].building /\ ~Leased(r)

\* Seeded fault: a key that makes room is retired and stays.
Dropped_Kept(es, gone) ==
  [k \in Keys |-> IF k \in gone THEN [es[k] EXCEPT !.invalidated = TRUE] ELSE es[k]]

Dropped(es, gone) == [k \in Keys |-> IF k \in gone THEN None ELSE es[k]]

\* The calls that wait for a check of a dropped key wait to be refused.
Waiting(gone) ==
  [d \in Calls |-> IF call[d].pc = "checking" /\ call[d].key \in gone
                   THEN [call[d] EXCEPT !.pc = "retired"] ELSE call[d]]

\* evictIfNeeded's loop from its head, for c, whose key is in the cache now and
\* which has dropped the keys gone: another account is released, or c has its
\* context.
Settle(c, gone, es, rs, ks, accs) ==
  LET k == call[c].key
      free == {u \in Elements(accs) : Evictable(u, UserOf[k], es, rs, ks)}
      oldest == First(accs, free)
      enough == Len(accs) <= MaxEntries \/ free = {}
  IN  \/ /\ enough
         /\ keys' = ks /\ accounts' = accs
         /\ entry' = Dropped(es, gone)
         /\ call' = [Waiting(gone) EXCEPT ![c] = Given(k, es[k])]
         /\ tail' = Settled(c)
         /\ registry' = Collected(rs, call')
      \/ /\ ~enough
         /\ keys' = [ks EXCEPT ![oldest] = <<>>]
         /\ accounts' = Without(accs, oldest)
         /\ LET r == es[Head(ks[oldest])].registry
                all == gone \cup Elements(ks[oldest])
            IN  /\ entry' = Dropped(es, all)
                /\ call' = [Waiting(all) EXCEPT ![c].pc = "evicting", ![c].registry = r]
                /\ registry' = Collected([rs EXCEPT ![r].state = "closing"], call')
         /\ UNCHANGED tail

\* buildContext has answered.
Built(c) ==
  LET k == call[c].key
      u == UserOf[k]
      shared == call[c].registry
      gone == Stale(u)
  IN  /\ call[c].pc = "building"
      /\ k \notin revoked
      /\ \E r \in Registries :
           /\ IF shared # None THEN r = shared
              ELSE registry[r] = None /\ \A q \in 1..(r - 1) : registry[q] # None
           /\ Settle(c, gone,
                     [entry EXCEPT ![k] = [registry |-> r, invalidated |-> FALSE,
                                           age |-> 0, checking |-> FALSE]],
                     IF shared # None THEN registry
                     ELSE [registry EXCEPT ![r] = [user |-> u, state |-> "open", building |-> FALSE]],
                     [keys EXCEPT ![u] = Append(Sans(@, gone), k)],
                     Last(accounts, u))
      /\ UNCHANGED <<revoked, since, shut>>

\* releaseIndexes of the account evicted has ended.
Released(c) ==
  /\ call[c].pc = "evicting"
  /\ Settle(c, {}, entry, [registry EXCEPT ![call[c].registry].state = "closed"], keys, accounts)
  /\ UNCHANGED <<revoked, since, shut>>

-----------------------------------------------------------------------------
(* recheck.                                                                *)

CheckedBy(k) == {c \in Calls : call[c].pc = "checking" /\ call[c].key = k}

Answer(k, e) ==
  call' = [c \in Calls |-> IF c \in CheckedBy(k) THEN Given(k, e) ELSE call[c]]

\* The key is still the account's, or zotero.org did not say.
Confirmed(k) ==
  /\ entry[k] # None /\ entry[k].checking
  /\ since' = [since EXCEPT ![k] = 0]
  /\ entry' = [entry EXCEPT ![k].age = 0, ![k].checking = FALSE]
  /\ Answer(k, entry[k])
  /\ UNCHANGED <<keys, accounts, registry, tail, revoked, shut>>

\* Seeded fault: an account may lose its last key.
Deletable_Last(k) == TRUE

\* The last key stays, retired, and holds the indexes for the next one.
Deletable(k) == Len(keys[UserOf[k]]) > 1

\* A definite refusal.
Refused(k) ==
  /\ entry[k] # None /\ entry[k].checking
  /\ k \in revoked
  /\ LET refused == [entry[k] EXCEPT !.age = 0, !.checking = FALSE, !.invalidated = TRUE]
     IN  /\ Answer(k, refused)
         /\ IF Deletable(k)
            THEN /\ keys' = [keys EXCEPT ![UserOf[k]] = Without(@, k)]
                 /\ entry' = [entry EXCEPT ![k] = None]
            ELSE /\ entry' = [entry EXCEPT ![k] = refused]
                 /\ UNCHANGED keys
  /\ UNCHANGED <<accounts, registry, tail, revoked, since, shut>>

\* The check of a context that has been retired meanwhile.
RefusedLate(c) ==
  /\ call[c].pc = "retired"
  /\ call' = [call EXCEPT ![c] = Idle]
  /\ UNCHANGED <<keys, accounts, entry, registry, tail, revoked, since, shut>>

-----------------------------------------------------------------------------
(* What a handler does with its context.                                   *)

\* withIndex, which leases.  A call whose context was retired after it got it
\* may open an index of the closed registry again; that index is not followed.
StartSearch(c) ==
  /\ call[c].pc = "resolved"
  /\ call' = [call EXCEPT ![c].pc = "searching"]
  /\ UNCHANGED <<keys, accounts, entry, registry, tail, revoked, since, shut>>

\* A job of the index, which outlives the call that started it.
StartBuild(c) ==
  /\ call[c].pc = "resolved"
  /\ call' = [call EXCEPT ![c] = Idle]
  /\ registry' = Collected([registry EXCEPT ![call[c].registry].building =
                              registry[call[c].registry].state = "open"], call')
  /\ UNCHANGED <<keys, accounts, entry, tail, revoked, since, shut>>

BuildEnds(r) ==
  /\ registry[r] # None /\ registry[r].building
  /\ registry' = [registry EXCEPT ![r].building = FALSE]
  /\ UNCHANGED <<keys, accounts, entry, call, tail, revoked, since, shut>>

Ends(c) ==
  /\ call[c].pc \in {"resolved", "searching"}
  /\ call' = [call EXCEPT ![c] = Idle]
  /\ registry' = Collected(registry, call')
  /\ UNCHANGED <<keys, accounts, entry, tail, revoked, since, shut>>

-----------------------------------------------------------------------------
(* zotero.org, time and the shutdown.                                      *)

\* The user deletes the key at zotero.org.
Revoke(k) ==
  /\ k \notin revoked /\ Cardinality(revoked) < MaxRevoked
  /\ revoked' = revoked \cup {k}
  /\ since' = [since EXCEPT ![k] = 0]
  /\ UNCHANGED <<keys, accounts, entry, registry, call, tail, shut>>

\* No context is built, and no account evicted, for as long as a step.
Tick ==
  /\ tail = <<>>
  /\ entry' = [k \in Keys |->
                 IF entry[k] # None /\ entry[k].age < RecheckAfter /\ ~entry[k].invalidated
                 THEN [entry[k] EXCEPT !.age = @ + 1] ELSE entry[k]]
  /\ since' = [k \in Keys |-> IF k \in revoked /\ since[k] < RecheckAfter
                              THEN since[k] + 1 ELSE since[k]]
  /\ UNCHANGED <<keys, accounts, registry, call, tail, revoked, shut>>

\* flushIndexes, after the sessions are drained: no call begins any more.
Flush ==
  /\ shut = "no" /\ shut' = "flushing"
  /\ UNCHANGED <<keys, accounts, entry, registry, call, tail, revoked, since>>

\* Seeded fault: the misses are not waited for.
MissesSettled_Not == TRUE

\* await this.resolveTail
MissesSettled == tail = <<>>

FlushIndexes ==
  /\ shut = "flushing" /\ shut' = "done"
  /\ MissesSettled
  /\ LET held == {entry[Head(keys[u])].registry : u \in Elements(accounts)}
     IN  registry' = [r \in Registries |->
                       IF r \in held THEN [registry[r] EXCEPT !.state = "closed", !.building = FALSE]
                       ELSE registry[r]]
  /\ UNCHANGED <<keys, accounts, entry, call, tail, revoked, since>>

Answering ==
  \/ \E c \in Calls :
       MissHits(c) \/ Build(c) \/ BuildFails(c) \/ Built(c) \/ Released(c) \/ RefusedLate(c)
  \/ \E k \in Keys : Confirmed(k) \/ Refused(k)

\* The process exits when it has flushed.
Next ==
  /\ shut # "done"
  /\ \/ Answering
     \/ \E c \in Calls, k \in Keys : ResolveHit(c, k) \/ ResolveDue(c, k) \/ ResolveMiss(c, k)
     \/ \E c \in Calls : StartSearch(c) \/ StartBuild(c) \/ Ends(c)
     \/ \E r \in Registries : BuildEnds(r)
     \/ \E k \in Keys : Revoke(k)
     \/ Tick \/ Flush \/ FlushIndexes

Spec == Init /\ [][Next]_vars

-----------------------------------------------------------------------------
(* Properties.                                                             *)

InUse(r) == registry[r] # None /\ registry[r].state \in {"open", "closing"}

\* Two clients of one account, first calls of both at once, an eviction of the
\* account while its next call comes in: its index files are never opened
\* twice (server.ts: "so the same files are never opened twice").  A call that
\* goes on with a context it was given before an eviction is not spoken of.
OpenedOnce ==
  \A r, s \in Registries : InUse(r) /\ InUse(s) /\ registry[r].user = registry[s].user => r = s

\* The indexes of an account are open as long as it is cached, and cached as
\* long as they are open: dropping, refusing and replacing keys neither closes
\* nor loses them (dropStaleKeys: "never the indexes").
OpenIffCached ==
  shut # "done" =>
    \A r \in Registries : registry[r] # None =>
      /\ registry[r].state = "open" <=> \E k \in Elements(keys[registry[r].user]) : entry[k].registry = r
      /\ \A k \in Keys : entry[k] # None /\ entry[k].registry = r => registry[r].user = UserOf[k]

\* A context of the cache that is retired is one of a key zotero.org refuses:
\* whoever was only making room is not told to reconnect on its next call
\* (dropStaleKeys: "A dropped key is not refused either").
RetiredMeansRefused ==
  \A k \in Keys : entry[k] # None /\ entry[k].invalidated => k \in revoked

\* flushIndexes leaves nothing open that the cache opened, and nothing that an
\* eviction had begun to close ("closing is what checkpoints SQLite's
\* write-ahead log").
FlushClosesAll ==
  shut = "done" => \A r \in Registries : ~InUse(r)

\* An account's indexes are open once, while it is cached, under whichever key.
AccountIndexes ==
  ContextsTypeOK /\ OpenedOnce /\ OpenIffCached /\ RetiredMeansRefused /\ FlushClosesAll

\* The indexes that are closed to make room are neither searched nor built,
\* through whichever of the account's keys.
EvictsIdle ==
  [][\A r \in Registries :
       /\ registry[r] # None /\ registry[r].state = "open"
       /\ registry'[r] # None /\ registry'[r].state = "closing"
       => ~registry[r].building /\ ~Leased(r)]_vars

Gets(c) == call[c].pc # "resolved" /\ call'[c].pc = "resolved"

\* No call is given the context of a key zotero.org has refused for the recheck
\* interval or longer, unless zotero.org has been asked and did not answer
\* (recheck: "Now it answers for at most recheckAfterMs").
RevokedCutOff ==
  [][\A c \in Calls : Gets(c) /\ call'[c].key \in revoked =>
       since'[call'[c].key] < RecheckAfter]_vars

\* An account's keys and indexes go when they may, and not later.
GoInTime == EvictsIdle /\ RevokedCutOff
=============================================================================
