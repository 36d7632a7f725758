---------------------------- MODULE OAuthGrants ----------------------------
(***************************************************************************)
(* auth/provider.ts over auth/store.ts: Zoteus's own authorization server  *)
(* and the encrypted file behind it.                                       *)
(*                                                                         *)
(* A consent is one authorization request.  It ends in a code, the code in *)
(* a pair of tokens, and the pair's refresh token in the next pair.        *)
(* Consents and codes live in memory; clients and tokens also on disk,     *)
(* where each flush adds a write that starts when the one before it has    *)
(* settled and takes its snapshot then.                                    *)
(*                                                                         *)
(* A consent or code that ran out is dropped when it does, because every   *)
(* reader tests its expiry.  A token that ran out stays where it is until  *)
(* a sweep or a reader removes it, because that changes what is written.   *)
(***************************************************************************)
EXTENDS Naturals, Sequences, FiniteSets

CONSTANTS
  Clients,      \* the clients that ever register
  Consents,     \* the authorizations ever asked for; each is one user's
  Requests,     \* the token requests handled at once
  MaxClients,   \* MAX_CLIENTS
  MaxAttempts,  \* MAX_CONSENT_ATTEMPTS
  MaxPairs,     \* bound: the token pairs a consent ever leads to
  MaxQueued,    \* bound: the file writes waiting at once
  MaxLapses,    \* bound: tokens that run out
  MaxFaults,    \* bound: failed writes and restarts
  None          \* no code, no user, no snapshot yet

OAuthAssumption ==
  /\ IsFiniteSet(Clients) /\ IsFiniteSet(Consents)
  /\ MaxClients \in Nat \ {0} /\ MaxAttempts \in Nat \ {0}
  /\ {MaxPairs, MaxQueued, MaxLapses, MaxFaults} \subseteq Nat
  /\ None \notin Consents /\ None \notin Clients

Modes == {"passcode", "zotero"}

\* A pair of tokens; its access and its refresh token are kept apart below.
Pair == [consent : Consents, n : Nat, user : Consents \cup {None}]

\* A one-time code; n tells the codes of one consent apart.
Code == [consent : Consents, n : Nat, user : Consents \cup {None}]

Store == [clients : Seq(Clients), access : SUBSET Pair, refresh : SUBSET Pair]

EmptyStore == [clients |-> <<>>, access |-> {}, refresh |-> {}]

VARIABLES
  mode,       \* opts.mode, fixed for the process
  client,     \* the client each consent was asked for by
  starting,   \* consents whose request token is on its way from zotero.org
  pending,    \* pending: the wrong passcodes entered so far
  callbacks,  \* consents whose key is on its way from zotero.org
  codes,      \* codes
  requests,   \* the code each token request has been challenged for
  mem,        \* the store in memory
  dirty,      \* FileStore.dirty
  writes,     \* the writes chained in FileStore.writing, by their snapshots
  disk,       \* what the file says
  failed,     \* did the last write to settle fail?
  lapsed,     \* the tokens that have run out
  minted,     \* the codes and pairs minted so far for each consent
  granted,    \* the codes exchanged so far for each consent
  registered, \* the clients ever registered
  faults

flow == <<client, starting, pending, callbacks, codes, requests>>
store == <<mem, dirty, writes, disk, failed>>
others == <<lapsed, minted, granted, registered, faults>>
vars == <<mode, flow, store, others>>

OAuthTypeOK ==
  /\ mode \in Modes
  /\ client \in [Consents -> Clients \cup {None}]
  /\ starting \in SUBSET Consents
  /\ pending \in [Consents -> 0..(MaxAttempts - 1) \cup {None}]
  /\ callbacks \in [Consents -> Nat]
  /\ codes \in SUBSET Code
  /\ requests \in [Requests -> Code \cup {None}]
  /\ mem \in Store /\ disk \in Store
  /\ Len(mem.clients) <= MaxClients
  /\ dirty \in BOOLEAN /\ failed \in BOOLEAN
  /\ writes \in Seq(Store \cup {None})
  /\ lapsed \in [access : SUBSET Pair, refresh : SUBSET Pair]
  /\ minted \in [Consents -> Nat] /\ granted \in [Consents -> Nat]
  /\ registered \in SUBSET Clients
  /\ faults \in 0..MaxFaults

Init ==
  /\ mode \in Modes
  /\ client = [k \in Consents |-> None]
  /\ starting = {} /\ codes = {}
  /\ pending = [k \in Consents |-> None]
  /\ callbacks = [k \in Consents |-> 0]
  /\ requests = [q \in Requests |-> None]
  /\ mem = EmptyStore /\ disk = EmptyStore
  /\ dirty = FALSE /\ failed = FALSE /\ writes = <<>>
  /\ lapsed = [access |-> {}, refresh |-> {}]
  /\ minted = [k \in Consents |-> 0] /\ granted = [k \in Consents |-> 0]
  /\ registered = {} /\ faults = 0

-----------------------------------------------------------------------------
(* The store.                                                              *)

Known(c) == c \in {mem.clients[i] : i \in DOMAIN mem.clients}

\* Seeded fault: a flush during a write is taken to be covered by it.
Chained_Joins == IF writes = <<>> THEN <<None>> ELSE writes

\* flush(): one more write behind those already chained.
Chained == Append(writes, None)

\* A change and its flush; a flush of nothing new returns the last write.
Flush(s) ==
  /\ mem' = s
  /\ IF dirty \/ s # mem
     THEN /\ Len(writes) < MaxQueued
          /\ writes' = Chained
          /\ dirty' = FALSE
     ELSE UNCHANGED <<writes, dirty>>
  /\ UNCHANGED <<disk, failed>>

\* A change that is left to the next flush.
Touch(s) ==
  /\ mem' = s
  /\ dirty' = (dirty \/ s # mem)
  /\ UNCHANGED <<writes, disk, failed>>

\* sweepExpired
Sweep == Touch([mem EXCEPT !.access = @ \ lapsed.access, !.refresh = @ \ lapsed.refresh])

Remaining(i) == SubSeq(writes, 1, i - 1) \o SubSeq(writes, i + 1, Len(writes))

\* Seeded fault: a write does not wait for the one before it.
MayStart_AtOnce(i) == TRUE

\* await prev: only the oldest write runs.
MayStart(i) == i = 1

StartWrite(i) ==
  /\ writes[i] = None /\ MayStart(i)
  /\ writes' = [writes EXCEPT ![i] = mem]
  /\ UNCHANGED <<mode, flow, mem, dirty, disk, failed, others>>

\* The rename.
LandWrite(i) ==
  /\ writes[i] # None
  /\ disk' = writes[i]
  /\ writes' = Remaining(i)
  /\ failed' = FALSE
  /\ UNCHANGED <<mode, flow, mem, dirty, others>>

\* Nothing tries again: the next write does not depend on this one.
WriteFails(i) ==
  /\ writes[i] # None
  /\ faults < MaxFaults /\ faults' = faults + 1
  /\ writes' = Remaining(i)
  /\ failed' = TRUE
  /\ UNCHANGED <<mode, flow, mem, dirty, disk, lapsed, minted, granted, registered>>

\* The shutdown's flush, and that of a revocation that finds no token.
FlushRest ==
  /\ dirty
  /\ Flush(mem)
  /\ UNCHANGED <<mode, flow, others>>

\* The process ends, however, and the next one loads what the file says.
Restart ==
  /\ faults < MaxFaults /\ faults' = faults + 1
  /\ mem' = disk
  /\ dirty' = FALSE /\ failed' = FALSE /\ writes' = <<>>
  /\ starting' = {} /\ codes' = {}
  /\ pending' = [k \in Consents |-> None]
  /\ callbacks' = [k \in Consents |-> 0]
  /\ requests' = [q \in Requests |-> None]
  /\ UNCHANGED <<mode, client, disk, lapsed, minted, granted, registered>>

-----------------------------------------------------------------------------
(* The provider.                                                           *)

\* Seeded fault: the oldest client makes room when the store is over full.
Capped_OneMore(ids) ==
  IF Len(ids) > MaxClients THEN SubSeq(ids, Len(ids) - MaxClients + 1, Len(ids)) ELSE ids

\* capClients: the oldest make room for one more.
Capped(ids) ==
  IF Len(ids) >= MaxClients THEN SubSeq(ids, Len(ids) - MaxClients + 2, Len(ids)) ELSE ids

RegisterClient(c) ==
  /\ c \notin registered
  /\ registered' = registered \cup {c}
  /\ Flush([mem EXCEPT !.clients = Append(Capped(@), c)])
  /\ UNCHANGED <<mode, flow, lapsed, minted, granted, faults>>

Authorize(k, c) ==
  /\ client[k] = None /\ Known(c)
  /\ client' = [client EXCEPT ![k] = c]
  /\ Sweep
  /\ \/ /\ mode = "passcode"
        /\ pending' = [pending EXCEPT ![k] = 0]
        /\ UNCHANGED starting
     \/ /\ mode = "zotero"
        /\ starting' = starting \cup {k}
        /\ UNCHANGED pending
  /\ UNCHANGED <<mode, callbacks, codes, requests, others>>

RequestTokenArrives(k) ==
  /\ k \in starting
  /\ starting' = starting \ {k}
  /\ pending' = [pending EXCEPT ![k] = 0]
  /\ UNCHANGED <<mode, client, callbacks, codes, requests, store, others>>

RequestTokenFails(k) ==
  /\ k \in starting
  /\ starting' = starting \ {k}
  /\ UNCHANGED <<mode, client, pending, callbacks, codes, requests, store, others>>

MintCode(k, user) ==
  /\ codes' = codes \cup {[consent |-> k, n |-> minted[k], user |-> user]}
  /\ minted' = [minted EXCEPT ![k] = @ + 1]

\* The consent is used up before anything is awaited.
Consumed(k) == [pending EXCEPT ![k] = None]

WrongPasscode(k) ==
  /\ mode = "passcode" /\ pending[k] # None
  /\ Sweep
  /\ pending' = IF pending[k] + 1 >= MaxAttempts
                THEN Consumed(k)
                ELSE [pending EXCEPT ![k] = @ + 1]
  /\ UNCHANGED <<mode, client, starting, callbacks, codes, requests, others>>

RightPasscode(k) ==
  /\ mode = "passcode" /\ pending[k] # None
  /\ Sweep
  /\ pending' = Consumed(k)
  /\ MintCode(k, None)
  /\ UNCHANGED <<mode, client, starting, callbacks, requests, lapsed, granted, registered,
                 faults>>

\* completeZoteroCallback, up to the request for the user's key.
ZoteroCallback(k) ==
  /\ mode = "zotero" /\ pending[k] # None
  /\ Sweep
  /\ pending' = Consumed(k)
  /\ callbacks' = [callbacks EXCEPT ![k] = @ + 1]
  /\ UNCHANGED <<mode, client, starting, codes, requests, others>>

KeyArrives(k) ==
  /\ callbacks[k] > 0
  /\ callbacks' = [callbacks EXCEPT ![k] = @ - 1]
  /\ MintCode(k, k)
  /\ UNCHANGED <<mode, client, starting, pending, requests, store, lapsed, granted, registered,
                 faults>>

KeyFails(k) ==
  /\ callbacks[k] > 0
  /\ callbacks' = [callbacks EXCEPT ![k] = @ - 1]
  /\ UNCHANGED <<mode, client, starting, pending, codes, requests, store, others>>

\* A consent page or callback that finds nothing pending still sweeps.
ConsentGone ==
  /\ Sweep
  /\ UNCHANGED <<mode, flow, others>>

-----------------------------------------------------------------------------
(* The token endpoint.                                                     *)

\* challengeForAuthorizationCode: the verifier is compared after this.
Challenge(q, c) ==
  /\ requests[q] = None
  /\ c \in codes /\ Known(client[c.consent])
  /\ requests' = [requests EXCEPT ![q] = c]
  /\ UNCHANGED <<mode, client, starting, pending, callbacks, codes, store, others>>

\* issueTokens: a new pair, added to what is left of the store.
IssueTokens(s, k, user) ==
  LET pair == [consent |-> k, n |-> minted[k], user |-> user]
  IN  /\ minted[k] < MaxPairs
      /\ minted' = [minted EXCEPT ![k] = @ + 1]
      /\ Flush([s EXCEPT !.access = @ \cup {pair}, !.refresh = @ \cup {pair}])

\* Seeded fault: the challenge is taken to have settled it.
StillGood_Challenged(c) == TRUE

\* exchangeAuthorizationCode looks the code up again.
StillGood(c) == c \in codes

ExchangeAuthorizationCode(q) ==
  /\ requests[q] # None /\ StillGood(requests[q])
  /\ requests' = [requests EXCEPT ![q] = None]
  /\ codes' = codes \ {requests[q]}
  /\ granted' = [granted EXCEPT ![requests[q].consent] = @ + 1]
  /\ IssueTokens(mem, requests[q].consent, requests[q].user)
  /\ UNCHANGED <<mode, client, starting, pending, callbacks, lapsed, registered, faults>>

\* The verifier or the redirect URI does not match, or the code is gone.
RefuseExchange(q) ==
  /\ requests[q] # None
  /\ requests' = [requests EXCEPT ![q] = None]
  /\ UNCHANGED <<mode, client, starting, pending, callbacks, codes, store, others>>

\* Seeded faults: the old token stays; the user is left behind.
Rotated_Kept(p) == mem
IdentityOf_Dropped(p) == None

Rotated(p) == [mem EXCEPT !.refresh = @ \ {p}]
IdentityOf(p) == p.user

ExchangeRefreshToken(p) ==
  /\ p \in mem.refresh \ lapsed.refresh
  /\ Known(client[p.consent])
  /\ IssueTokens(Rotated(p), p.consent, IdentityOf(p))
  /\ UNCHANGED <<mode, flow, lapsed, granted, registered, faults>>

\* A token that has run out is removed by whoever presents it, without a flush.
VerifyLapsedToken(p) ==
  /\ p \in mem.access \cap lapsed.access
  /\ Touch([mem EXCEPT !.access = @ \ {p}])
  /\ UNCHANGED <<mode, flow, others>>

RevokeAccess(p) ==
  /\ p \in mem.access /\ Known(client[p.consent])
  /\ Flush([mem EXCEPT !.access = @ \ {p}])
  /\ UNCHANGED <<mode, flow, others>>

RevokeRefresh(p) ==
  /\ p \in mem.refresh /\ Known(client[p.consent])
  /\ Flush([mem EXCEPT !.refresh = @ \ {p}])
  /\ UNCHANGED <<mode, flow, others>>

-----------------------------------------------------------------------------
(* Time.                                                                   *)

ConsentLapses(k) ==
  /\ pending[k] # None
  /\ pending' = [pending EXCEPT ![k] = None]
  /\ UNCHANGED <<mode, client, starting, callbacks, codes, requests, store, others>>

CodeLapses(c) ==
  /\ codes' = codes \ {c}
  /\ UNCHANGED <<mode, client, starting, pending, callbacks, requests, store, others>>

AccessLapses(p) ==
  /\ Cardinality(lapsed.access) + Cardinality(lapsed.refresh) < MaxLapses
  /\ lapsed' = [lapsed EXCEPT !.access = @ \cup {p}]
  /\ UNCHANGED <<mode, flow, store, minted, granted, registered, faults>>

RefreshLapses(p) ==
  /\ Cardinality(lapsed.access) + Cardinality(lapsed.refresh) < MaxLapses
  /\ lapsed' = [lapsed EXCEPT !.refresh = @ \cup {p}]
  /\ UNCHANGED <<mode, flow, store, minted, granted, registered, faults>>

Writing == \E i \in DOMAIN writes : StartWrite(i) \/ LandWrite(i) \/ WriteFails(i)

Consenting ==
  \E k \in Consents :
    \/ \E c \in Clients : Authorize(k, c)
    \/ RequestTokenArrives(k) \/ RequestTokenFails(k)
    \/ WrongPasscode(k) \/ RightPasscode(k)
    \/ ZoteroCallback(k) \/ KeyArrives(k) \/ KeyFails(k)

TokenEndpoint ==
  \/ \E q \in Requests :
       (\E c \in codes : Challenge(q, c)) \/ ExchangeAuthorizationCode(q) \/ RefuseExchange(q)
  \/ \E p \in mem.refresh : ExchangeRefreshToken(p) \/ RevokeRefresh(p)
  \/ \E p \in mem.access : VerifyLapsedToken(p) \/ RevokeAccess(p)

Lapsing ==
  \/ \E k \in Consents : ConsentLapses(k)
  \/ \E c \in codes : CodeLapses(c)
  \/ \E p \in mem.access \ lapsed.access : AccessLapses(p)
  \/ \E p \in mem.refresh \ lapsed.refresh : RefreshLapses(p)

Next ==
  \/ \E c \in Clients : RegisterClient(c)
  \/ Consenting \/ ConsentGone \/ TokenEndpoint \/ Lapsing
  \/ Writing \/ FlushRest \/ Restart

Spec == Init /\ [][Next]_vars

-----------------------------------------------------------------------------
(* Properties.                                                             *)

\* What one consent allows is granted once, whatever is submitted twice and
\* whichever requests race (auth/provider.ts:370 "one-time use").
OneGrantPerConsent == \A k \in Consents : granted[k] <= 1

Held == {mem, disk} \cup ({writes[i] : i \in DOMAIN writes} \ {None})

\* At most one refresh token descends from a consent at any time, in memory,
\* in the file and in whatever may become the file, through rotations,
\* failed writes and restarts (auth/provider.ts:383 "rotate").
OneHeir ==
  \A s \in Held : \A p, q \in s.refresh : p.consent = q.consent => p = q

\* A token speaks for the user who signed in for its consent, and for nobody
\* in passcode mode, however often it was rotated or reloaded: without a user
\* it would open the operator's own library (server.ts:568).
TokensKeepUser ==
  \A s \in Held : \A p \in s.access \cup s.refresh :
    p.user = IF mode = "zotero" THEN p.consent ELSE None

\* What one consent allows stays one authorization, and its user's.
ConsentGrantsOnce == OAuthTypeOK /\ OneGrantPerConsent /\ OneHeir /\ TokensKeepUser

\* Once nothing is left to write, the file says what memory says, unless the
\* last write failed (auth/store.ts:183 "the last rename reflects the newest
\* state").
FileSettles == writes = <<>> /\ ~dirty /\ ~failed => disk = mem

\* The file never falls back to a refresh token that a later one has
\* replaced in it, not even across restarts.
FileMovesForward ==
  [][\A p \in disk.refresh, q \in disk'.refresh : p.consent = q.consent => p.n <= q.n]_vars
=============================================================================
