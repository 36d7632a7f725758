----------------------------- MODULE MCAccounts -----------------------------
(***************************************************************************)
(* A multi-user server for TLC: how a client comes by a token, and which   *)
(* context its calls are given.  The two share no state (a context only    *)
(* knows the Zotero key a verified token carries), so a behaviour          *)
(* exercises one of them.  Two accounts, the first with three keys.        *)
(***************************************************************************)
EXTENDS OAuthGrants, TLC

CONSTANTS
  Users, Keys, Calls, MaxEntries, KeysPerAccount, RecheckAfter, MaxRegistries, MaxRevoked,
  ua, ub, k1, k2, k3, k4

VARIABLES
  part,  \* the component this behaviour exercises
  keys, accounts, entry, registry, call, tail, revoked, since, shut

UserOf == (k1 :> ua) @@ (k2 :> ua) @@ (k3 :> ua) @@ (k4 :> ub)

Contexts == INSTANCE AccountContexts

ASSUME AccountsAssumption == OAuthAssumption /\ Contexts!ContextsAssumption

contextVars == <<keys, accounts, entry, registry, call, tail, revoked, since, shut>>
accountsVars == <<part, vars, contextVars>>

AccountsInit ==
  /\ part \in {"grants", "contexts"}
  /\ Init /\ (part # "grants" => mode = "zotero")
  /\ Contexts!Init

AccountsNext ==
  \/ part = "grants" /\ Next /\ UNCHANGED <<part, contextVars>>
  \/ part = "contexts" /\ Contexts!Next /\ UNCHANGED <<part, vars>>

AccountsSpec == AccountsInit /\ [][AccountsNext]_accountsVars

Symmetry == Permutations({k1, k2, k3}) \cup Permutations(Calls)

\* An account's indexes are opened once, are open while they are cached and closed when
\* the server has shut down; a retired context is refused (server.ts:576).
AccountIndexes == Contexts!AccountIndexes

\* What is closed to make room is idle, and a key zotero.org refuses stops serving in
\* the time a check is trusted for (server.ts:615).
GoInTime == Contexts!GoInTime
=============================================================================
