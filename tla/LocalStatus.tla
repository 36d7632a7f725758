---------------------------- MODULE LocalStatus ----------------------------
(***************************************************************************)
(* router/local-status.ts: whether the Zotero desktop app's local API can  *)
(* be used, and which group libraries it holds.  Tool calls ask through    *)
(* ensure(); an answer older than its time to live starts a probe, one at  *)
(* a time, and the probe mutates the Capabilities object the router reads. *)
(*                                                                         *)
(* Times are counted in steps of the shortest time to live (5 s).  The age *)
(* of the answer stops counting at the longest one, past which nothing     *)
(* changes any more; so does the count of failures at two.                 *)
(***************************************************************************)
EXTENDS Integers

CONSTANTS
  Groups,       \* the group libraries the desktop app holds
  PositiveTtl,  \* POSITIVE_TTL_MS
  NegativeFloor,    \* NEGATIVE_TTL_FLOOR_MS
  NegativeCeiling,  \* NEGATIVE_TTL_CEILING_MS
  TimeoutTtl,       \* TIMEOUT_TTL_MS
  FailuresBeforeDown

ASSUME StatusAssumption ==
  /\ {PositiveTtl, NegativeFloor, NegativeCeiling, TimeoutTtl} \subseteq Nat \ {0}
  /\ NegativeFloor <= NegativeCeiling /\ NegativeFloor <= TimeoutTtl
  /\ FailuresBeforeDown \in Nat \ {0, 1}

VARIABLES
  desktop,        \* the desktop app: "up", "opening" its database, "refusing", "hung"
  localApi,       \* capabilities.localApi
  localGroupIds,  \* capabilities.localGroupIds
  groupsKnown,    \* the list was read in this up-period
  age,            \* time since checkedAt
  negativeTtl,    \* negativeTtlMs
  failures,       \* consecutiveFailures
  degraded,       \* degradedAt is set
  inflight,       \* the probe in flight: "none", "asking", "listing"
  was,            \* localApi when the probe set out
  history         \* ghost: what the last two probes found, the latest first

answer == <<localApi, localGroupIds, groupsKnown>>
statusVars == <<desktop, answer, age, negativeTtl, failures, degraded, inflight, was, history>>

Desktop == {"up", "opening", "refusing", "hung"}

Smaller(a, b) == IF a < b THEN a ELSE b

\* Saturation of the age: the longest time to live there is.
Oldest == CHOOSE t \in {PositiveTtl, NegativeCeiling, TimeoutTtl} :
            \A u \in {PositiveTtl, NegativeCeiling, TimeoutTtl} : u <= t

StatusTypeOK ==
  /\ desktop \in Desktop
  /\ localApi \in BOOLEAN /\ groupsKnown \in BOOLEAN /\ degraded \in BOOLEAN
  /\ localGroupIds \in SUBSET Groups
  /\ age \in 0..Oldest
  /\ negativeTtl \in NegativeFloor..Oldest
  /\ failures \in 0..FailuresBeforeDown
  /\ inflight \in {"none", "asking", "listing"}
  /\ was \in BOOLEAN
  /\ history \in [last : BOOLEAN, before : BOOLEAN]

\* What listLocalGroupIds() resolves with: it catches its own errors, so a
\* failed listing is an empty one (the desktop app serves fewer than a page).
Listed == IF desktop = "up" THEN Groups ELSE {}

\* probeCapabilities() at startup, then the constructor, which takes the
\* group list for good whenever the startup probe found the app up.
StatusInit ==
  /\ desktop \in Desktop
  /\ localApi \in BOOLEAN
  /\ localGroupIds \in IF localApi THEN {Groups, {}} ELSE {{}}
  /\ groupsKnown = localApi
  /\ age = 0
  /\ negativeTtl = NegativeFloor
  /\ failures = 0
  /\ degraded = FALSE
  /\ inflight = "none"
  /\ was = localApi
  /\ history = [last |-> localApi, before |-> localApi]

\* The user starts or quits Zotero, or it hangs.
DesktopChanges ==
  /\ desktop' \in Desktop \ {desktop}
  /\ UNCHANGED <<answer, age, negativeTtl, failures, degraded, inflight, was, history>>

Tick ==
  /\ age' = Smaller(age + 1, Oldest)
  /\ UNCHANGED <<desktop, answer, negativeTtl, failures, degraded, inflight, was, history>>

\* Seeded faults: a "down" is never asked again; an "up" is never asked again.
Stale_OnlyUp == localApi /\ age >= PositiveTtl
Stale_OnlyDown == ~localApi /\ age >= negativeTtl

Stale == age >= IF localApi THEN PositiveTtl ELSE negativeTtl

\* ensure(): a stale answer, or a call that insists, starts the probe every
\* later call shares.
Ensure(force) ==
  /\ force \/ Stale
  /\ inflight = "none"
  /\ inflight' = "asking"
  /\ was' = localApi
  /\ UNCHANGED <<desktop, answer, age, negativeTtl, failures, degraded, history>>

Remembered(up) == history' = [last |-> up, before |-> history.last]

\* Seeded fault: an answer does not end the run of failures.
FailuresAfterAnswer_Kept == failures

\* consecutiveFailures once the app answered.
FailuresAfterAnswer == 0

\* The app answered.  The group list is read first when it is not known, and
\* published together with the flag.
ProbeUp ==
  /\ inflight = "asking"
  /\ desktop \in {"up", "opening"}
  /\ age' = 0
  /\ negativeTtl' = NegativeFloor
  /\ failures' = FailuresAfterAnswer
  /\ \/ /\ groupsKnown
        /\ localApi' = TRUE
        /\ inflight' = "none"
     \/ /\ ~groupsKnown
        /\ inflight' = "listing"
        /\ UNCHANGED localApi
  /\ Remembered(TRUE)
  /\ UNCHANGED <<desktop, localGroupIds, groupsKnown, degraded, was>>

GroupsListed ==
  /\ inflight = "listing"
  /\ groupsKnown' = TRUE
  /\ localApi' = TRUE
  /\ localGroupIds' = Listed
  /\ inflight' = "none"
  /\ UNCHANGED <<desktop, age, negativeTtl, failures, degraded, was, history>>

\* Seeded faults: no ceiling at all; the wrong one.
NextTtl_Doubles == 2 * negativeTtl
\* A dropped packet costs the whole budget, so it is asked least often.
NextTtl == IF desktop = "hung" THEN TimeoutTtl ELSE Smaller(2 * negativeTtl, NegativeCeiling)

\* Two failures in a row turn an "up" into a "down".
GivesUp == was => failures + 1 >= FailuresBeforeDown

\* Seeded fault: the list of the last up-period stays published.
GroupsWhenDown_Kept == localGroupIds

\* The list once the app has stopped answering.
GroupsWhenDown == IF was THEN {} ELSE localGroupIds

ProbeDown ==
  /\ inflight = "asking"
  /\ desktop \in {"refusing", "hung"}
  /\ age' = 0
  /\ negativeTtl' = NextTtl
  /\ failures' = Smaller(failures + 1, FailuresBeforeDown)
  /\ inflight' = "none"
  /\ \/ /\ ~GivesUp
        /\ UNCHANGED <<answer, degraded>>
     \/ /\ GivesUp
        /\ localApi' = FALSE
        /\ groupsKnown' = (groupsKnown /\ ~was)
        /\ localGroupIds' = GroupsWhenDown
        /\ degraded' = (degraded \/ was)
  /\ Remembered(FALSE)
  /\ UNCHANGED <<desktop, was>>

Probe == ProbeUp \/ GroupsListed \/ ProbeDown

StatusNext == DesktopChanges \/ Tick \/ Probe \/ \E force \in BOOLEAN : Ensure(force)

StatusSpec == StatusInit /\ [][StatusNext]_statusVars

(***************************************************************************)
(* Time passes, a probe has a time budget, and tools keep being called     *)
(* (without it nobody asks and nobody is told anything).  No call insists: *)
(* the times to live alone must do.                                        *)
(***************************************************************************)
StatusFairSpec == StatusSpec /\ WF_statusVars(Tick) /\ WF_statusVars(Probe) /\ WF_statusVars(Ensure(FALSE))

-----------------------------------------------------------------------------

(* The router reads the group list without looking at anything else: a     *)
(* list left over from an app that is gone would send group reads to it    *)
(* (local-status.ts:230-233).  So groups are published only while the app  *)
(* is believed up.                                                         *)
GroupsOnlyWhileUp == localGroupIds # {} => localApi

(* An app known to answer is given up only after two probes in a row went  *)
(* unanswered, whatever answers came and went before                       *)
(* (local-status.ts:222-229).                                              *)
TwoStrikes == [][(localApi /\ ~localApi') => ~history'.last /\ ~history'.before]_statusVars

(* A desktop app that starts is noticed without a restart of the server,   *)
(* however long it was away and however its absence showed                 *)
(* (local-status.ts:54-58, the defect #22).                                *)
StartNoticed == (<>[](desktop \in {"up", "opening"})) => <>[]localApi

(* A desktop app that quits stops being used.                              *)
QuitNoticed == (<>[](desktop \in {"refusing", "hung"})) => <>[]~localApi

\* The app's coming and going is noticed.
AppNoticed == StartNoticed /\ QuitNoticed
=============================================================================
