------------------------------ MODULE Permits ------------------------------
(***************************************************************************)
(* What a counting semaphore promises, with no word of how it counts       *)
(* (the doc comments of lib/semaphore.ts): calls wait or hold a permit,    *)
(* one is granted only under the ceiling in force, and none is kept back   *)
(* while a call waits.                                                     *)
(***************************************************************************)
EXTENDS Naturals, FiniteSets

CONSTANT Clients

VARIABLES
  max,      \* the ceiling in force
  waiting,  \* the calls that asked and hold no permit yet
  holders   \* the calls that hold one

permitVars == <<max, waiting, holders>>

PermitsInit ==
  /\ max \in Nat \ {0}
  /\ waiting = {}
  /\ holders = {}

\* Whatever a step did, grants respect the ceiling it left in force, and it
\* left nobody waiting under that ceiling.
Orderly ==
  /\ holders' \ holders # {} => Cardinality(holders') <= max'
  /\ waiting' # {} => Cardinality(holders') >= max'

\* Those who stop waiting are exactly those who get a permit.
Granted == waiting \ waiting'

Ask(c) ==
  /\ c \notin waiting \cup holders
  /\ \/ holders' = holders \cup {c} /\ UNCHANGED waiting
     \/ waiting' = waiting \cup {c} /\ UNCHANGED holders
  /\ UNCHANGED max

GiveBack(c) ==
  /\ c \in holders
  /\ waiting' \subseteq waiting
  /\ holders' = (holders \ {c}) \cup Granted
  /\ UNCHANGED max

Move ==
  /\ max' \in Nat \ {0}
  /\ waiting' \subseteq waiting
  /\ holders' = holders \cup Granted

PermitsNext == Orderly /\ (Move \/ \E c \in Clients : Ask(c) \/ GiveBack(c))

PermitsSpec == PermitsInit /\ [][PermitsNext]_permitVars
=============================================================================
