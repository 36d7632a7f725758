---------------------------- MODULE HttpSessions ----------------------------
(***************************************************************************)
(* The sessions of the HTTP transport (transports/http.ts, factory mode):  *)
(* an initialize admits a session, a call reaches the session it names if  *)
(* its credential is the one that opened it, and a sweep, run by a timer   *)
(* and by an admission beyond the limit, closes sessions that are idle.    *)
(*                                                                         *)
(* A handler runs to its first await in one step, and so do the sweep and  *)
(* the closing of a response.  Time passes in steps; a session's age is    *)
(* how long ago it was last seen.  An id stands for the next one drawn as  *)
(* soon as no session and no response has it.                              *)
(***************************************************************************)
EXTENDS Integers, FiniteSets

CONSTANTS
  Sessions,     \* the ids the SDK draws
  Requests,     \* the requests that may be open at once
  Owners,       \* the credentials sessions are bound to
  MaxSessions,
  IdleMs,
  NoSession

SessionsAssumption ==
  /\ NoSession \notin Sessions
  /\ IsFiniteSet(Requests)
  /\ MaxSessions \in Nat /\ IdleMs \in Nat \ {0}

VARIABLES
  session,   \* transports and owners: every id, whether it is open, and whose
  inFlight,  \* what each session counts as open
  lastSeen,  \* its age
  route      \* the session each open response belongs to

sessionVars == <<session, inFlight, lastSeen, route>>

Unused == [is |-> "unused", owner |-> CHOOSE o \in Owners : TRUE]
Open == {s \in Sessions : session[s].is = "open"}

SessionsInit ==
  /\ session = [s \in Sessions |-> Unused]
  /\ inFlight = [s \in Sessions |-> 0]
  /\ lastSeen = [s \in Sessions |-> 0]
  /\ route = [r \in Requests |-> NoSession]

\* Seeded fault: only calls count, not the initialize.
FirstCount_None == 0

\* track(), of an initialize: its answer is still to be written.
FirstCount == 1

\* track(): r is open on s.
Tracks(s, r) ==
  /\ inFlight' = [inFlight EXCEPT ![s] = @ + 1]
  /\ lastSeen' = [lastSeen EXCEPT ![s] = 0]
  /\ route' = [route EXCEPT ![r] = s]

\* A call is routed to the session it names.
Call(r, o, s) ==
  /\ route[r] = NoSession
  /\ s \in Open /\ session[s].owner = o
  /\ Tracks(s, r)
  /\ UNCHANGED session

Sweepable(open, busy) == {s \in open : busy[s] = 0}

\* How many sessions a sweep closes: all that have expired, and more while too
\* many are held.
Count(open, idle, expired) ==
  LET over == Cardinality(open) - MaxSessions
      want == IF over < Cardinality(idle) THEN over ELSE Cardinality(idle)
  IN IF want > Cardinality(expired) THEN want ELSE Cardinality(expired)

\* sweep(): the sets of sessions it may close, those seen longest ago.
Swept(open, busy, age) ==
  LET idle == Sweepable(open, busy)
      expired == {s \in idle : age[s] >= IdleMs}
  IN {c \in SUBSET idle :
        /\ Cardinality(c) = Count(open, idle, expired)
        /\ \A s \in c, t \in idle \ c : age[s] >= age[t]}

\* forget(): what is left of a session is the responses that are open on it.
Forgotten(s, how) == IF \E r \in Requests : route'[r] = s THEN [Unused EXCEPT !.is = how] ELSE Unused

Forget(gone, how) ==
  /\ session' = [s \in Sessions |-> IF s \in gone THEN Forgotten(s, how) ELSE session[s]]
  /\ inFlight' = [s \in Sessions |-> IF s \in gone THEN 0 ELSE inFlight[s]]
  /\ lastSeen' = [s \in Sessions |-> IF s \in gone THEN 0 ELSE lastSeen[s]]

\* initialize: the session is tracked before a sweep may look at it.
Initialize(r, o, s) ==
  /\ route[r] = NoSession
  /\ session[s].is = "unused"
  /\ route' = [route EXCEPT ![r] = s]
  /\ LET open == Open \cup {s}
         busy == [inFlight EXCEPT ![s] = FirstCount]
         age == [lastSeen EXCEPT ![s] = 0]
     IN \E c \in IF Cardinality(open) > MaxSessions THEN Swept(open, busy, age) ELSE {{}} :
          /\ session' = [x \in Sessions |-> IF x \in c THEN Forgotten(x, "swept")
                                            ELSE IF x = s THEN [is |-> "open", owner |-> o] ELSE session[x]]
          /\ inFlight' = [x \in Sessions |-> IF x \in c THEN 0 ELSE busy[x]]
          /\ lastSeen' = [x \in Sessions |-> IF x \in c THEN 0 ELSE age[x]]

\* Seeded fault: the count is not taken back.
Counted_Up(s) == inFlight[s]

\* What the close handler leaves of the count.
Counted(s) == IF inFlight[s] > 1 THEN inFlight[s] - 1 ELSE 0

\* The response of r is closed: answered, or its client has gone.
Closed(r) ==
  LET s == route[r] IN
  /\ s # NoSession
  /\ route' = [route EXCEPT ![r] = NoSession]
  /\ IF s \in Open
     THEN /\ inFlight' = [inFlight EXCEPT ![s] = Counted(s)]
          /\ lastSeen' = [lastSeen EXCEPT ![s] = 0]
          /\ UNCHANGED session
     ELSE /\ session' = [session EXCEPT ![s] = Forgotten(s, @.is)]
          /\ UNCHANGED <<inFlight, lastSeen>>

\* A DELETE ends its session, whoever else is using it.
Delete(r) ==
  /\ route[r] \in Open
  /\ UNCHANGED route
  /\ Forget({route[r]}, "ended")

\* The timer's sweep.
Sweep ==
  /\ UNCHANGED route
  /\ \E c \in Swept(Open, inFlight, lastSeen) : Forget(c, "swept")

\* drainSessions(), before the process exits: every session is closed.
Drain ==
  /\ UNCHANGED route
  /\ Forget(Open, "ended")

Pass ==
  /\ lastSeen' = [s \in Sessions |-> IF lastSeen[s] < IdleMs /\ s \in Open THEN lastSeen[s] + 1 ELSE lastSeen[s]]
  /\ UNCHANGED <<session, inFlight, route>>

SessionsNext ==
  \/ \E r \in Requests :
       \/ \E o \in Owners, s \in Sessions : Call(r, o, s) \/ Initialize(r, o, s)
       \/ Closed(r) \/ Delete(r)
  \/ Sweep \/ Drain \/ Pass

\* The interval fires and time goes on; a client may keep a response open.
SessionsSpec ==
  SessionsInit /\ [][SessionsNext]_sessionVars /\ WF_sessionVars(Sweep) /\ WF_sessionVars(Pass)

-----------------------------------------------------------------------------

\* A session with a request open on it is never swept, whatever else the sweep
\* has to make room for: neither a long call, nor an open stream, nor the
\* initialize being answered loses its session (http.ts:163).
CallKeepsSession == \A r \in Requests : route[r] # NoSession => session[route[r]].is # "swept"

\* A session that is held for nobody: none stays so for ever, since its client
\* rarely ends it, and the heap it holds is what once ended the process (http.ts:49).
Idles(s) == s \in Open /\ \A r \in Requests : route[r] # s
=============================================================================
