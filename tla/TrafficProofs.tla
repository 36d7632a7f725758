--------------------------- MODULE TrafficProofs ---------------------------
(***************************************************************************)
(* What goes over the network keeps its promises for any number of         *)
(* clients, hosts, sessions, requests, calls and threads, and whatever the *)
(* servers do: a request its budget, a session its call, a thread its      *)
(* owner, a write its one effect.  Each part has an invariant of its own,  *)
(* on its own variables; a step of another part leaves them as they are.   *)
(***************************************************************************)
EXTENDS MCTraffic, FiniteSetTheorems, TLAPS

-----------------------------------------------------------------------------
(* The fetcher.                                                            *)

Stages == {"new", "queued", "backing off", "delaying", "sent",
           "answered", "throttled", "slow", "failed"}

\* A wait that was begun ends within the budget.
GoodRequest ==
  {x \in [origin : Origins, at : Stages, left : Nat, sleep : Nat,
          attempt : 0..FetchRetries, sawRateLimit : BOOLEAN] :
     x.at \in {"backing off", "delaying"} => x.sleep < x.left}

PermitsTypeOK == queue \in Seq(Clients) /\ holders \in SUBSET Clients

BudgetInv ==
  /\ request \in [Clients -> GoodRequest]
  /\ backoff \in [Origins -> Nat]
  /\ PermitsTypeOK

LEMMA ReleaseTypes ==
  ASSUME PermitsTypeOK, NEW r \in Clients, Fetch!Release(r) \/ Fetch!Acquire(r)
  PROVE  PermitsTypeOK'
<1>1. CASE Fetch!Acquire(r)
  BY <1>1 DEF Fetch!Acquire, PermitsTypeOK
<1>2. CASE Fetch!Release(r) /\ queue # <<>>
  <2>1. Head(queue) \in Clients /\ Len(queue) \in Nat /\ Len(queue) >= 1
    BY <1>2 DEF PermitsTypeOK
  <2>2. SubSeq(queue, 1 + 1, Len(queue)) \in Seq(Clients)
    BY <2>1 DEF PermitsTypeOK
  <2> QED BY <1>2, <2>1, <2>2 DEF Fetch!Release, Fetch!Left, PermitsTypeOK
<1>3. CASE Fetch!Release(r) /\ queue = <<>>
  BY <1>3 DEF Fetch!Release, Fetch!HandsOn, PermitsTypeOK
<1> QED BY <1>1, <1>2, <1>3

\* One request becomes x; the others are as they were.
LEMMA BecomesGood ==
  ASSUME BudgetInv, NEW r \in Clients, NEW x \in GoodRequest, Fetch!Becomes(r, x),
         backoff' \in [Origins -> Nat], PermitsTypeOK'
  PROVE  BudgetInv'
BY DEF BudgetInv, Fetch!Becomes

LEMMA SettlesGood ==
  ASSUME BudgetInv, NEW r \in Clients,
         NEW how \in {"answered", "throttled", "slow", "failed"}, Fetch!Settles(r, how),
         backoff' \in [Origins -> Nat]
  PROVE  BudgetInv'
<1>1. Fetch!Settled(how) \in GoodRequest
  <2>1. 0 \in 0..FetchRetries
    BY TrafficAssumption DEF Fetch!FetchAssumption
  <2>2. request[r].origin \in Origins
    BY DEF BudgetInv, GoodRequest
  <2>3. (CHOOSE o \in Origins : TRUE) \in Origins
    BY <2>2
  <2> QED BY <2>1, <2>3 DEF Fetch!Settled, GoodRequest, Stages
<1>2. PermitsTypeOK'
  BY ReleaseTypes DEF BudgetInv, Fetch!Settles
<1> QED BY <1>1, <1>2, BecomesGood DEF Fetch!Settles

LEMMA SemaphoreSame ==
  ASSUME PermitsTypeOK, UNCHANGED Fetch!semaphoreVars
  PROVE  PermitsTypeOK'
BY DEF PermitsTypeOK, Fetch!semaphoreVars

\* A request that is to be sent, or to wait, under what is left of its budget.
LEMMA SendsGood ==
  ASSUME BudgetInv, NEW r \in Clients, NEW x \in GoodRequest, Fetch!Sends(r, x),
         backoff' = backoff
  PROVE  BudgetInv'
<1>1. CASE x.left <= 0
  BY <1>1, SettlesGood DEF Fetch!Sends, Fetch!TimedOut, BudgetInv
<1>2. CASE ~(x.left <= 0)
  <2>1. [x EXCEPT !.at = "sent"] \in GoodRequest
    BY DEF GoodRequest, Stages
  <2>2. PermitsTypeOK'
    BY <1>2, SemaphoreSame DEF Fetch!Sends, BudgetInv
  <2> QED BY <1>2, <2>1, <2>2, BecomesGood DEF Fetch!Sends, BudgetInv
<1> QED BY <1>1, <1>2

LEMMA GoesOutGood ==
  ASSUME BudgetInv, NEW r \in Clients, NEW x \in GoodRequest, Fetch!GoesOut(r, x),
         backoff' = backoff
  PROVE  BudgetInv'
<1>1. Fetch!BackoffWait(x) \in Nat
  BY DEF BudgetInv, GoodRequest, Fetch!BackoffWait
<1>2. CASE /\ Fetch!FitsBudget(x, Fetch!BackoffWait(x))
           /\ Fetch!Becomes(r, [x EXCEPT !.at = "backing off", !.sawRateLimit = TRUE,
                                         !.sleep = Fetch!BackoffWait(x)])
           /\ UNCHANGED Fetch!semaphoreVars
  <2>1. [x EXCEPT !.at = "backing off", !.sawRateLimit = TRUE,
                  !.sleep = Fetch!BackoffWait(x)] \in GoodRequest
    BY <1>1, <1>2 DEF GoodRequest, Stages, Fetch!FitsBudget
  <2> QED BY <1>2, <2>1, SemaphoreSame, BecomesGood DEF BudgetInv
<1>3. CASE Fetch!Settles(r, "throttled")
  BY <1>3, SettlesGood DEF BudgetInv
<1>4. CASE Fetch!Sends(r, x)
  BY <1>4, SendsGood
<1> QED BY <1>2, <1>3, <1>4 DEF Fetch!GoesOut

LEMMA ObservedType ==
  ASSUME BudgetInv, NEW o \in Origins, NEW pause \in Waits \cup {0}
  PROVE  Fetch!Observed(o, pause) \in [Origins -> Nat]
BY TrafficAssumption DEF BudgetInv, Fetch!Observed, Fetch!FetchAssumption

LEMMA OneMore ==
  ASSUME NEW m \in Nat, NEW n \in 0..m, n < m
  PROVE  n + 1 \in 0..m
OBVIOUS

LEMMA ThrottledGood ==
  ASSUME BudgetInv, NEW r \in Clients, Fetch!Throttled(r)
  PROVE  BudgetInv'
<1> DEFINE x == request[r]
<1>1. x \in GoodRequest /\ x.attempt < FetchRetries /\ FetchRetries \in Nat
  BY TrafficAssumption DEF BudgetInv, Fetch!Throttled, Fetch!FetchAssumption
<1>2. PICK pause \in Waits \cup {0}, wait \in Fetch!Delays(r) :
        /\ backoff' = Fetch!Observed(x.origin, pause)
        /\ \/ /\ Fetch!FitsBudget(x, wait)
              /\ Fetch!Becomes(r, [x EXCEPT !.at = "delaying", !.sawRateLimit = TRUE,
                                            !.sleep = wait, !.attempt = @ + 1])
              /\ UNCHANGED Fetch!semaphoreVars
           \/ Fetch!Settles(r, "throttled")
  BY DEF Fetch!Throttled
<1>3. wait \in Nat
  <2>1. x.attempt \in 0..FetchRetries
    BY <1>1 DEF GoodRequest
  <2>2. 2 ^ x.attempt * FirstDelay \in Nat /\ Waits \subseteq Nat
    BY <2>1, TrafficAssumption DEF Fetch!FetchAssumption
  <2> QED BY <1>2, <2>2 DEF Fetch!Delays
<1>4. backoff' \in [Origins -> Nat]
  BY <1>1, <1>2, ObservedType DEF GoodRequest
<1>5. CASE Fetch!Settles(r, "throttled")
  BY <1>4, <1>5, SettlesGood
<1>6. CASE /\ Fetch!FitsBudget(x, wait)
           /\ Fetch!Becomes(r, [x EXCEPT !.at = "delaying", !.sawRateLimit = TRUE,
                                         !.sleep = wait, !.attempt = @ + 1])
           /\ UNCHANGED Fetch!semaphoreVars
  <2> HIDE DEF x
  <2>1. [x EXCEPT !.at = "delaying", !.sawRateLimit = TRUE,
                  !.sleep = wait, !.attempt = @ + 1] \in GoodRequest
    <3>1. /\ x \in [origin : Origins, at : Stages, left : Nat, sleep : Nat,
                    attempt : 0..FetchRetries, sawRateLimit : BOOLEAN]
          /\ x.attempt \in 0..FetchRetries
          /\ wait < x.left
      BY <1>1, <1>6 DEF GoodRequest, Fetch!FitsBudget
    <3>2. x.attempt + 1 \in 0..FetchRetries
      BY <1>1, <3>1, OneMore
    <3> QED BY <1>3, <3>1, <3>2 DEF GoodRequest, Stages
  <2> QED BY <1>4, <1>6, <2>1, SemaphoreSame, BecomesGood DEF BudgetInv
<1> QED BY <1>2, <1>5, <1>6

\* A count of steps, a step later.
OneLess(n) == IF n > 0 THEN n - 1 ELSE 0

LEMMA OneLessFacts ==
  ASSUME NEW n \in Nat, NEW m \in Nat
  PROVE  /\ OneLess(n) \in Nat
         /\ n # 0 => OneLess(n) = n - 1
         /\ ~(n <= 0) => n # 0
         /\ n < m /\ n # 0 => OneLess(n) < OneLess(m) /\ m # 0
BY DEF OneLess

\* Time takes from a budget only what is left of it: whatever would use up the rest is
\* due before.
LEMMA AgedGood ==
  ASSUME NEW x \in GoodRequest,
         x.at \in {"backing off", "delaying"} => x.sleep # 0,
         x.at = "sent" => ~(x.left <= 0)
  PROVE  Fetch!Aged(x) \in GoodRequest
<1> DEFINE runs == x.at \in {"backing off", "delaying", "sent"}
           rest == IF runs THEN OneLess(x.left) ELSE x.left
<1>1. x \in [origin : Origins, at : Stages, left : Nat, sleep : Nat,
            attempt : 0..FetchRetries, sawRateLimit : BOOLEAN]
  BY DEF GoodRequest
<1>2. /\ x.left \in Nat /\ x.sleep \in Nat
      /\ x.at \in {"backing off", "delaying"} => x.sleep < x.left
  BY DEF GoodRequest
<1>3. /\ OneLess(x.left) \in Nat /\ OneLess(x.sleep) \in Nat
      /\ x.left # 0 => OneLess(x.left) = x.left - 1
      /\ ~(x.left <= 0) => x.left # 0
      /\ x.sleep < x.left /\ x.sleep # 0 => /\ OneLess(x.sleep) < OneLess(x.left)
                                            /\ x.left # 0
  BY <1>2, OneLessFacts
<1>4. rest \in Nat
  BY <1>2, <1>3
<1>5. runs => x.left # 0
  BY <1>2, <1>3
<1>6. Fetch!Aged(x) = [x EXCEPT !.left = rest, !.sleep = OneLess(x.sleep)]
  <2>1. Fetch!Aged(x) = [x EXCEPT !.left = IF runs THEN x.left - 1 ELSE x.left,
                                  !.sleep = OneLess(x.sleep)]
    BY DEF Fetch!Aged, OneLess
  <2> HIDE DEF runs
  <2> QED BY <1>3, <1>5, <2>1
<1>7. x.at \in {"backing off", "delaying"} => OneLess(x.sleep) < rest
  BY <1>2, <1>3
<1> HIDE DEF rest, runs
<1> QED BY <1>1, <1>3, <1>4, <1>6, <1>7 DEF GoodRequest

LEMMA TickGood ==
  ASSUME BudgetInv, Fetch!Tick
  PROVE  BudgetInv'
<1>1. ASSUME NEW r \in Clients
      PROVE  Fetch!Aged(request[r]) \in GoodRequest
  <2>1. request[r] \in GoodRequest /\ ~Fetch!Due(r)
    BY DEF BudgetInv, Fetch!Tick
  <2> QED BY <2>1, AgedGood DEF Fetch!Due, Fetch!At
<1>2. request' \in [Clients -> GoodRequest]
  BY <1>1 DEF Fetch!Tick
<1>3. backoff' \in [Origins -> Nat]
  BY DEF Fetch!Tick, BudgetInv
<1>4. PermitsTypeOK'
  BY SemaphoreSame DEF Fetch!Tick, BudgetInv
<1> QED BY <1>2, <1>3, <1>4 DEF BudgetInv

LEMMA BudgetInvKept ==
  ASSUME BudgetInv, Fetch!FetchNext
  PROVE  BudgetInv'
<1>1. ASSUME NEW r \in Clients, Fetch!Call(r)
      PROVE  BudgetInv'
  <2>1. [request[r] EXCEPT !.at = "queued"] \in GoodRequest
    BY DEF BudgetInv, GoodRequest, Stages
  <2>2. PermitsTypeOK'
    BY <1>1, ReleaseTypes DEF Fetch!Call, BudgetInv
  <2> QED BY <1>1, <2>1, <2>2, BecomesGood DEF Fetch!Call, BudgetInv
<1>2. ASSUME NEW r \in Clients, Fetch!Begin(r)
      PROVE  BudgetInv'
  <2>1. [request[r] EXCEPT !.left = Deadline] \in GoodRequest
    <3>1. request[r] \in GoodRequest /\ request[r].at = "queued" /\ Deadline \in Nat
      BY <1>2, TrafficAssumption DEF BudgetInv, Fetch!Begin, Fetch!At, Fetch!FetchAssumption
    <3> QED BY <3>1 DEF GoodRequest
  <2> QED BY <1>2, <2>1, GoesOutGood DEF Fetch!Begin
<1>3. ASSUME NEW r \in Clients, Fetch!Wake(r)
      PROVE  BudgetInv'
  BY <1>3, SendsGood, GoesOutGood DEF Fetch!Wake, BudgetInv
<1>4. ASSUME NEW r \in Clients, Fetch!Abort(r) \/ Fetch!Fails(r)
      PROVE  BudgetInv'
  <2>1. backoff' = backoff
    BY <1>4 DEF Fetch!Abort, Fetch!Fails
  <2>2. Fetch!Settles(r, "failed") \/ Fetch!Settles(r, Fetch!TimedOut(request[r]))
    BY <1>4 DEF Fetch!Abort, Fetch!Fails
  <2>3. Fetch!TimedOut(request[r]) \in {"throttled", "slow"}
    BY DEF Fetch!TimedOut
  <2> QED BY <2>1, <2>2, <2>3, SettlesGood DEF BudgetInv
<1>5. ASSUME NEW r \in Clients, Fetch!Answer(r)
      PROVE  BudgetInv'
  <2>1. request[r].origin \in Origins
    BY DEF BudgetInv, GoodRequest
  <2>2. backoff' \in [Origins -> Nat]
    BY <1>5, <2>1, ObservedType DEF Fetch!Answer
  <2> QED BY <1>5, <2>2, SettlesGood DEF Fetch!Answer
<1> QED BY <1>1, <1>2, <1>3, <1>4, <1>5, ThrottledGood, TickGood
        DEF Fetch!FetchNext, Fetch!Proceeds

-----------------------------------------------------------------------------
(* The sessions.                                                           *)

\* The responses open on session s, where t says whose each is.
OpenOn(t, s) == {r \in Requests : t[r] = s}

\* Whose a session is; an id that is unused is nobody's in particular.
Holders == Owners \cup {Remote!Unused.owner}

SessionTypeOK ==
  /\ session \in [Sessions -> [is : {"unused", "open", "ended"}, owner : Holders]]
  /\ inFlight \in [Sessions -> Nat]
  /\ route \in [Requests -> Sessions \cup {NoSession}]

\* An open session counts the responses on it; an id that is unused has none.
SessionInv ==
  /\ SessionTypeOK
  /\ \A s \in Sessions :
       /\ session[s].is = "open" => inFlight[s] = Cardinality(OpenOn(route, s))
       /\ session[s].is = "unused" => OpenOn(route, s) = {}

\* A response more, a response less.
LEMMA OpenOnFacts ==
  ASSUME NEW t \in [Requests -> Sessions \cup {NoSession}], NEW r \in Requests,
         NEW s \in Sessions
  PROVE  /\ Cardinality(OpenOn(t, s)) \in Nat
         /\ Cardinality(OpenOn(t, s)) = 0 <=> OpenOn(t, s) = {}
         /\ t[r] # s => Cardinality(OpenOn([t EXCEPT ![r] = s], s))
                          = Cardinality(OpenOn(t, s)) + 1
         /\ t[r] = s => /\ Cardinality(OpenOn(t, s)) > 0
                        /\ Cardinality(OpenOn([t EXCEPT ![r] = NoSession], s))
                             = Cardinality(OpenOn(t, s)) - 1
<1> DEFINE S == OpenOn(t, s)
<1>1. NoSession \notin Sessions /\ IsFiniteSet(Requests)
  BY TrafficAssumption DEF Remote!SessionsAssumption, Remote!IsFiniteSet, IsFiniteSet
<1>2. IsFiniteSet(S)
  BY <1>1, FS_Subset DEF OpenOn
<1>3. t[r] # s => /\ OpenOn([t EXCEPT ![r] = s], s) = S \cup {r}
                  /\ r \notin S
  BY DEF OpenOn
<1>4. t[r] = s => /\ OpenOn([t EXCEPT ![r] = NoSession], s) = S \ {r}
                  /\ r \in S
  BY <1>1 DEF OpenOn
<1> HIDE DEF S
<1>5. Cardinality(S) \in Nat /\ (Cardinality(S) = 0 <=> S = {})
  BY <1>2, FS_CardinalityType, FS_EmptySet
<1>6. t[r] # s => Cardinality(S \cup {r}) = Cardinality(S) + 1
  BY <1>2, <1>3, FS_AddElement
<1>7. t[r] = s => Cardinality(S) > 0 /\ Cardinality(S \ {r}) = Cardinality(S) - 1
  <2>1. t[r] = s => Cardinality(S) # 0
    BY <1>4, <1>5
  <2>2. t[r] = s => Cardinality(S \ {r}) = Cardinality(S) - 1
    BY <1>2, <1>4, FS_RemoveElement
  <2> QED BY <1>5, <2>1, <2>2
<1> QED BY <1>3, <1>4, <1>5, <1>6, <1>7 DEF S

\* What is open on another session does not change.
LEMMA OthersKeep ==
  ASSUME SessionTypeOK, NEW r \in Requests, NEW y, route' = [route EXCEPT ![r] = y],
         NEW x \in Sessions, route[r] # x, y # x
  PROVE  OpenOn(route', x) = OpenOn(route, x)
BY DEF OpenOn, SessionTypeOK

LEMMA CallKeeps ==
  ASSUME SessionInv, NEW r \in Requests, NEW o \in Owners, NEW s \in Sessions,
         Remote!Call(r, o, s)
  PROVE  SessionInv'
<1>1. /\ route[r] = NoSession /\ session[s].is = "open" /\ session' = session
      /\ inFlight' = [inFlight EXCEPT ![s] = @ + 1] /\ route' = [route EXCEPT ![r] = s]
  BY DEF Remote!Call, Remote!Tracks, Remote!Open
<1>2. SessionTypeOK /\ NoSession \notin Sessions
  BY TrafficAssumption DEF SessionInv, Remote!SessionsAssumption
<1>3. SessionTypeOK'
  BY <1>1, <1>2 DEF SessionTypeOK
<1>4. ASSUME NEW x \in Sessions
      PROVE  /\ session'[x].is = "open" => inFlight'[x] = Cardinality(OpenOn(route', x))
             /\ session'[x].is = "unused" => OpenOn(route', x) = {}
  <2>1. CASE x = s
    <3>1. Cardinality(OpenOn(route', s)) = Cardinality(OpenOn(route, s)) + 1
      BY <1>1, <1>2, OpenOnFacts DEF SessionTypeOK
    <3>2. inFlight'[s] = inFlight[s] + 1
      BY <1>1, <1>2 DEF SessionTypeOK
    <3> QED BY <1>1, <2>1, <3>1, <3>2 DEF SessionInv
  <2>2. CASE x # s
    <3>1. OpenOn(route', x) = OpenOn(route, x)
      BY <1>1, <1>2, <2>2, OthersKeep
    <3>2. inFlight'[x] = inFlight[x]
      BY <1>1, <1>2, <2>2 DEF SessionTypeOK
    <3> QED BY <1>1, <3>1, <3>2 DEF SessionInv
  <2> QED BY <2>1, <2>2
<1> QED BY <1>3, <1>4 DEF SessionInv

\* A sweep takes only sessions on which nothing is open, so nothing is left of them.
LEMMA SweptAreIdle ==
  ASSUME NEW open, NEW busy, NEW age, NEW c \in Remote!Swept(open, busy, age), NEW s \in c
  PROVE  s \in open /\ busy[s] = 0
BY DEF Remote!Swept, Remote!Sweepable

LEMMA InitializeKeeps ==
  ASSUME SessionInv, NEW r \in Requests, NEW o \in Owners, NEW s \in Sessions,
         Remote!Initialize(r, o, s)
  PROVE  SessionInv'
<1> DEFINE open == Remote!Open \cup {s}
           busy == [inFlight EXCEPT ![s] = Remote!FirstCount]
           age == [lastSeen EXCEPT ![s] = 0]
<1>1. /\ route[r] = NoSession /\ session[s].is = "unused" /\ route' = [route EXCEPT ![r] = s]
  BY DEF Remote!Initialize
<1>2. SessionTypeOK /\ NoSession \notin Sessions
  BY TrafficAssumption DEF SessionInv, Remote!SessionsAssumption
<1>3. PICK c \in Remote!Swept(open, busy, age) \cup {{}} :
        /\ session' = [x \in Sessions |->
                         IF x \in c THEN Remote!Forgotten(x, "swept")
                         ELSE IF x = s THEN [is |-> "open", owner |-> o] ELSE session[x]]
        /\ inFlight' = [x \in Sessions |-> IF x \in c THEN 0 ELSE busy[x]]
  BY DEF Remote!Initialize
<1>4. \A x \in c : x \in open /\ busy[x] = 0
  BY SweptAreIdle
<1>5. busy \in [Sessions -> Nat] /\ busy[s] = 1
  BY <1>2 DEF SessionTypeOK, Remote!FirstCount
<1>6. \A x \in Sessions : x # s => busy[x] = inFlight[x] /\ OpenOn(route', x) = OpenOn(route, x)
  <2> TAKE x \in Sessions
  <2>1. x # s => OpenOn(route', x) = OpenOn(route, x)
    BY <1>1, <1>2, OthersKeep
  <2>2. x # s => busy[x] = inFlight[x]
    BY <1>2 DEF SessionTypeOK
  <2> QED BY <2>1, <2>2
<1>7. s \notin c
  BY <1>4, <1>5
<1>8. \A x \in c \cap Sessions : OpenOn(route', x) = {} /\ Remote!Forgotten(x, "swept") = Remote!Unused
  <2> TAKE x \in c \cap Sessions
  <2>1. x # s /\ session[x].is = "open" /\ inFlight[x] = 0
    BY <1>4, <1>6, <1>7 DEF Remote!Open
  <2>2. OpenOn(route', x) = {}
    BY <1>2, <1>6, <2>1, OpenOnFacts DEF SessionInv, SessionTypeOK
  <2> QED BY <2>2 DEF Remote!Forgotten, OpenOn
<1>9. Cardinality(OpenOn(route', s)) = 1
  <2>1. OpenOn(route, s) = {}
    BY <1>1 DEF SessionInv
  <2>2. Cardinality(OpenOn(route, s)) = 0
    BY <2>1, FS_EmptySet
  <2>3. Cardinality(OpenOn(route', s)) = Cardinality(OpenOn(route, s)) + 1
    BY <1>1, <1>2, OpenOnFacts DEF SessionTypeOK
  <2> QED BY <2>2, <2>3
<1> HIDE DEF open, busy, age
<1>10. Remote!Unused \in [is : {"unused", "open", "ended"}, owner : Holders] /\ Remote!Unused.is = "unused"
  BY DEF Remote!Unused, Holders
<1>11. SessionTypeOK'
  <2>1. session' \in [Sessions -> [is : {"unused", "open", "ended"}, owner : Holders]]
    <3>1. [is |-> "open", owner |-> o] \in [is : {"unused", "open", "ended"}, owner : Holders]
      BY DEF Holders
    <3> QED BY <1>2, <1>3, <1>8, <1>10, <3>1 DEF SessionTypeOK
  <2>2. inFlight' \in [Sessions -> Nat]
    BY <1>3, <1>5
  <2> QED BY <1>1, <1>2, <2>1, <2>2 DEF SessionTypeOK
<1>12. ASSUME NEW x \in Sessions
       PROVE  /\ session'[x].is = "open" => inFlight'[x] = Cardinality(OpenOn(route', x))
              /\ session'[x].is = "unused" => OpenOn(route', x) = {}
  <2>1. CASE x \in c
    BY <1>3, <1>8, <1>10, <2>1
  <2>2. CASE x = s
    BY <1>3, <1>5, <1>7, <1>9, <2>2
  <2>3. CASE x \notin c /\ x # s
    BY <1>3, <1>6, <2>3 DEF SessionInv
  <2> QED BY <2>1, <2>2, <2>3
<1> QED BY <1>11, <1>12 DEF SessionInv

\* What is left of a session that is closed: nothing, or the responses still open on it.
LEMMA ForgottenFacts ==
  ASSUME NEW s \in Sessions, NEW how \in {"ended", "unused", "swept"},
         how = "swept" => OpenOn(route', s) = {}
  PROVE  /\ Remote!Forgotten(s, how) \in [is : {"unused", "open", "ended"}, owner : Holders]
         /\ Remote!Forgotten(s, how).is # "open"
         /\ Remote!Forgotten(s, how).is = "unused" => how = "unused" \/ OpenOn(route', s) = {}
<1>1. CASE OpenOn(route', s) = {}
  <2>1. Remote!Forgotten(s, how) = Remote!Unused
    BY <1>1 DEF Remote!Forgotten, OpenOn
  <2> QED BY <1>1, <2>1 DEF Remote!Unused, Holders
<1>2. CASE OpenOn(route', s) # {}
  <2>1. Remote!Forgotten(s, how) = [Remote!Unused EXCEPT !.is = how]
    BY <1>2 DEF Remote!Forgotten, OpenOn
  <2>2. how \in {"ended", "unused"}
    BY <1>2
  <2> QED BY <2>1, <2>2 DEF Remote!Unused, Holders
<1> QED BY <1>1, <1>2

LEMMA ForgetKeeps ==
  ASSUME SessionInv, NEW gone, NEW how \in {"ended", "swept"}, route' = route,
         Remote!Forget(gone, how),
         how = "swept" => \A s \in gone \cap Sessions : OpenOn(route, s) = {}
  PROVE  SessionInv'
<1>1. \A s \in gone \cap Sessions :
        /\ Remote!Forgotten(s, how) \in [is : {"unused", "open", "ended"}, owner : Holders]
        /\ Remote!Forgotten(s, how).is # "open"
        /\ Remote!Forgotten(s, how).is = "unused" => OpenOn(route', s) = {}
  <2> TAKE s \in gone \cap Sessions
  <2>1. how = "swept" => OpenOn(route', s) = {}
    BY DEF OpenOn
  <2> QED BY <2>1, ForgottenFacts
<1>2. /\ session' = [s \in Sessions |-> IF s \in gone THEN Remote!Forgotten(s, how) ELSE session[s]]
      /\ inFlight' = [s \in Sessions |-> IF s \in gone THEN 0 ELSE inFlight[s]]
  BY DEF Remote!Forget
<1>3. SessionTypeOK'
  BY <1>1, <1>2 DEF SessionInv, SessionTypeOK
<1>4. ASSUME NEW s \in Sessions
      PROVE  /\ session'[s].is = "open" => inFlight'[s] = Cardinality(OpenOn(route', s))
             /\ session'[s].is = "unused" => OpenOn(route', s) = {}
  <2>1. CASE s \in gone
    BY <1>1, <1>2, <2>1
  <2>2. CASE s \notin gone
    BY <1>2, <2>2 DEF SessionInv
  <2> QED BY <2>1, <2>2
<1> QED BY <1>3, <1>4 DEF SessionInv

LEMMA ClosedKeeps ==
  ASSUME SessionInv, NEW r \in Requests, Remote!Closed(r)
  PROVE  SessionInv'
<1> DEFINE s == route[r]
<1>1. SessionTypeOK /\ NoSession \notin Sessions
  BY TrafficAssumption DEF SessionInv, Remote!SessionsAssumption
<1>2. s \in Sessions /\ route' = [route EXCEPT ![r] = NoSession]
  BY <1>1 DEF SessionTypeOK, Remote!Closed
<1>3. \A x \in Sessions : x # s => OpenOn(route', x) = OpenOn(route, x)
  BY <1>1, <1>2, OthersKeep
<1>4. CASE s \in Remote!Open
  <2>1. /\ inFlight' = [inFlight EXCEPT ![s] = Remote!Counted(s)] /\ session' = session
        /\ session[s].is = "open"
    BY <1>4 DEF Remote!Closed, Remote!Open
  <2>2. /\ inFlight[s] = Cardinality(OpenOn(route, s)) /\ Cardinality(OpenOn(route, s)) > 0
        /\ Cardinality(OpenOn(route', s)) = Cardinality(OpenOn(route, s)) - 1
    BY <1>1, <1>2, <2>1, OpenOnFacts DEF SessionInv, SessionTypeOK
  <2>3. inFlight[s] \in Nat
    BY <1>1, <1>2 DEF SessionTypeOK
  <2>4. Remote!Counted(s) \in Nat /\ Remote!Counted(s) = Cardinality(OpenOn(route', s))
    BY <2>2, <2>3 DEF Remote!Counted
  <2> HIDE DEF s
  <2>5. SessionTypeOK'
    BY <1>1, <1>2, <2>1, <2>4 DEF SessionTypeOK
  <2>6. ASSUME NEW x \in Sessions
        PROVE  /\ session'[x].is = "open" => inFlight'[x] = Cardinality(OpenOn(route', x))
               /\ session'[x].is = "unused" => OpenOn(route', x) = {}
    <3>1. CASE x = s
      BY <1>1, <2>1, <2>4, <3>1 DEF SessionTypeOK
    <3>2. CASE x # s
      BY <1>1, <1>3, <2>1, <3>2 DEF SessionInv, SessionTypeOK
    <3> QED BY <3>1, <3>2
  <2> QED BY <2>5, <2>6 DEF SessionInv
<1>5. CASE s \notin Remote!Open
  <2> DEFINE how == session[s].is
  <2>1. session' = [session EXCEPT ![s] = Remote!Forgotten(s, how)] /\ inFlight' = inFlight
    BY <1>5 DEF Remote!Closed
  <2>2. how = "ended"
    <3>1. how # "open"
      BY <1>2, <1>5 DEF Remote!Open
    <3>2. r \in OpenOn(route, s)
      BY DEF OpenOn
    <3>3. how # "unused"
      BY <1>2, <3>2 DEF SessionInv
    <3> QED BY <1>1, <1>2, <3>1, <3>3 DEF SessionTypeOK
  <2>3. /\ Remote!Forgotten(s, how) \in [is : {"unused", "open", "ended"}, owner : Holders]
        /\ Remote!Forgotten(s, how).is # "open"
        /\ Remote!Forgotten(s, how).is = "unused" => OpenOn(route', s) = {}
    BY <1>2, <2>2, ForgottenFacts
  <2> HIDE DEF s, how
  <2>4. SessionTypeOK'
    BY <1>1, <1>2, <2>1, <2>3 DEF SessionTypeOK
  <2>5. ASSUME NEW x \in Sessions
        PROVE  /\ session'[x].is = "open" => inFlight'[x] = Cardinality(OpenOn(route', x))
               /\ session'[x].is = "unused" => OpenOn(route', x) = {}
    <3>1. CASE x = s
      BY <1>1, <2>1, <2>3, <3>1 DEF SessionTypeOK
    <3>2. CASE x # s
      BY <1>1, <1>3, <2>1, <3>2 DEF SessionInv, SessionTypeOK
    <3> QED BY <3>1, <3>2
  <2> QED BY <2>4, <2>5 DEF SessionInv
<1> QED BY <1>4, <1>5

LEMMA SweepKeeps ==
  ASSUME SessionInv, Remote!Sweep
  PROVE  SessionInv'
<1>1. PICK c \in Remote!Swept(Remote!Open, inFlight, lastSeen) : Remote!Forget(c, "swept")
  BY DEF Remote!Sweep
<1>2. \A s \in c \cap Sessions : OpenOn(route, s) = {}
  <2> TAKE s \in c \cap Sessions
  <2>1. session[s].is = "open" /\ inFlight[s] = 0
    BY SweptAreIdle DEF Remote!Open
  <2>2. IsFiniteSet(OpenOn(route, s))
    BY TrafficAssumption, FS_Subset
       DEF OpenOn, Remote!SessionsAssumption, Remote!IsFiniteSet, IsFiniteSet
  <2>3. Cardinality(OpenOn(route, s)) = 0
    BY <2>1 DEF SessionInv
  <2> QED BY <2>2, <2>3, FS_EmptySet
<1>3. route' = route
  BY DEF Remote!Sweep
<1> QED BY <1>1, <1>2, <1>3, ForgetKeeps

LEMMA SessionInvKept ==
  ASSUME SessionInv, Remote!SessionsNext
  PROVE  SessionInv'
<1>1. ASSUME NEW r \in Requests, Remote!Delete(r)
      PROVE  SessionInv'
  BY <1>1, ForgetKeeps DEF Remote!Delete
<1>2. ASSUME Remote!Drain
      PROVE  SessionInv'
  BY <1>2, ForgetKeeps DEF Remote!Drain
<1>3. ASSUME Remote!Pass
      PROVE  SessionInv'
  <2>1. session' = session /\ inFlight' = inFlight /\ route' = route
    BY <1>3 DEF Remote!Pass
  <2>2. \A s \in Sessions : OpenOn(route', s) = OpenOn(route, s)
    BY <2>1 DEF OpenOn
  <2> QED BY <2>1, <2>2 DEF SessionInv, SessionTypeOK
<1> QED BY <1>1, <1>2, <1>3, CallKeeps, InitializeKeeps, ClosedKeeps, SweepKeeps
        DEF Remote!SessionsNext

\* With nothing open, the counts are right.
LEMMA SessionInvInit ==
  ASSUME Remote!SessionsInit
  PROVE  SessionInv
<1>1. NoSession \notin Sessions
  BY TrafficAssumption DEF Remote!SessionsAssumption
<1>2. SessionTypeOK
  BY DEF Remote!SessionsInit, SessionTypeOK, Remote!Unused, Holders
<1>3. \A s \in Sessions : session[s].is = "unused" /\ OpenOn(route, s) = {}
  BY <1>1 DEF Remote!SessionsInit, Remote!Unused, OpenOn
<1> QED BY <1>2, <1>3 DEF SessionInv

-----------------------------------------------------------------------------
(* The model in its thread.                                                *)

Models == Workers \cup {Thread, None}

ModelTypeOK ==
  /\ provider \in [worker : Models, extractor : Models, loading : Models, closing : BOOLEAN]
  /\ workers \in [Workers -> {"none", "loading", "ready", "failed", "stopped", "lost"}]

\* The provider has a load in flight, or a model, or neither; the thread of either is the
\* only one that is alive; a close() that waits has a load to wait for.
ModelInv ==
  /\ ModelTypeOK
  /\ \A w \in Workers :
       /\ workers[w] \in {"loading", "lost"} => provider.loading = w
       /\ workers[w] = "ready" => provider.worker = w
  /\ provider.loading # None => provider.worker = None /\ provider.extractor = None
  /\ provider.worker # None => provider.extractor # None
  /\ provider.closing => provider.loading # None

LEMMA ModelFacts ==
  ASSUME ModelInv
  PROVE  /\ None \notin Workers /\ Thread \notin Workers /\ Thread # None
         /\ \A w \in Workers : /\ provider.loading # w => workers[w] \notin {"loading", "lost"}
                               /\ provider.worker # w => workers[w] # "ready"
         /\ provider.loading # None => \A w \in Workers : workers[w] # "ready"
<1>1. None \notin Workers /\ Thread \notin Workers /\ Thread # None
  BY TrafficAssumption DEF Embed!EmbedAssumption
<1> QED BY <1>1 DEF ModelInv

\* A provider without a load or a model, and no thread that works for it.
LEMMA NothingHeld ==
  ASSUME ModelTypeOK', provider'.worker = None, provider'.extractor = None,
         provider'.loading = None, provider'.closing = FALSE,
         \A w \in Workers : workers'[w] \notin {"loading", "lost", "ready"}
  PROVE  ModelInv'
BY DEF ModelInv

LEMMA EmbedKeeps ==
  ASSUME ModelInv, NEW c \in Calls, Embed!Embed(c)
  PROVE  ModelInv'
<1>1. CASE UNCHANGED <<provider, workers>>
  BY <1>1 DEF ModelInv, ModelTypeOK
<1>2. CASE /\ provider.extractor = None /\ provider.loading = None /\ workers' = workers
           /\ provider' = [provider EXCEPT !.loading = Thread]
  <2>1. provider.worker = None
    BY <1>2 DEF ModelInv
  <2> QED BY <1>2, <2>1, ModelFacts DEF ModelInv, ModelTypeOK, Models
<1>3. ASSUME NEW w \in Workers, provider.extractor = None, provider.loading = None,
             workers' = [workers EXCEPT ![w] = "loading"],
             provider' = [provider EXCEPT !.loading = w]
      PROVE  ModelInv'
  <2>1. provider.worker = None
    BY <1>3 DEF ModelInv
  <2>2. \A v \in Workers : workers[v] \notin {"loading", "lost", "ready"}
    BY <1>3, <2>1, ModelFacts
  <2> QED BY <1>3, <2>1, <2>2, ModelFacts DEF ModelInv, ModelTypeOK, Models
<1> QED BY <1>1, <1>2, <1>3 DEF Embed!Embed

\* A load that ends leaves the provider with its model or with none, and a close() that
\* waited for it ends the thread.
LEMMA LoadedKeeps ==
  ASSUME ModelInv, NEW m \in Workers \cup {Thread}, provider.loading = m, Embed!Loaded(m)
  PROVE  ModelInv'
<1>1. /\ m # None /\ provider.worker = None
      /\ \A v \in Workers : workers[v] # "ready" /\ (v # m => workers[v] \notin {"loading", "lost"})
  BY ModelFacts DEF ModelInv
<1>2. CASE provider.closing
  <2>1. /\ provider' = [provider EXCEPT !.worker = None, !.extractor = None, !.loading = None,
                                        !.closing = FALSE]
        /\ workers' = IF m \in Workers THEN [workers EXCEPT ![m] = "stopped"] ELSE workers
    BY <1>2 DEF Embed!Loaded, Embed!Closed
  <2>2. \A v \in Workers : workers'[v] \notin {"loading", "lost", "ready"}
    BY <1>1, <2>1 DEF ModelInv, ModelTypeOK
  <2>3. ModelTypeOK'
    BY <2>1 DEF ModelInv, ModelTypeOK, Models
  <2> QED BY <2>1, <2>2, <2>3, NothingHeld DEF ModelInv, ModelTypeOK
<1>3. CASE ~provider.closing
  <2>1. /\ provider' = [provider EXCEPT !.extractor = m, !.loading = None,
                                        !.worker = IF m \in Workers THEN m ELSE provider.worker]
        /\ workers' = IF m \in Workers THEN [workers EXCEPT ![m] = "ready"] ELSE workers
    BY <1>3 DEF Embed!Loaded, ModelInv, ModelTypeOK
  <2>2. ModelTypeOK'
    BY <2>1 DEF ModelInv, ModelTypeOK, Models
  <2> QED BY <1>1, <1>3, <2>1, <2>2 DEF ModelInv, ModelTypeOK
<1> QED BY <1>2, <1>3

\* A load that failed leaves nothing behind, whichever thread it ran on.
LEMMA LoadFailedKeeps ==
  ASSUME ModelInv, NEW m \in Workers \cup {Thread}, provider.loading = m,
         NEW ws \in [Workers -> {"none", "loading", "ready", "failed", "stopped", "lost"}],
         \A v \in Workers : IF v = m THEN ws[v] = "stopped" ELSE ws[v] = workers[v],
         Embed!LoadFailed(ws)
  PROVE  ModelInv'
<1>1. /\ provider.worker = None /\ provider.extractor = None
      /\ \A v \in Workers : workers[v] # "ready" /\ (v # m => workers[v] \notin {"loading", "lost"})
  BY ModelFacts DEF ModelInv
<1>2. /\ workers' = ws
      /\ provider' = IF provider.closing
                     THEN [provider EXCEPT !.worker = None, !.extractor = None, !.loading = None,
                                           !.closing = FALSE]
                     ELSE [provider EXCEPT !.loading = None]
  BY DEF Embed!LoadFailed, Embed!Closed
<1>3. \A v \in Workers : workers'[v] \notin {"loading", "lost", "ready"}
  BY <1>1, <1>2
<1>4. ModelTypeOK'
  BY <1>2 DEF ModelInv, ModelTypeOK, Models
<1>5. /\ provider'.worker = None /\ provider'.extractor = None
      /\ provider'.loading = None /\ provider'.closing = FALSE
  BY <1>1, <1>2 DEF ModelInv, ModelTypeOK
<1> QED BY <1>3, <1>4, <1>5, NothingHeld

LEMMA CrashKeeps ==
  ASSUME ModelInv, NEW w \in Workers, Embed!Crash(w)
  PROVE  ModelInv'
<1>1. provider' = provider
  BY DEF Embed!Crash
<1>2. CASE provider.loading = w
  <2>1. workers' = [workers EXCEPT ![w] = "lost"]
    BY <1>2 DEF Embed!Crash
  <2> QED BY <1>1, <1>2, <2>1 DEF ModelInv, ModelTypeOK
<1>3. CASE provider.loading # w
  <2>1. workers' = [workers EXCEPT ![w] = "failed"]
    BY <1>3 DEF Embed!Crash
  <2> QED BY <1>1, <1>3, <2>1 DEF ModelInv, ModelTypeOK
<1> QED BY <1>2, <1>3

\* A thread that has gone was the provider's, which then has nothing, or it was nobody's.
LEMMA WorkerGoneKeeps ==
  ASSUME ModelInv, NEW w \in Workers, Embed!WorkerGone(w)
  PROVE  ModelInv'
<1>1. PICK gone \in {"stopped", "none"} : workers' = [workers EXCEPT ![w] = gone]
  BY DEF Embed!WorkerGone, ModelInv, ModelTypeOK
<1>2. CASE provider.worker = w
  <2>1. provider' = [provider EXCEPT !.worker = None, !.extractor = None, !.loading = None]
    BY <1>2 DEF Embed!WorkerGone
  <2>2. provider.loading = None /\ ~provider.closing
    BY <1>2, ModelFacts DEF ModelInv
  <2>3. \A v \in Workers : workers'[v] \notin {"loading", "lost", "ready"}
    BY <1>1, <1>2, <2>2, ModelFacts DEF ModelInv, ModelTypeOK
  <2>4. ModelTypeOK'
    BY <1>1, <2>1 DEF ModelInv, ModelTypeOK, Models
  <2> QED BY <2>1, <2>2, <2>3, <2>4, NothingHeld DEF ModelInv, ModelTypeOK
<1>3. CASE provider.worker # w
  <2>1. provider' = provider
    BY <1>3 DEF Embed!WorkerGone
  <2> QED BY <1>1, <2>1 DEF ModelInv, ModelTypeOK
<1> QED BY <1>2, <1>3

LEMMA WorkerUnavailableKeeps ==
  ASSUME ModelInv, NEW w \in Workers, Embed!WorkerUnavailable(w)
  PROVE  ModelInv'
<1>1. /\ workers[w] = "lost" /\ workers' = [workers EXCEPT ![w] = "stopped"]
      /\ provider' = [provider EXCEPT !.loading = Thread]
  BY DEF Embed!WorkerUnavailable
<1>2. provider.loading = w /\ w # None
  BY <1>1, ModelFacts DEF ModelInv
<1> QED BY <1>1, <1>2, ModelFacts DEF ModelInv, ModelTypeOK, Models

LEMMA CloseKeeps ==
  ASSUME ModelInv, Embed!Close
  PROVE  ModelInv'
<1>1. CASE provider.loading # None
  BY <1>1 DEF Embed!Close, Embed!AwaitsLoad, ModelInv, ModelTypeOK
<1>2. CASE provider.loading = None
  <2>1. /\ workers' = Embed!Terminated(provider.worker)
        /\ provider' = [provider EXCEPT !.worker = None, !.extractor = None, !.loading = None,
                                        !.closing = FALSE]
    BY <1>2 DEF Embed!Close, Embed!AwaitsLoad, Embed!Closed
  <2>2. /\ workers' \in [Workers -> {"none", "loading", "ready", "failed", "stopped", "lost"}]
        /\ \A v \in Workers : workers'[v] \notin {"loading", "lost", "ready"}
    BY <1>2, <2>1, ModelFacts DEF Embed!Terminated, ModelInv, ModelTypeOK
  <2>3. ModelTypeOK'
    BY <2>1, <2>2 DEF ModelInv, ModelTypeOK, Models
  <2> QED BY <2>1, <2>2, <2>3, NothingHeld DEF ModelInv, ModelTypeOK
<1> QED BY <1>1, <1>2

LEMMA ModelInvKept ==
  ASSUME ModelInv, Embed!EmbedNext
  PROVE  ModelInv'
<1>1. ASSUME NEW c \in Calls, Embed!CallStep(c)
      PROVE  ModelInv'
  <2>1. provider' = provider /\ workers' = workers
    BY <1>1 DEF Embed!CallStep, Embed!Reply, Embed!Resume, Embed!Answer, Embed!Retry
  <2> QED BY <2>1 DEF ModelInv, ModelTypeOK
<1>2. ASSUME NEW w \in Workers, Embed!WorkerReady(w)
      PROVE  ModelInv'
  BY <1>2, LoadedKeeps DEF Embed!WorkerReady, ModelInv
<1>3. ASSUME NEW w \in Workers, Embed!WorkerCannot(w)
      PROVE  ModelInv'
  <2>1. /\ [workers EXCEPT ![w] = "stopped"]
             \in [Workers -> {"none", "loading", "ready", "failed", "stopped", "lost"}]
        /\ \A v \in Workers : IF v = w THEN [workers EXCEPT ![w] = "stopped"][v] = "stopped"
                              ELSE [workers EXCEPT ![w] = "stopped"][v] = workers[v]
        /\ provider.loading = w
    BY <1>3 DEF Embed!WorkerCannot, ModelInv, ModelTypeOK
  <2> QED BY <1>3, <2>1, LoadFailedKeeps DEF Embed!WorkerCannot
<1>4. ASSUME Embed!ThreadLoads
      PROVE  ModelInv'
  <2>1. provider.loading = Thread /\ Thread \notin Workers
    BY <1>4, ModelFacts DEF Embed!ThreadLoads
  <2>2. workers \in [Workers -> {"none", "loading", "ready", "failed", "stopped", "lost"}]
    BY DEF ModelInv, ModelTypeOK
  <2>3. \A v \in Workers : IF v = Thread THEN workers[v] = "stopped" ELSE workers[v] = workers[v]
    BY <2>1
  <2> QED BY <1>4, <2>1, <2>2, <2>3, LoadedKeeps, LoadFailedKeeps DEF Embed!ThreadLoads
<1> QED BY <1>1, <1>2, <1>3, <1>4, EmbedKeeps, CrashKeeps, WorkerGoneKeeps,
           WorkerUnavailableKeeps, CloseKeeps
        DEF Embed!EmbedNext, Embed!WorkerStep

LEMMA ModelInvInit ==
  ASSUME Embed!EmbedInit
  PROVE  ModelInv
BY ModelFacts, TrafficAssumption
   DEF Embed!EmbedInit, Embed!NoModel, ModelInv, ModelTypeOK, Models, Embed!EmbedAssumption

-----------------------------------------------------------------------------
(* Writes through the desktop app, and its fallback.                       *)

\* What the desktop's part keeps, as WritesTypeOK has it.
AppType == [run : Nat, writes : BOOLEAN, keys : SUBSET Writes!GrantedKeys,
            once : SUBSET Writes!GrantedKeys, granted : 0..MaxGrants]
ClientType == [key : Writes!GrantedKeys \cup {NoKey}, stored : Writes!GrantedKeys \cup {NoKey},
               serverId : Nat]
CopyType == [Writes!Copies -> [Items -> [tags : SUBSET (Ops \cup {User}), ver : Nat]]]
TaggedType == [Writes!Copies -> [Items -> SUBSET (Ops \cup {User})]]

\* A call is under way: what it edits has been read.
Engaged == {"prepare", "asking", "sent", "answered"}

\* How often an operation has created something, on either copy.
Creations(o) == created["local"][o] + created["cloud"][o]

Creates(o) == op[o].calls # <<>> /\ op[o].calls[1].kind = "create"
Asked(o) == op[o].calls[1].requests

\* The request that is out may have been carried out, whatever was heard of it.
MayHaveLanded(o) == op[o].pc = "answered" /\ op[o].answer \in {"ok", "lost"}

Over == {"done", "failed"}

\* An operation is at one of its calls and of that call's requests, and only the desktop
\* app is asked for a key.
InPlace(o) ==
  /\ op[o].pc = "idle" <=> op[o].calls = <<>>
  /\ op[o].at >= 1 /\ op[o].batch >= 1
  /\ op[o].pc \in Engaged \cup {"call"} => op[o].at <= Len(op[o].calls)
  /\ op[o].pc \in Engaged => op[o].batch <= Writes!At(o).requests
  /\ op[o].pc \in {"asking", "sent", "answered"} => op[o].target = "local"

\* A tag is put beside those that were read, and whoever edits in between moves the version.
ReadWell(o) ==
  op[o].pc \in Engaged /\ Writes!At(o).kind = "tag" =>
    LET now == copy[op[o].target][Writes!At(o).item] IN
    /\ op[o].ver <= now.ver
    /\ op[o].ver = now.ver => op[o].tags = now.tags

\* What was told to have landed keeps the operation where it is.
Settled(o) ==
  /\ op[o].wrote \subseteq {op[o].target}
  /\ op[o].wrote # {} /\ op[o].pc \notin Over => op[o].landed

\* Only the requests before the one that is out have been carried out, and those of the
\* call the operation started over from.
CreatedWell(o) ==
  /\ ~Creates(o) => Creations(o) = 0
  /\ op[o].before > 0 => op[o].target = "cloud" /\ Creates(o) /\ op[o].before < Asked(o)
  /\ Creates(o) =>
       /\ Creations(o) <= op[o].before + Asked(o)
       /\ op[o].pc = "call" => Creations(o) <= op[o].before
       /\ op[o].pc \in Engaged => Creations(o) <= op[o].before + op[o].batch
       /\ op[o].pc \in Engaged /\ ~MayHaveLanded(o) => Creations(o) < op[o].before + op[o].batch

OpInv(o) == InPlace(o) /\ ReadWell(o) /\ Settled(o) /\ CreatedWell(o)

WritesInv == Writes!WritesTypeOK /\ Writes!TagsSurvive /\ \A o \in Ops : OpInv(o)

USE DEF AppType, ClientType, CopyType, TaggedType

LEMMA ProgramFacts ==
  ASSUME NEW p \in Programs
  PROVE  /\ p # <<>> /\ Len(p) \in 1..2
         /\ p[1].kind = "create" => Len(p) = 1
         /\ \A n \in 1..Len(p) :
              /\ p[n].requests \in Nat \ {0}
              /\ p[n].kind \in Writes!Kinds
              /\ p[n].kind # "create" => p[n].item \in Items /\ p[n].requests = 1
              /\ p[n].kind = "create" => p[1].kind = "create"
<1> DEFINE first == CHOOSE i \in Items : TRUE
           second == CHOOSE i \in Items : i # first
           Step(k, i, n) == [kind |-> k, item |-> i, requests |-> n]
<1>1. first \in Items /\ second \in Items /\ Posts \in Nat \ {0}
  BY TrafficAssumption
<1>2. \/ p = [n \in 1..2 |-> Step("tag", IF n = 1 THEN first ELSE second, 1)]
      \/ p = <<Step("update", first, 1)>>
      \/ p = <<Step("create", NoItem, Posts)>>
  BY DEF Programs
<1> HIDE DEF first, second
<1>3. CASE p = [n \in 1..2 |-> Step("tag", IF n = 1 THEN first ELSE second, 1)]
  <2>1. p = <<Step("tag", first, 1), Step("tag", second, 1)>>
    BY <1>3
  <2> QED BY <1>1, <2>1 DEF Writes!Kinds
<1>4. CASE p = <<Step("update", first, 1)>>
  BY <1>1, <1>4 DEF Writes!Kinds
<1>5. CASE p = <<Step("create", NoItem, Posts)>>
  BY <1>1, <1>5 DEF Writes!Kinds
<1> QED BY <1>2, <1>3, <1>4, <1>5

\* The call an operation is at.
LEMMA CallFacts ==
  ASSUME WritesInv, NEW o \in Ops, op[o].pc \in Engaged \cup {"call"}
  PROVE  /\ op[o] \in Writes!Op /\ op[o].calls \in Programs
         /\ op[o].at \in 1..Len(op[o].calls) /\ Len(op[o].calls) \in Nat
         /\ Writes!At(o).requests \in Nat \ {0} /\ Writes!At(o).kind \in Writes!Kinds
         /\ Writes!At(o).kind # "create" =>
              Writes!At(o).item \in Items /\ Writes!At(o).requests = 1 /\ ~Creates(o)
         /\ Writes!At(o).kind = "create" =>
              Creates(o) /\ op[o].at = 1 /\ Len(op[o].calls) = 1 /\ Writes!At(o).requests = Asked(o)
<1>1. op[o] \in Writes!Op /\ InPlace(o)
  BY DEF WritesInv, OpInv, Writes!WritesTypeOK
<1>2. op[o].calls \in Programs /\ op[o].at \in Nat
  BY <1>1 DEF InPlace, Engaged, Writes!Op
<1>3. op[o].at \in 1..Len(op[o].calls) /\ Len(op[o].calls) \in Nat
  BY <1>1, <1>2, ProgramFacts DEF InPlace
<1> QED BY <1>1, <1>2, <1>3, ProgramFacts DEF Writes!At, Creates, Asked

\* The numbers in an operation.
LEMMA Counts ==
  ASSUME WritesInv, NEW o \in Ops
  PROVE  /\ created \in [Writes!Copies -> [Ops -> Nat]]
         /\ op[o] \in Writes!Op /\ op[o].before \in Nat /\ op[o].batch \in Nat \ {0}
         /\ Creations(o) \in Nat
         /\ Creates(o) => Asked(o) \in Nat \ {0}
         /\ CreatedWell(o)
<1>1. /\ created["local"][o] \in Nat /\ created["cloud"][o] \in Nat
      /\ created \in [Writes!Copies -> [Ops -> Nat]]
      /\ op[o] \in Writes!Op /\ OpInv(o)
  BY DEF WritesInv, Writes!WritesTypeOK, Writes!Copies
<1>2. Creations(o) \in Nat
  BY <1>1 DEF Creations
<1>3. op[o].before \in Nat /\ op[o].batch \in Nat \ {0}
  BY <1>1 DEF Writes!Op, OpInv, InPlace
<1>4. Creates(o) => Asked(o) \in Nat \ {0}
  BY <1>1, ProgramFacts DEF Creates, Asked, Writes!Op
<1> QED BY <1>1, <1>2, <1>3, <1>4 DEF OpInv

\* No item goes back to a version it had.
Onward == \A c \in Writes!Copies, i \in Items :
  copy'[c][i] = copy[c][i] \/ copy'[c][i].ver > copy[c][i].ver

\* At the same call, with the same in hand.
Alike(x, y) ==
  /\ x.calls = y.calls /\ x.at = y.at /\ x.batch = y.batch /\ x.target = y.target
  /\ x.before = y.before
  /\ x.tags = y.tags /\ x.ver = y.ver /\ x.wrote = y.wrote /\ x.landed = y.landed

\* What an operation read of an item is so, or the item has moved on.
LEMMA ReadOnward ==
  ASSUME WritesInv, NEW q \in Ops, op[q].pc \in Engaged, Alike(op'[q], op[q]), Onward,
         copy' \in CopyType
  PROVE  ReadWell(q)'
<1>1. OpInv(q) /\ op[q] \in Writes!Op
  BY DEF WritesInv, Writes!WritesTypeOK
<1> SUFFICES ASSUME Writes!At(q).kind = "tag"
             PROVE  LET now == copy'[op[q].target][Writes!At(q).item] IN
                    /\ op[q].ver <= now.ver
                    /\ op[q].ver = now.ver => op[q].tags = now.tags
  BY DEF ReadWell, Writes!At, Alike
<1>2. Writes!At(q).item \in Items /\ op[q].target \in Writes!Copies
  BY <1>1, CallFacts DEF Writes!Op
<1> DEFINE old == copy[op[q].target][Writes!At(q).item]
           now == copy'[op[q].target][Writes!At(q).item]
<1>3. old.ver \in Nat /\ now.ver \in Nat /\ op[q].ver \in Nat
  BY <1>1, <1>2 DEF WritesInv, Writes!WritesTypeOK, Writes!Op
<1>4. op[q].ver <= old.ver /\ (op[q].ver = old.ver => op[q].tags = old.tags)
  BY <1>1 DEF OpInv, ReadWell
<1>5. now = old \/ now.ver > old.ver
  BY <1>2 DEF Onward
<1> HIDE DEF old, now
<1>6. op[q].ver <= now.ver /\ (op[q].ver = now.ver => op[q].tags = now.tags)
  BY <1>3, <1>4, <1>5
<1> QED BY <1>6 DEF old, now

\* Another operation is what it was.
LEMMA OthersOnward ==
  ASSUME WritesInv, NEW q \in Ops, op'[q] = op[q], Onward,
         copy' \in CopyType,
         created'["local"][q] = created["local"][q], created'["cloud"][q] = created["cloud"][q]
  PROVE  OpInv(q)'
<1>1. OpInv(q)
  BY DEF WritesInv
<1>2. InPlace(q)' /\ Settled(q)' /\ CreatedWell(q)'
  BY <1>1 DEF OpInv, InPlace, Settled, CreatedWell, Creations, Creates, Asked, MayHaveLanded, Writes!At
<1>3. CASE op[q].pc \in Engaged
  BY <1>2, <1>3, ReadOnward DEF OpInv, Alike
<1>4. CASE op[q].pc \notin Engaged
  BY <1>2, <1>4 DEF OpInv, ReadWell
<1> QED BY <1>3, <1>4

LEMMA StandsStill ==
  ASSUME WritesInv, UNCHANGED <<copy, created>>
  PROVE  /\ Onward
         /\ copy' \in CopyType
BY DEF Onward, WritesInv, Writes!WritesTypeOK

\* A step of one operation that writes nothing.
LEMMA StepsOn ==
  ASSUME WritesInv, NEW o \in Ops, NEW x \in Writes!Op, op' = [op EXCEPT ![o] = x],
         UNCHANGED <<copy, created, everTagged>>, OpInv(o)',
         app' = app \/ app' \in AppType,
         client' = client \/ client' \in ClientType,
         pending' = pending, faults' \in 0..MaxFaults
  PROVE  WritesInv'
<1>1. Writes!WritesTypeOK'
  BY DEF WritesInv, Writes!WritesTypeOK
<1>2. Writes!TagsSurvive'
  BY DEF WritesInv, Writes!TagsSurvive
<1>3. ASSUME NEW q \in Ops, q # o
      PROVE  OpInv(q)'
  <2>1. op'[q] = op[q]
    BY <1>3 DEF WritesInv, Writes!WritesTypeOK
  <2> QED BY <2>1, StandsStill, OthersOnward
<1> QED BY <1>1, <1>2, <1>3 DEF WritesInv

\* What an operation becomes.
LEMMA OpBecomes ==
  ASSUME WritesInv, NEW o \in Ops, NEW x, op' = [op EXCEPT ![o] = x]
  PROVE  op'[o] = x
BY DEF WritesInv, Writes!WritesTypeOK

LEMMA PcType ==
  ASSUME NEW x \in Writes!Op, NEW p \in Writes!Phases
  PROVE  [x EXCEPT !.pc = p] \in Writes!Op
BY DEF Writes!Op

\* The records of an operation whose request, call or self is over.
LEMMA AfterFacts ==
  ASSUME WritesInv, NEW o \in Ops
  PROVE  /\ Writes!AfterRequest(o) \in Writes!Op /\ Writes!AfterRequest(o).pc = op[o].pc
         /\ Writes!AfterRequest(o).retried = op[o].retried /\ Alike(Writes!AfterRequest(o), op[o])
         /\ \A how \in Writes!Phases :
              LET x == Writes!Ended(o, how) IN
              /\ x \in Writes!Op /\ x.pc = how /\ x.calls = op[o].calls /\ x.target = op[o].target
              /\ x.before = op[o].before /\ x.wrote = op[o].wrote /\ x.at = 1 /\ x.batch = 1
         /\ LET x == Writes!AfterCall(o) IN
              /\ x \in Writes!Op /\ x.calls = op[o].calls /\ x.target = op[o].target
              /\ x.before = op[o].before /\ x.wrote = op[o].wrote /\ x.at = op[o].at /\ x.batch = 1
              /\ x.landed = op[o].landed
<1>1. op[o] \in Writes!Op
  BY DEF WritesInv, Writes!WritesTypeOK
<1>2. /\ Writes!AfterRequest(o) \in Writes!Op /\ Writes!AfterRequest(o).pc = op[o].pc
      /\ Writes!AfterRequest(o).retried = op[o].retried /\ Alike(Writes!AfterRequest(o), op[o])
  <2>1. "none" \in Writes!Answers
    BY DEF Writes!Answers
  <2> QED BY <1>1, <2>1 DEF Writes!Op, Writes!AfterRequest, Alike
<1>3. LET x == Writes!AfterCall(o) IN
        /\ x \in Writes!Op /\ x.calls = op[o].calls /\ x.target = op[o].target
        /\ x.before = op[o].before /\ x.wrote = op[o].wrote /\ x.at = op[o].at /\ x.batch = 1
        /\ x.landed = op[o].landed
  BY <1>2 DEF Writes!Op, Writes!AfterCall, Alike
<1>4. ASSUME NEW how \in Writes!Phases
      PROVE  LET x == Writes!Ended(o, how) IN
             /\ x \in Writes!Op /\ x.pc = how /\ x.calls = op[o].calls /\ x.target = op[o].target
             /\ x.before = op[o].before /\ x.wrote = op[o].wrote /\ x.at = 1 /\ x.batch = 1
  <2>1. "none" \in Writes!Answers
    BY DEF Writes!Answers
  <2> QED BY <1>1, <2>1 DEF Writes!Op, Writes!Ended, Writes!Fresh
<1> QED BY <1>2, <1>3, <1>4

\* An operation that goes on: at its next call, or at its end.
LEMMA ProceedsFacts ==
  ASSUME WritesInv, NEW o \in Ops, op[o].pc \in Engaged
  PROVE  LET x == Writes!Proceeds(o) IN
         /\ x \in Writes!Op /\ x.calls = op[o].calls /\ x.target = op[o].target
         /\ x.before = op[o].before /\ x.wrote = op[o].wrote /\ x.batch = 1
         /\ \/ x.pc = "done" /\ x.at = 1
            \/ x.pc = "call" /\ x.at = op[o].at + 1 /\ op[o].at < Len(op[o].calls) /\ x.landed = op[o].landed
<1> DEFINE after == Writes!AfterCall(o)
           next == [after EXCEPT !.pc = "call", !.at = @ + 1]
<1>1. "done" \in Writes!Phases /\ "call" \in Writes!Phases
  BY DEF Writes!Phases
<1>2. /\ after \in Writes!Op /\ after.calls = op[o].calls /\ after.target = op[o].target
      /\ after.before = op[o].before /\ after.wrote = op[o].wrote /\ after.at = op[o].at
      /\ after.batch = 1 /\ after.landed = op[o].landed
  BY AfterFacts
<1> HIDE DEF after
<1>3. /\ next \in Writes!Op /\ next.calls = op[o].calls /\ next.target = op[o].target
      /\ next.before = op[o].before /\ next.wrote = op[o].wrote /\ next.at = op[o].at + 1
      /\ next.batch = 1 /\ next.landed = op[o].landed /\ next.pc = "call"
  <2>1. after.at + 1 \in Nat
    BY <1>2 DEF Writes!Op
  <2> QED BY <1>1, <1>2, <2>1 DEF Writes!Op
<1>4. CASE op[o].at < Len(op[o].calls)
  <2>1. Writes!Proceeds(o) = next
    BY <1>4 DEF Writes!Proceeds, after
  <2> HIDE DEF next
  <2> QED BY <1>3, <1>4, <2>1
<1>5. CASE ~(op[o].at < Len(op[o].calls))
  <2>1. Writes!Proceeds(o) = Writes!Ended(o, "done")
    BY <1>5 DEF Writes!Proceeds
  <2> QED BY <1>1, <2>1, AfterFacts
<1> QED BY <1>4, <1>5

\* An operation at its end has created what it had.
LEMMA EndsAsItIs ==
  ASSUME WritesInv, NEW o \in Ops, op[o].pc \in Engaged, NEW x \in Writes!Op, op'[o] = x,
         x.pc \in Over, x.calls = op[o].calls, x.target = op[o].target, x.before = op[o].before,
         x.at = 1, x.batch = 1, x.wrote \subseteq {op[o].target},
         ~Creates(o) => Creations(o)' = 0,
         Creates(o) => Creations(o)' <= op[o].before + Asked(o)
  PROVE  OpInv(o)'
<1>1. op[o].calls # <<>> /\ CreatedWell(o) /\ OpInv(o)
  BY CallFacts, ProgramFacts, Counts DEF WritesInv
<1>2. InPlace(o)' /\ ReadWell(o)' /\ Settled(o)'
  BY <1>1 DEF InPlace, ReadWell, Settled, Engaged, Over
<1>3. CreatedWell(o)'
  BY <1>1 DEF CreatedWell, Creates, Asked, Engaged, Over
<1> QED BY <1>2, <1>3 DEF OpInv

\* The error of a call, when the request that failed was not carried out if the operation
\* is to start over.
LEMMA CallFailsKeeps ==
  ASSUME WritesInv, NEW o \in Ops, op[o].pc \in Engaged, NEW answer,
         Writes!CallFails(o, answer),
         Writes!Unavailable(answer) => ~MayHaveLanded(o),
         UNCHANGED <<copy, created, everTagged, app, pending>>,
         client' = client \/ client' \in ClientType,
         faults' \in 0..MaxFaults
  PROVE  WritesInv'
<1> DEFINE old == op[o]
           onCloud == [Writes!Fresh EXCEPT !.calls = old.calls, !.target = "cloud",
                                           !.before = old.batch - 1, !.wrote = old.wrote]
           again == [Writes!AfterCall(o) EXCEPT !.pc = "call", !.reread = TRUE]
           next == Writes!Proceeds(o)
           failed == Writes!Ended(o, "failed")
<1>1. /\ old \in Writes!Op /\ old.calls \in Programs /\ old.at \in 1..Len(old.calls)
      /\ Writes!At(o).kind # "create" => ~Creates(o) /\ Writes!At(o).requests = 1
      /\ Writes!At(o).kind = "create" => Creates(o) /\ Writes!At(o).requests = Asked(o)
      /\ old.calls # <<>> /\ Len(old.calls) \in Nat /\ Len(old.calls) >= 1
  BY CallFacts, ProgramFacts
<1>2. OpInv(o) /\ CreatedWell(o) /\ old.batch \in Nat \ {0} /\ old.before \in Nat
      /\ Creations(o) \in Nat /\ (Creates(o) => Asked(o) \in Nat \ {0})
      /\ old.batch <= Writes!At(o).requests
  BY Counts DEF WritesInv, OpInv, InPlace
<1>3. UNCHANGED <<created, copy>> /\ Creations(o)' = Creations(o)
  BY DEF Creations
<1>4. CASE /\ old.target = "local" /\ Writes!Unavailable(answer) /\ ~Writes!Landed(o)
           /\ op' = [op EXCEPT ![o] = onCloud]
  <2>1. op'[o] = onCloud
    BY <1>4, OpBecomes
  <2>2. onCloud \in Writes!Op
    <3>1. old.batch - 1 \in Nat /\ old.wrote \in SUBSET Writes!Copies /\ "cloud" \in Writes!Copies
      BY <1>1, <1>2 DEF Writes!Op, Writes!Copies
    <3> HIDE DEF old
    <3> QED BY <1>1, <3>1 DEF Writes!Op, Writes!Fresh, Writes!Phases, Writes!Answers
  <2>3. old.wrote = {}
    BY <1>2, <1>4 DEF OpInv, Settled, Writes!Landed, Engaged, Over
  <2>4. InPlace(o)' /\ ReadWell(o)' /\ Settled(o)'
    BY <1>1, <2>1, <2>3 DEF InPlace, ReadWell, Settled, Engaged, Writes!Fresh
  <2>5. /\ op'[o].calls = old.calls /\ op'[o].before = old.batch - 1 /\ op'[o].target = "cloud"
        /\ op'[o].pc = "call"
    BY <2>1 DEF Writes!Fresh
  <2>6. old.before = 0
    BY <1>2, <1>4 DEF CreatedWell
  <2>7. ~MayHaveLanded(o)
    BY <1>4
  <2>8. Creates(o) => Creations(o) <= old.batch - 1 /\ old.batch <= Asked(o)
    BY <1>1, <1>2, <2>6, <2>7 DEF CreatedWell
  <2>9. ~Creates(o) => old.batch = 1 /\ Creations(o) = 0
    BY <1>1, <1>2 DEF CreatedWell
  <2>10. Creates(o)' = Creates(o) /\ Asked(o)' = Asked(o)
    BY <2>5 DEF Creates, Asked
  <2> HIDE DEF old
  <2>11. CreatedWell(o)'
    BY <1>2, <1>3, <2>5, <2>8, <2>9, <2>10 DEF CreatedWell, Engaged
  <2> QED BY <1>4, <2>2, <2>4, <2>11, StepsOn DEF OpInv
<1>5. CASE op' = [op EXCEPT ![o] = again] /\ Writes!Again(o)
  <2>1. op'[o] = again
    BY <1>5, OpBecomes
  <2>2. /\ again \in Writes!Op /\ again.calls = old.calls /\ again.target = old.target /\ again.pc = "call"
        /\ again.before = old.before /\ again.wrote = old.wrote /\ again.at = old.at /\ again.batch = 1
        /\ again.landed = old.landed
    <3> DEFINE after == Writes!AfterCall(o)
    <3>1. /\ after \in Writes!Op /\ after.calls = old.calls /\ after.target = old.target
          /\ after.before = old.before /\ after.wrote = old.wrote /\ after.at = old.at
          /\ after.batch = 1 /\ after.landed = old.landed
      BY AfterFacts
    <3>2. again = [after EXCEPT !.pc = "call", !.reread = TRUE]
      OBVIOUS
    <3> HIDE DEF after, again
    <3> QED BY <3>1, <3>2 DEF Writes!Op, Writes!Phases
  <2>3. ~Creates(o) /\ Creations(o) = 0
    BY <1>1, <1>2, <1>5 DEF Writes!Again, CreatedWell
  <2> HIDE DEF again
  <2>4. InPlace(o)' /\ ReadWell(o)' /\ Settled(o)'
    BY <1>1, <1>2, <2>1, <2>2 DEF OpInv, InPlace, ReadWell, Settled, Engaged, Over
  <2>5. CreatedWell(o)'
    BY <1>2, <1>3, <2>1, <2>2, <2>3 DEF CreatedWell, Creates, Asked
  <2> QED BY <1>5, <2>2, <2>4, <2>5, StepsOn DEF OpInv
<1>6. CASE op' = [op EXCEPT ![o] = next] /\ Writes!At(o).kind = "tag"
  <2>1. op'[o] = next
    BY <1>6, OpBecomes
  <2>2. /\ next \in Writes!Op /\ next.calls = old.calls /\ next.target = old.target
        /\ next.before = old.before /\ next.wrote = old.wrote /\ next.batch = 1
        /\ \/ next.pc = "done" /\ next.at = 1
           \/ next.pc = "call" /\ next.at = old.at + 1 /\ old.at < Len(old.calls) /\ next.landed = old.landed
    BY ProceedsFacts
  <2>3. ~Creates(o) /\ Creations(o) = 0
    BY <1>1, <1>2, <1>6 DEF CreatedWell
  <2> HIDE DEF next
  <2>4. CASE next.pc = "done"
    <3>1. OpInv(o)'
      BY <1>2, <1>3, <2>1, <2>2, <2>3, <2>4, EndsAsItIs DEF OpInv, Settled, Over
    <3> QED BY <1>6, <2>2, <3>1, StepsOn
  <2>5. CASE next.pc = "call"
    <3>1. InPlace(o)' /\ ReadWell(o)' /\ Settled(o)'
      BY <1>1, <1>2, <2>1, <2>2, <2>5 DEF OpInv, InPlace, ReadWell, Settled, Engaged, Over
    <3>2. CreatedWell(o)'
      BY <1>2, <1>3, <2>1, <2>2, <2>3 DEF CreatedWell, Creates, Asked
    <3> QED BY <1>6, <2>2, <3>1, <3>2, StepsOn DEF OpInv
  <2> QED BY <2>2, <2>4, <2>5
<1>7. CASE op' = [op EXCEPT ![o] = failed]
  <2>1. op'[o] = failed
    BY <1>7, OpBecomes
  <2>2. /\ failed \in Writes!Op /\ failed.pc = "failed" /\ failed.calls = old.calls /\ failed.target = old.target
        /\ failed.before = old.before /\ failed.wrote = old.wrote /\ failed.at = 1 /\ failed.batch = 1
    BY AfterFacts DEF Writes!Phases
  <2>3. OpInv(o)'
    <3> HIDE DEF failed
    <3> QED BY <1>2, <1>3, <2>1, <2>2, EndsAsItIs DEF OpInv, Settled, CreatedWell, Over
  <2> HIDE DEF failed
  <2> QED BY <1>7, <2>2, <2>3, StepsOn
<1>8. \/ /\ old.target = "local" /\ Writes!Unavailable(answer) /\ ~Writes!Landed(o)
         /\ op' = [op EXCEPT ![o] = onCloud]
      \/ op' = [op EXCEPT ![o] = again] /\ Writes!Again(o)
      \/ op' = [op EXCEPT ![o] = next] /\ Writes!At(o).kind = "tag"
      \/ op' = [op EXCEPT ![o] = failed]
  <2> HIDE DEF WritesInv
  <2> QED BY DEF Writes!CallFails
<1> QED BY <1>4, <1>5, <1>6, <1>7, <1>8

\* A request was answered well, when it counts for what it created: the next request of
\* the call is due, or the call returns.
LEMMA ReturnsWell ==
  ASSUME WritesInv, NEW o \in Ops, op[o].pc \in Engaged, Writes!RequestSucceeds(o),
         Creations(o)' \in Nat, ~Creates(o) => Creations(o)' = 0,
         Creates(o) => Creations(o)' <= op[o].before + op[o].batch
  PROVE  OpInv(o)' /\ \E x \in Writes!Op : op' = [op EXCEPT ![o] = x]
<1> DEFINE old == op[o]
           more == [Writes!AfterRequest(o) EXCEPT !.pc = "prepare", !.batch = @ + 1, !.retried = FALSE]
           next == Writes!Proceeds(o)
           returned == [next EXCEPT !.landed = TRUE, !.reread = FALSE, !.wrote = @ \cup {old.target}]
<1>1. /\ old \in Writes!Op /\ old.calls \in Programs /\ old.at \in 1..Len(old.calls)
      /\ Writes!At(o).kind # "create" => ~Creates(o) /\ Writes!At(o).requests = 1
      /\ Writes!At(o).kind = "create" => Creates(o) /\ Writes!At(o).requests = Asked(o)
      /\ Writes!At(o).requests \in Nat
      /\ old.calls # <<>> /\ Len(old.calls) \in Nat
  BY CallFacts, ProgramFacts
<1>2. OpInv(o) /\ CreatedWell(o) /\ old.batch \in Nat \ {0} /\ old.before \in Nat
      /\ (Creates(o) => Asked(o) \in Nat \ {0}) /\ old.batch <= Writes!At(o).requests
  BY Counts DEF WritesInv, OpInv, InPlace
<1>3. CASE op' = [op EXCEPT ![o] = more] /\ old.batch < Writes!At(o).requests
  <2> DEFINE after == Writes!AfterRequest(o)
  <2>1. after \in Writes!Op /\ Alike(after, old)
    BY AfterFacts
  <2>2. more \in Writes!Op /\ more.pc = "prepare" /\ more.calls = old.calls /\ more.at = old.at
        /\ more.target = old.target /\ more.before = old.before /\ more.wrote = old.wrote
        /\ more.landed = old.landed /\ more.batch = old.batch + 1
    <3>1. more = [after EXCEPT !.pc = "prepare", !.batch = @ + 1, !.retried = FALSE]
      OBVIOUS
    <3>2. after.batch + 1 \in Nat /\ "prepare" \in Writes!Phases
      BY <1>2, <2>1 DEF Alike, Writes!Phases
    <3> HIDE DEF after, more
    <3> QED BY <2>1, <3>1, <3>2 DEF Writes!Op, Alike
  <2>3. op'[o] = more
    BY <1>3, OpBecomes
  <2> HIDE DEF after, more
  <2>4. Creates(o) /\ Writes!At(o).kind = "create" /\ old.batch + 1 <= Asked(o)
    BY <1>1, <1>2, <1>3
  <2>5. Writes!At(o)' = Writes!At(o)
    BY <2>2, <2>3 DEF Writes!At
  <2>6. InPlace(o)' /\ ReadWell(o)' /\ Settled(o)'
    BY <1>1, <1>2, <1>3, <2>2, <2>3, <2>4, <2>5 DEF OpInv, InPlace, ReadWell, Settled, Engaged, Over
  <2>7. Creates(o)' /\ Asked(o)' = Asked(o)
    BY <2>2, <2>3, <2>4 DEF Creates, Asked
  <2>8. CreatedWell(o)'
    BY <1>2, <2>2, <2>3, <2>4, <2>7 DEF CreatedWell, MayHaveLanded, Engaged
  <2> QED BY <1>3, <2>2, <2>6, <2>8 DEF OpInv
<1>4. CASE op' = [op EXCEPT ![o] = returned]
  <2>1. /\ next \in Writes!Op /\ next.calls = old.calls /\ next.target = old.target
        /\ next.before = old.before /\ next.wrote = old.wrote /\ next.batch = 1
        /\ \/ next.pc = "done" /\ next.at = 1
           \/ next.pc = "call" /\ next.at = old.at + 1 /\ old.at < Len(old.calls) /\ next.landed = old.landed
    BY ProceedsFacts
  <2> HIDE DEF next
  <2>2. /\ returned \in Writes!Op /\ returned.calls = old.calls /\ returned.target = old.target
        /\ returned.before = old.before /\ returned.wrote = old.wrote \cup {old.target} /\ returned.batch = 1
        /\ returned.pc = next.pc /\ returned.at = next.at /\ returned.landed
    <3>1. next.wrote \cup {old.target} \in SUBSET Writes!Copies
      BY <1>1, <2>1 DEF Writes!Op
    <3> QED BY <2>1, <3>1 DEF Writes!Op
  <2>3. op'[o] = returned
    BY <1>4, OpBecomes
  <2>4. Creates(o) => Creations(o)' <= old.before + Asked(o)
    BY <1>1, <1>2
  <2>5. old.wrote \subseteq {old.target}
    BY <1>2 DEF OpInv, Settled
  <2> HIDE DEF returned
  <2>6. CASE next.pc = "done"
    <3>1. OpInv(o)'
      BY <2>1, <2>2, <2>3, <2>4, <2>5, <2>6, EndsAsItIs DEF Over
    <3> QED BY <1>4, <2>2, <3>1
  <2>7. CASE next.pc = "call"
    <3>1. ~Creates(o)
      <4>1. Writes!At(o).kind = "create" => Len(old.calls) = 1
        BY CallFacts
      <4>2. old.at < Len(old.calls) /\ old.at >= 1 /\ old.at \in Nat
        BY <1>1, <2>1, <2>7
      <4>3. \A m, n \in Nat : n >= 1 /\ n < m => m # 1
        OBVIOUS
      <4>4. Len(old.calls) # 1
        BY ONLY <1>1, <4>2, <4>3
      <4> HIDE DEF old
      <4> QED BY <1>1, <4>1, <4>4
    <3>2. InPlace(o)' /\ ReadWell(o)' /\ Settled(o)'
      BY <1>1, <1>2, <2>1, <2>2, <2>3, <2>5, <2>7 DEF OpInv, InPlace, ReadWell, Settled, Engaged, Over
    <3>3. CreatedWell(o)'
      BY <1>2, <2>2, <2>3, <3>1 DEF CreatedWell, Creates, Asked
    <3> QED BY <1>4, <2>2, <3>2, <3>3 DEF OpInv
  <2> QED BY <2>1, <2>6, <2>7
<1>5. \/ op' = [op EXCEPT ![o] = more] /\ old.batch < Writes!At(o).requests
      \/ op' = [op EXCEPT ![o] = returned]
  <2> HIDE DEF WritesInv
  <2> QED BY DEF Writes!RequestSucceeds
<1> QED BY <1>3, <1>4, <1>5

\* What one request does to the library.
LEMMA AppliesWell ==
  ASSUME WritesInv, NEW o \in Ops, op[o].pc \in Engaged, NEW c \in Writes!Copies, c = op[o].target,
         Writes!Current(o, c), Writes!Apply(o, c)
  PROVE  /\ copy' \in CopyType
         /\ created' \in [Writes!Copies -> [Ops -> Nat]]
         /\ everTagged' \in TaggedType
         /\ Onward
         /\ \A b \in Writes!Copies, i \in Items : everTagged'[b][i] \subseteq copy'[b][i].tags
         /\ Creations(o)' \in Nat /\ (~Creates(o) => Creations(o)' = 0)
         /\ Creates(o) => Creations(o)' = Creations(o) + 1
         /\ \A q \in Ops \ {o}, b \in Writes!Copies : created'[b][q] = created[b][q]
<1> DEFINE call == Writes!At(o)
           i == call.item
           old == copy[c][i]
<1>1. /\ op[o] \in Writes!Op /\ call.kind \in Writes!Kinds
      /\ call.kind # "create" => i \in Items /\ ~Creates(o)
      /\ call.kind = "create" => Creates(o)
  BY CallFacts
<1>2. /\ copy \in CopyType
      /\ created \in [Writes!Copies -> [Ops -> Nat]]
      /\ everTagged \in TaggedType
      /\ \A b \in Writes!Copies, j \in Items : everTagged[b][j] \subseteq copy[b][j].tags
      /\ ReadWell(o)
  BY DEF WritesInv, Writes!WritesTypeOK, Writes!TagsSurvive, OpInv
<1>3. Creations(o) \in Nat /\ (~Creates(o) => Creations(o) = 0)
  BY Counts DEF CreatedWell
<1> HIDE DEF WritesInv
<1>4. CASE call.kind = "create"
  <2>1. created' = [created EXCEPT ![c][o] = @ + 1] /\ UNCHANGED <<copy, everTagged>>
    BY <1>4 DEF Writes!Apply
  <2>2. created["local"][o] \in Nat /\ created["cloud"][o] \in Nat /\ c \in {"local", "cloud"}
    BY <1>2 DEF Writes!Copies
  <2>3. Creations(o)' = Creations(o) + 1
    BY <1>2, <2>1, <2>2 DEF Creations, Writes!Copies
  <2> QED BY <1>1, <1>2, <1>3, <1>4, <2>1, <2>3 DEF Onward
<1>5. CASE call.kind = "tag"
  <2>1. /\ copy' = [copy EXCEPT ![c][i] = [tags |-> op[o].tags \cup {o}, ver |-> @.ver + 1]]
        /\ everTagged' = [everTagged EXCEPT ![c][i] = @ \cup {o}]
        /\ UNCHANGED created
    BY <1>5 DEF Writes!Apply
  <2>2. op[o].ver = old.ver
    BY <1>5 DEF Writes!Current
  <2>3. op[o].tags = old.tags
    BY <1>2, <1>5, <2>2 DEF ReadWell
  <2>4. i \in Items /\ old.tags \in SUBSET (Ops \cup {User}) /\ old.ver \in Nat
    BY <1>1, <1>2, <1>5
  <2>5. /\ copy'[c][i] = [tags |-> old.tags \cup {o}, ver |-> old.ver + 1]
        /\ \A b \in Writes!Copies, j \in Items : b # c \/ j # i => copy'[b][j] = copy[b][j]
    BY <1>2, <2>1, <2>3, <2>4
  <2>6. /\ everTagged'[c][i] = everTagged[c][i] \cup {o}
        /\ \A b \in Writes!Copies, j \in Items : b # c \/ j # i => everTagged'[b][j] = everTagged[b][j]
    BY <1>2, <2>1, <2>4
  <2>7. copy' \in CopyType
    BY <1>2, <2>1, <2>3, <2>4
  <2>8. everTagged' \in TaggedType
    BY <1>2, <2>1, <2>4
  <2>9. Onward
    BY <2>4, <2>5 DEF Onward
  <2>10. ASSUME NEW b \in Writes!Copies, NEW j \in Items
         PROVE  everTagged'[b][j] \subseteq copy'[b][j].tags
    <3>1. CASE b # c \/ j # i
      <4>1. everTagged'[b][j] = everTagged[b][j] /\ copy'[b][j] = copy[b][j]
        BY <2>5, <2>6, <3>1
      <4> QED BY <1>2, <4>1
    <3>2. CASE b = c /\ j = i
      <4>1. everTagged[c][i] \subseteq old.tags
        BY <1>2, <2>4
      <4>2. copy'[c][i].tags = old.tags \cup {o}
        BY <2>5
      <4> QED BY <2>6, <3>2, <4>1, <4>2
    <3> QED BY <3>1, <3>2
  <2>11. Creations(o)' = 0 /\ created' = created /\ ~Creates(o)
    BY <1>1, <1>3, <1>5, <2>1 DEF Creations
  <2> QED BY <1>2, <2>7, <2>8, <2>9, <2>10, <2>11
<1>6. CASE call.kind = "update"
  <2>1. copy' = [copy EXCEPT ![c][i].ver = @ + 1] /\ UNCHANGED <<created, everTagged>>
    BY <1>6 DEF Writes!Apply
  <2>2. i \in Items /\ old.ver \in Nat
    BY <1>1, <1>2, <1>6
  <2>3. /\ copy'[c][i].ver = old.ver + 1 /\ copy'[c][i].tags = old.tags
        /\ \A b \in Writes!Copies, j \in Items : b # c \/ j # i => copy'[b][j] = copy[b][j]
    BY <1>2, <2>1, <2>2
  <2>4. copy' \in CopyType
    <3>1. copy' = [copy EXCEPT ![c] = [copy[c] EXCEPT ![i] = [old EXCEPT !.ver = @ + 1]]]
      BY <2>1
    <3> DEFINE Versioned == [tags : SUBSET (Ops \cup {User}), ver : Nat]
    <3>2. [old EXCEPT !.ver = @ + 1] \in Versioned
      <4>1. old \in Versioned
        BY <1>2, <2>2
      <4> HIDE DEF old
      <4> QED BY <4>1
    <3> QED BY <1>2, <2>2, <3>1, <3>2
  <2>5. Onward
    BY <2>2, <2>3 DEF Onward
  <2>6. Creations(o)' = 0 /\ ~Creates(o)
    BY <1>1, <1>3, <1>6, <2>1 DEF Creations
  <2>7. ASSUME NEW b \in Writes!Copies, NEW j \in Items
        PROVE  everTagged'[b][j] \subseteq copy'[b][j].tags
    <3>1. copy'[b][j].tags = copy[b][j].tags /\ everTagged'[b][j] = everTagged[b][j]
      BY <2>1, <2>3
    <3> QED BY <1>2, <3>1
  <2>8. created' = created /\ everTagged' = everTagged
    BY <2>1
  <2>9. everTagged' \in TaggedType
    BY <1>2, <2>8
  <2> QED BY <1>2, <2>4, <2>5, <2>6, <2>7, <2>8, <2>9
<1> QED BY <1>1, <1>4, <1>5, <1>6 DEF Writes!Kinds

\* A step that leaves an operation at its call, what it read and what it was told.
LEMMA StaysWell ==
  ASSUME WritesInv, NEW o \in Ops, op[o].pc \in Engaged, NEW x \in Writes!Op,
         op' = [op EXCEPT ![o] = x], UNCHANGED <<copy, created>>,
         x.pc \in Engaged, Alike(x, op[o]), op[o].target = "local",
         ~MayHaveLanded(o) \/ (x.pc = "answered" /\ x.answer \in {"ok", "lost"})
  PROVE  OpInv(o)'
<1>1. op'[o] = x
  BY OpBecomes
<1>2. OpInv(o) /\ Creations(o)' = Creations(o)
  BY DEF WritesInv, Creations
<1>3. InPlace(o)'
  BY <1>1, <1>2 DEF OpInv, InPlace, Engaged, Alike, Writes!At
<1>4. Settled(o)'
  BY <1>1, <1>2 DEF OpInv, Settled, Alike, Engaged, Over
<1>6. ReadWell(o)'
  BY <1>1, ReadOnward, StandsStill
<1>7. CreatedWell(o)'
  <2>1. Creates(o)' = Creates(o) /\ Asked(o)' = Asked(o)
    BY <1>1 DEF Creates, Asked, Alike
  <2>2. op'[o].before = op[o].before /\ op'[o].batch = op[o].batch /\ op'[o].target = op[o].target
        /\ op'[o].pc # "call" /\ (MayHaveLanded(o) => MayHaveLanded(o)')
    BY <1>1 DEF Alike, Engaged, MayHaveLanded
  <2> QED BY <1>2, <2>1, <2>2 DEF OpInv, CreatedWell
<1> QED BY <1>3, <1>4, <1>6, <1>7 DEF OpInv

LEMMA WorldStays ==
  ASSUME UNCHANGED Writes!world
  PROVE  UNCHANGED <<app, copy, created, everTagged>>
BY DEF Writes!world

LEMMA FaultType ==
  ASSUME WritesInv, faults' = faults \/ Writes!Fault
  PROVE  faults' \in 0..MaxFaults
<1>1. faults \in 0..MaxFaults /\ MaxFaults \in Nat
  BY TrafficAssumption DEF WritesInv, Writes!WritesTypeOK, Writes!WritesAssumption
<1> QED BY <1>1 DEF Writes!Fault

LEMMA ReadItemKeeps ==
  ASSUME WritesInv, NEW o \in Ops, Writes!ReadItem(o)
  PROVE  WritesInv'
<1> DEFINE c == op[o].target
           i == Writes!At(o).item
           does == Writes!At(o).kind
           x == [op[o] EXCEPT !.pc = "prepare", !.batch = 1, !.retried = FALSE,
                              !.tags = IF does = "tag" THEN copy[c][i].tags ELSE {},
                              !.ver = IF does = "create" THEN 0 ELSE copy[c][i].ver]
<1>1. /\ op[o] \in Writes!Op /\ OpInv(o) /\ op[o].pc = "call" /\ op[o].at <= Len(op[o].calls)
      /\ op[o].pc \in Engaged \cup {"call"}
      /\ op' = [op EXCEPT ![o] = x] /\ UNCHANGED <<app, copy, created, everTagged>>
      /\ UNCHANGED <<client, pending, faults>>
  BY WorldStays DEF Writes!ReadItem, Writes!InPhase, WritesInv, Writes!WritesTypeOK, OpInv, InPlace
<1>3. op[o].at \in 1..Len(op[o].calls) /\ Writes!At(o).requests \in Nat \ {0}
  BY <1>1, CallFacts
<1>4. does \in Writes!Kinds /\ (does # "create" => i \in Items)
  BY <1>1, CallFacts
<1>5. x \in Writes!Op
  <2>1. c \in Writes!Copies
    BY <1>1 DEF Writes!Op
  <2>2. /\ does = "tag" => copy[c][i].tags \in SUBSET (Ops \cup {User})
        /\ does # "create" => copy[c][i].ver \in Nat
    BY <1>4, <2>1 DEF WritesInv, Writes!WritesTypeOK
  <2>3. /\ (IF does = "tag" THEN copy[c][i].tags ELSE {}) \in SUBSET (Ops \cup {User})
        /\ (IF does = "create" THEN 0 ELSE copy[c][i].ver) \in Nat
        /\ "prepare" \in Writes!Phases
    BY <2>2 DEF Writes!Phases
  <2> HIDE DEF c, i, does
  <2> QED BY <1>1, <2>3 DEF Writes!Op
<1>6. op'[o] = x
  BY <1>1, OpBecomes
<1>7. Writes!At(o)' = Writes!At(o)
  BY <1>6 DEF Writes!At
<1>8. x.ver \in Nat
  BY <1>5 DEF Writes!Op
<1>9. InPlace(o)' /\ Settled(o)'
  BY <1>1, <1>3, <1>6, <1>7 DEF OpInv, InPlace, Settled, Engaged, Over
<1>10. ReadWell(o)'
  <2>1. CASE does = "tag"
    <3>1. x.ver = copy[c][i].ver /\ x.tags = copy[c][i].tags
      BY <1>1, <2>1 DEF Writes!Op
    <3>2. x.target = c /\ copy' = copy
      BY <1>1 DEF Writes!Op
    <3>3. Writes!At(o)'.kind = does /\ Writes!At(o)'.item = i
      BY <1>7
    <3> HIDE DEF x, c, i, does
    <3> QED BY <1>6, <1>8, <3>1, <3>2, <3>3 DEF ReadWell
  <2>2. CASE does # "tag"
    BY <1>7, <2>2 DEF ReadWell
  <2> QED BY <2>1, <2>2
<1>11. CreatedWell(o)'
  <2>1. Creations(o)' = Creations(o)
    BY <1>1 DEF Creations
  <2>2. op'[o].calls = op[o].calls /\ op'[o].before = op[o].before /\ op'[o].batch = 1
        /\ op'[o].target = op[o].target /\ op'[o].pc = "prepare"
    <3> DEFINE tags == IF does = "tag" THEN copy[c][i].tags ELSE {}
               ver == IF does = "create" THEN 0 ELSE copy[c][i].ver
    <3>1. x = [op[o] EXCEPT !.pc = "prepare", !.batch = 1, !.retried = FALSE, !.tags = tags, !.ver = ver]
      OBVIOUS
    <3>2. op[o] \in Writes!Op
      BY <1>1
    <3> HIDE DEF tags, ver, x
    <3>3. /\ x.calls = op[o].calls /\ x.before = op[o].before /\ x.batch = 1
          /\ x.target = op[o].target /\ x.pc = "prepare"
      BY <3>1, <3>2 DEF Writes!Op
    <3> QED BY <1>6, <3>3
  <2>3. Creates(o)' = Creates(o) /\ Asked(o)' = Asked(o)
    BY <2>2 DEF Creates, Asked
  <2> HIDE DEF x
  <2>4. op[o].before \in Nat /\ Creations(o) \in Nat
    BY Counts
  <2> QED BY <1>1, <2>1, <2>2, <2>3, <2>4 DEF OpInv, CreatedWell, MayHaveLanded
<1> HIDE DEF x
<1>12. faults' \in 0..MaxFaults
  BY <1>1, FaultType
<1> QED BY <1>1, <1>5, <1>9, <1>10, <1>11, <1>12, StepsOn DEF OpInv

LEMMA BeginKeeps ==
  ASSUME WritesInv, NEW o \in Ops, NEW p \in Programs, Writes!Begin(o, p)
  PROVE  WritesInv'
<1> DEFINE x == [Writes!Fresh EXCEPT !.calls = p,
                   !.target = IF Writes!DesktopTakesWrites THEN "local" ELSE "cloud"]
<1>1. /\ op[o] \in Writes!Op /\ OpInv(o) /\ op[o].pc = "idle"
      /\ op' = [op EXCEPT ![o] = x] /\ UNCHANGED <<app, copy, created, everTagged>>
      /\ UNCHANGED <<pending, faults>>
      /\ client' = [client EXCEPT !.serverId = IF ~pending /\ @ = 0 /\ app.writes THEN app.run ELSE @]
  BY WorldStays DEF Writes!Begin, Writes!InPhase, WritesInv, Writes!WritesTypeOK
<1>2. x \in Writes!Op
  BY DEF Writes!Op, Writes!Fresh, Writes!Copies, Writes!Phases, Writes!Answers
<1>3. op'[o] = x
  BY <1>1, OpBecomes
<1>4. op[o].calls = <<>>
  BY <1>1 DEF OpInv, InPlace
<1>5. Creations(o)' = 0
  <2>1. Creations(o) = 0
    BY <1>4, Counts DEF Creates, CreatedWell
  <2> QED BY <1>1, <2>1 DEF Creations
<1>6. OpInv(o)'
  <2>1. /\ op'[o].calls = p /\ op'[o].pc = "call" /\ op'[o].at = 1 /\ op'[o].batch = 1
        /\ op'[o].before = 0 /\ op'[o].wrote = {}
    BY <1>3 DEF Writes!Fresh
  <2>2. Creates(o)' => Asked(o)' \in Nat
    BY <2>1, ProgramFacts DEF Creates, Asked
  <2>3. p # <<>> /\ Len(p) \in 1..2
    BY ProgramFacts
  <2> QED BY <1>5, <2>1, <2>2, <2>3
          DEF OpInv, InPlace, ReadWell, Settled, CreatedWell, Engaged
<1>7. client' \in ClientType
  <2>1. /\ client \in ClientType
        /\ app.run \in Nat
    BY DEF WritesInv, Writes!WritesTypeOK
  <2> QED BY <1>1, <2>1
<1> HIDE DEF x
<1>8. faults' \in 0..MaxFaults
  BY <1>1, FaultType
<1> QED BY <1>1, <1>2, <1>6, <1>7, <1>8, StepsOn

LEMMA PrepareKeeps ==
  ASSUME WritesInv, NEW o \in Ops, Writes!Prepare(o)
  PROVE  WritesInv'
<1> DEFINE asking == [op[o] EXCEPT !.pc = "asking"]
           sent == [op[o] EXCEPT !.pc = "sent", !.key = Writes!KnownKey, !.sid = client.serverId]
<1>1. /\ op[o] \in Writes!Op /\ op[o].pc = "prepare" /\ op[o].pc \in Engaged /\ op[o].target = "local"
      /\ UNCHANGED <<app, copy, created, everTagged, pending>>
      /\ client \in ClientType
  BY WorldStays DEF Writes!Prepare, Writes!InPhase, WritesInv, Writes!WritesTypeOK, Engaged
<1>2. ~MayHaveLanded(o)
  BY <1>1 DEF MayHaveLanded
<1>3. faults' \in 0..MaxFaults
  BY FaultType DEF Writes!Prepare
<1>4. CASE op' = [op EXCEPT ![o].pc = "asking"] /\ UNCHANGED client
  <2>1. asking \in Writes!Op /\ op' = [op EXCEPT ![o] = asking]
    BY <1>1, <1>4, PcType DEF Writes!Phases
  <2>2. asking.pc = "asking" /\ Alike(asking, op[o])
    BY <1>1 DEF Writes!Op, Alike
  <2>3. OpInv(o)'
    <3> HIDE DEF asking
    <3> QED BY <1>1, <1>2, <2>1, <2>2, StaysWell DEF Engaged
  <2> HIDE DEF asking
  <2> QED BY <1>1, <1>3, <1>4, <2>1, <2>3, StepsOn
<1>5. CASE op' = [op EXCEPT ![o] = sent] /\ client' = [client EXCEPT !.key = Writes!KnownKey]
  <2>1. Writes!KnownKey \in Writes!GrantedKeys \cup {NoKey}
    BY <1>1 DEF Writes!KnownKey
  <2>2. sent \in Writes!Op
    <3>1. "sent" \in Writes!Phases /\ client.serverId \in Nat
      BY <1>1 DEF Writes!Phases
    <3> QED BY <1>1, <2>1, <3>1 DEF Writes!Op
  <2>3. sent.pc = "sent" /\ Alike(sent, op[o])
    BY <1>1 DEF Writes!Op, Alike
  <2>4. OpInv(o)'
    <3> HIDE DEF sent
    <3> QED BY <1>1, <1>2, <1>5, <2>2, <2>3, StaysWell DEF Engaged
  <2>5. client' \in ClientType
    BY <1>1, <1>5, <2>1
  <2> HIDE DEF sent
  <2> QED BY <1>1, <1>3, <1>5, <2>2, <2>4, <2>5, StepsOn
<1> QED BY <1>4, <1>5 DEF Writes!Prepare

LEMMA AuthorizeKeeps ==
  ASSUME WritesInv, NEW o \in Ops, NEW remember \in BOOLEAN, Writes!Authorize(o, remember)
  PROVE  WritesInv'
<1> DEFINE k == app.granted + 1
           x == [op[o] EXCEPT !.pc = "prepare"]
<1>1. /\ op[o] \in Writes!Op /\ op[o].pc = "asking" /\ op[o].pc \in Engaged /\ op[o].target = "local"
      /\ UNCHANGED <<copy, created, everTagged, pending, faults>>
      /\ client \in ClientType
      /\ app \in AppType
  BY DEF Writes!Authorize, Writes!InPhase, WritesInv, Writes!WritesTypeOK, Engaged, OpInv, InPlace
<1>2. k \in Writes!GrantedKeys /\ k \in 0..MaxGrants
  <2>1. app.granted \in 0..MaxGrants /\ app.granted < MaxGrants /\ MaxGrants \in Nat
    BY <1>1, TrafficAssumption DEF Writes!Authorize, Writes!WritesAssumption
  <2> QED BY <2>1 DEF Writes!GrantedKeys
<1>3. /\ app' = [app EXCEPT !.granted = k, !.keys = @ \cup {k},
                            !.once = IF remember THEN @ ELSE @ \cup {k}]
      /\ client' = [client EXCEPT !.key = k, !.stored = k, !.serverId = app.run]
      /\ op' = [op EXCEPT ![o] = x]
  BY DEF Writes!Authorize
<1>4. x \in Writes!Op /\ x.pc = "prepare" /\ Alike(x, op[o])
  <2>1. "prepare" \in Writes!Phases
    BY DEF Writes!Phases
  <2> QED BY <1>1, <2>1 DEF Writes!Op, Alike
<1>5. ~MayHaveLanded(o)
  BY <1>1 DEF MayHaveLanded
<1>6. OpInv(o)'
  <2> HIDE DEF x
  <2> QED BY <1>1, <1>3, <1>4, <1>5, StaysWell DEF Engaged
<1> HIDE DEF k, x
<1>7. app' \in AppType
  BY <1>1, <1>2, <1>3
<1>8. client' \in ClientType
  BY <1>1, <1>2, <1>3
<1>9. faults' \in 0..MaxFaults
  BY <1>1, FaultType
<1> QED BY <1>1, <1>3, <1>4, <1>6, <1>7, <1>8, <1>9, StepsOn

\* An answer that is not a success; Creations says what the request did.
LEMMA AnsweredWell ==
  ASSUME WritesInv, NEW o \in Ops, op[o].pc = "sent", NEW a \in Writes!Answers,
         op' = [op EXCEPT ![o] = [op[o] EXCEPT !.pc = "answered", !.answer = a]],
         UNCHANGED <<copy, created, everTagged, app, client, pending>>, faults' \in 0..MaxFaults
  PROVE  WritesInv'
<1> DEFINE x == [op[o] EXCEPT !.pc = "answered", !.answer = a]
<1>1. op[o] \in Writes!Op /\ op[o].target = "local"
  BY DEF WritesInv, Writes!WritesTypeOK, OpInv, InPlace
<1>2. x \in Writes!Op /\ x.pc = "answered" /\ Alike(x, op[o])
  <2>1. "answered" \in Writes!Phases
    BY DEF Writes!Phases
  <2> QED BY <1>1, <2>1 DEF Writes!Op, Alike
<1>3. ~MayHaveLanded(o)
  BY DEF MayHaveLanded
<1>4. op' = [op EXCEPT ![o] = x]
  OBVIOUS
<1> HIDE DEF x
<1>5. OpInv(o)'
  BY <1>1, <1>2, <1>3, <1>4, StaysWell DEF Engaged
<1> QED BY <1>2, <1>4, <1>5, StepsOn

LEMMA RefuseKeeps ==
  ASSUME WritesInv, NEW o \in Ops, Writes!Refuse(o)
  PROVE  WritesInv'
<1>1. Writes!Refusal(o) \in Writes!Answers
  <2>1. app.writes \in BOOLEAN
    BY DEF WritesInv, Writes!WritesTypeOK
  <2> QED BY <2>1 DEF Writes!Refusal, Writes!Answers
<1>2. UNCHANGED <<app, copy, created, everTagged>> /\ UNCHANGED <<client, pending, faults>>
  BY WorldStays DEF Writes!Refuse
<1>3. faults' \in 0..MaxFaults
  BY <1>2, FaultType
<1> QED BY <1>1, <1>2, <1>3, AnsweredWell DEF Writes!Refuse, Writes!InPhase

LEMMA UnreachedKeeps ==
  ASSUME WritesInv, NEW o \in Ops, Writes!Unreached(o)
  PROVE  WritesInv'
<1>1. UNCHANGED <<app, copy, created, everTagged>> /\ UNCHANGED <<client, pending>>
  BY WorldStays DEF Writes!Unreached
<1>2. faults' \in 0..MaxFaults
  BY FaultType DEF Writes!Unreached
<1> QED BY <1>1, <1>2, AnsweredWell DEF Writes!Unreached, Writes!InPhase, Writes!Answers

\* A request that is carried out, seen from the whole library.
LEMMA CarriedOut ==
  ASSUME WritesInv, NEW o \in Ops, op[o].pc \in Engaged, NEW c \in Writes!Copies, c = op[o].target,
         Writes!Current(o, c), Writes!Apply(o, c),
         NEW x \in Writes!Op, op' = [op EXCEPT ![o] = x], OpInv(o)',
         app' \in AppType,
         client' = client, pending' \in BOOLEAN, faults' \in 0..MaxFaults
  PROVE  WritesInv'
<1>1. Writes!WritesTypeOK' /\ Writes!TagsSurvive'
  BY AppliesWell DEF WritesInv, Writes!WritesTypeOK, Writes!TagsSurvive
<1>2. ASSUME NEW q \in Ops, q # o
      PROVE  OpInv(q)'
  <2>1. op'[q] = op[q]
    BY <1>2 DEF WritesInv, Writes!WritesTypeOK
  <2>2. created'["local"][q] = created["local"][q] /\ created'["cloud"][q] = created["cloud"][q]
    BY <1>2, AppliesWell DEF Writes!Copies
  <2> QED BY <2>1, <2>2, AppliesWell, OthersOnward
<1> QED BY <1>1, <1>2 DEF WritesInv

LEMMA ServeKeeps ==
  ASSUME WritesInv, NEW o \in Ops, Writes!Serve(o)
  PROVE  WritesInv'
<1>1. /\ op[o] \in Writes!Op /\ op[o].pc = "sent" /\ op[o].pc \in Engaged /\ op[o].target = "local"
      /\ "local" \in Writes!Copies /\ OpInv(o)
      /\ Writes!Apply(o, "local") /\ UNCHANGED <<client, pending>>
  BY DEF Writes!Serve, Writes!InPhase, WritesInv, Writes!WritesTypeOK, Engaged, OpInv, InPlace, Writes!Copies
<1>2. Writes!Current(o, "local")
  <2>1. app.writes \in BOOLEAN /\ Writes!Refusal(o) = "none"
    BY DEF Writes!Serve, WritesInv, Writes!WritesTypeOK
  <2> QED BY <2>1 DEF Writes!Refusal
<1>3. ~MayHaveLanded(o)
  BY <1>1 DEF MayHaveLanded
<1>4. /\ copy' \in CopyType
      /\ Onward /\ Creations(o)' \in Nat /\ (~Creates(o) => Creations(o)' = 0)
      /\ Creates(o) => Creations(o)' = Creations(o) + 1
  BY <1>1, <1>2, AppliesWell
<1>5. app' \in AppType
  <2>1. app \in AppType
    BY DEF WritesInv, Writes!WritesTypeOK
  <2> QED BY <2>1 DEF Writes!Serve
<1>6. faults' \in 0..MaxFaults
  BY FaultType DEF Writes!Serve
<1>7. PICK a \in {"ok", "lost"} : op' = [op EXCEPT ![o] = [op[o] EXCEPT !.pc = "answered", !.answer = a]]
  BY DEF Writes!Serve
<1> DEFINE x == [op[o] EXCEPT !.pc = "answered", !.answer = a]
<1>8. x \in Writes!Op /\ x.pc = "answered" /\ x.answer = a /\ Alike(x, op[o])
  <2>1. "answered" \in Writes!Phases /\ a \in Writes!Answers
    BY DEF Writes!Phases, Writes!Answers
  <2> QED BY <1>1, <2>1 DEF Writes!Op, Alike
<1>9. op' = [op EXCEPT ![o] = x]
  BY <1>7
<1> HIDE DEF x
<1>10. op'[o] = x
  BY <1>9, OpBecomes
<1>11. ReadWell(o)'
  BY <1>1, <1>4, <1>8, <1>10, ReadOnward
<1>12. InPlace(o)' /\ Settled(o)'
  BY <1>1, <1>8, <1>10 DEF OpInv, InPlace, Settled, Alike, Engaged, Over, Writes!At
<1>13. CreatedWell(o)'
  <2>1. /\ Creates(o)' = Creates(o) /\ Asked(o)' = Asked(o) /\ op'[o].before = op[o].before
        /\ op'[o].batch = op[o].batch /\ op'[o].target = op[o].target /\ op'[o].pc = "answered"
        /\ MayHaveLanded(o)'
    BY <1>8, <1>10 DEF Creates, Asked, Alike, MayHaveLanded
  <2>2. /\ op[o].before \in Nat /\ op[o].batch \in Nat \ {0} /\ Creations(o) \in Nat
        /\ (Creates(o) => Asked(o) \in Nat \ {0}) /\ CreatedWell(o)
    BY Counts
  <2>3. Creates(o) => op[o].batch <= Asked(o)
    BY <1>1, CallFacts DEF OpInv, InPlace
  <2> QED BY <1>1, <1>3, <1>4, <2>1, <2>2, <2>3 DEF CreatedWell
<1>14. OpInv(o)'
  BY <1>11, <1>12, <1>13 DEF OpInv
<1>15. pending' \in BOOLEAN
  BY <1>1 DEF WritesInv, Writes!WritesTypeOK
<1> QED BY <1>1, <1>2, <1>5, <1>6, <1>8, <1>9, <1>14, <1>15, CarriedOut

LEMMA SucceededKeeps ==
  ASSUME WritesInv, NEW o \in Ops, Writes!Succeeded(o)
  PROVE  WritesInv'
<1>1. /\ op[o].pc \in Engaged /\ Writes!RequestSucceeds(o)
      /\ UNCHANGED <<app, copy, created, everTagged>> /\ UNCHANGED <<client, pending, faults>>
  BY WorldStays DEF Writes!Succeeded, Writes!InPhase, Engaged
<1>2. Creations(o)' = Creations(o)
  BY <1>1 DEF Creations
<1>3. OpInv(o)' /\ \E x \in Writes!Op : op' = [op EXCEPT ![o] = x]
  BY <1>1, <1>2, Counts, ReturnsWell DEF CreatedWell
<1>4. faults' \in 0..MaxFaults
  BY <1>1, FaultType
<1> QED BY <1>1, <1>3, <1>4, StepsOn

LEMMA KeyRefusedKeeps ==
  ASSUME WritesInv, NEW o \in Ops, Writes!KeyRefused(o)
  PROVE  WritesInv'
<1> DEFINE x == [Writes!AfterRequest(o) EXCEPT !.pc = "asking", !.retried = TRUE]
<1>1. /\ op[o] \in Writes!Op /\ op[o].pc = "answered" /\ op[o].pc \in Engaged /\ op[o].target = "local"
      /\ op[o].answer = "401" /\ UNCHANGED <<pending, faults>>
      /\ client \in ClientType
  BY DEF Writes!KeyRefused, Writes!InPhase, WritesInv, Writes!WritesTypeOK, Engaged, OpInv, InPlace
<1>2. UNCHANGED <<app, copy, created, everTagged>>
  BY WorldStays DEF Writes!KeyRefused
<1>3. op' = [op EXCEPT ![o] = x] /\ client' = [client EXCEPT !.key = NoKey]
  BY DEF Writes!KeyRefused
<1>4. x \in Writes!Op /\ x.pc = "asking" /\ Alike(x, op[o])
  <2> DEFINE after == Writes!AfterRequest(o)
  <2>1. "asking" \in Writes!Phases
    BY DEF Writes!Phases
  <2>2. after \in Writes!Op /\ Alike(after, op[o]) /\ x = [after EXCEPT !.pc = "asking", !.retried = TRUE]
    BY AfterFacts
  <2> HIDE DEF after, x
  <2> QED BY <2>1, <2>2 DEF Writes!Op, Alike
<1>5. ~MayHaveLanded(o)
  BY <1>1 DEF MayHaveLanded
<1> HIDE DEF x
<1>6. OpInv(o)'
  BY <1>1, <1>2, <1>3, <1>4, <1>5, StaysWell DEF Engaged
<1>7. client' \in ClientType
  BY <1>1, <1>3
<1>8. faults' \in 0..MaxFaults
  BY <1>1, FaultType
<1> QED BY <1>1, <1>2, <1>3, <1>4, <1>6, <1>7, <1>8, StepsOn

LEMMA ProbeAgainKeeps ==
  ASSUME WritesInv, NEW o \in Ops, Writes!ProbeAgain(o)
  PROVE  WritesInv'
<1> DEFINE x == Writes!Resent(o)
<1>1. /\ op[o] \in Writes!Op /\ op[o].pc = "answered" /\ op[o].pc \in Engaged /\ op[o].target = "local"
      /\ op[o].answer = "412" /\ UNCHANGED <<pending, faults>>
      /\ client \in ClientType
      /\ app.run \in Nat
  BY DEF Writes!ProbeAgain, Writes!InPhase, WritesInv, Writes!WritesTypeOK, Engaged, OpInv, InPlace
<1>2. UNCHANGED <<app, copy, created, everTagged>>
  BY WorldStays DEF Writes!ProbeAgain
<1>3. ~MayHaveLanded(o)
  BY <1>1 DEF MayHaveLanded
<1>4. faults' \in 0..MaxFaults
  BY <1>1, FaultType
<1>5. CASE op' = [op EXCEPT ![o] = x] /\ client' = [client EXCEPT !.serverId = app.run]
  <2>1. x \in Writes!Op /\ x.pc = "prepare" /\ Alike(x, op[o])
    <3> DEFINE after == Writes!AfterRequest(o)
    <3>1. "prepare" \in Writes!Phases
      BY DEF Writes!Phases
    <3>2. after \in Writes!Op /\ Alike(after, op[o]) /\ x = [after EXCEPT !.pc = "prepare", !.retried = TRUE]
      BY AfterFacts DEF Writes!Resent
    <3> HIDE DEF after, x
    <3> QED BY <3>1, <3>2 DEF Writes!Op, Alike
  <2> HIDE DEF x
  <2>2. OpInv(o)'
    BY <1>1, <1>2, <1>3, <1>5, <2>1, StaysWell DEF Engaged
  <2>3. client' \in ClientType
    BY <1>1, <1>5
  <2> QED BY <1>1, <1>2, <1>4, <1>5, <2>1, <2>2, <2>3, StepsOn
<1>6. CASE Writes!CallFails(o, "missing") /\ UNCHANGED client
  BY <1>1, <1>2, <1>3, <1>4, <1>6, CallFailsKeeps
<1> QED BY <1>5, <1>6 DEF Writes!ProbeAgain

LEMMA GivesUpKeeps ==
  ASSUME WritesInv, NEW o \in Ops, Writes!GivesUp(o)
  PROVE  WritesInv'
<1>1. /\ op[o].pc \in Engaged /\ Writes!CallFails(o, op[o].answer)
      /\ UNCHANGED <<app, copy, created, everTagged>> /\ UNCHANGED <<client, pending, faults>>
  BY WorldStays DEF Writes!GivesUp, Writes!InPhase, Engaged
<1>2. ASSUME Writes!Unavailable(op[o].answer)
      PROVE  ~MayHaveLanded(o)
  BY <1>2 DEF Writes!Unavailable, MayHaveLanded
<1>3. faults' \in 0..MaxFaults
  BY <1>1, FaultType
<1> QED BY <1>1, <1>2, <1>3, CallFailsKeeps

LEMMA AuthorizeFailsKeeps ==
  ASSUME WritesInv, NEW o \in Ops, Writes!AuthorizeFails(o)
  PROVE  WritesInv'
<1>1. /\ op[o].pc = "asking" /\ op[o].pc \in Engaged
      /\ UNCHANGED <<app, copy, created, everTagged>> /\ UNCHANGED <<client, pending, faults>>
  BY WorldStays DEF Writes!AuthorizeFails, Writes!InPhase, Engaged
<1>2. PICK a : Writes!CallFails(o, a)
  BY DEF Writes!AuthorizeFails
<1>3. ~MayHaveLanded(o)
  BY <1>1 DEF MayHaveLanded
<1>4. faults' \in 0..MaxFaults
  BY <1>1, FaultType
<1> QED BY <1>1, <1>2, <1>3, <1>4, CallFailsKeeps

LEMMA CloudRequestKeeps ==
  ASSUME WritesInv, NEW o \in Ops, Writes!CloudRequest(o)
  PROVE  WritesInv'
<1>1. /\ op[o].pc = "prepare" /\ op[o].pc \in Engaged /\ op[o].target = "cloud"
      /\ "cloud" \in Writes!Copies /\ UNCHANGED <<app, client, faults>>
  BY DEF Writes!CloudRequest, Writes!InPhase, Engaged, Writes!Copies
<1>2. ~MayHaveLanded(o)
  BY <1>1 DEF MayHaveLanded
<1>3. faults' \in 0..MaxFaults
  BY <1>1, FaultType
<1>4. CASE /\ Writes!Current(o, "cloud") /\ Writes!Apply(o, "cloud") /\ Writes!RequestSucceeds(o)
           /\ pending' = TRUE
  <2>1. /\ Creations(o)' \in Nat /\ (~Creates(o) => Creations(o)' = 0)
        /\ Creates(o) => Creations(o)' = Creations(o) + 1
    BY <1>1, <1>4, AppliesWell
  <2>4. Creates(o) => Creations(o)' <= op[o].before + op[o].batch
    BY <1>1, <1>2, <2>1, Counts DEF CreatedWell
  <2>2. OpInv(o)' /\ \E x \in Writes!Op : op' = [op EXCEPT ![o] = x]
    BY <1>1, <1>4, <2>1, <2>4, ReturnsWell
  <2>3. app' \in AppType
    BY <1>1 DEF WritesInv, Writes!WritesTypeOK
  <2> QED BY <1>1, <1>3, <1>4, <2>2, <2>3, CarriedOut
<1>5. CASE Writes!CallFails(o, "412") /\ UNCHANGED <<copy, created, everTagged, pending>>
  BY <1>1, <1>3, <1>5, CallFailsKeeps DEF Writes!Unavailable
<1> QED BY <1>4, <1>5 DEF Writes!CloudRequest

\* What happens while no operation takes a step.
LEMMA EnvironmentKeeps ==
  ASSUME WritesInv, Writes!Environment
  PROVE  WritesInv'
<1>1. /\ faults' \in 0..MaxFaults /\ UNCHANGED <<created, client, op>>
      /\ pending' \in BOOLEAN
  <2>1. faults' \in 0..MaxFaults
    BY FaultType DEF Writes!Environment, Writes!EditInApp, Writes!Revoke, Writes!Restart, Writes!Sync
  <2>2. pending' \in BOOLEAN
    BY DEF WritesInv, Writes!WritesTypeOK, Writes!Environment, Writes!EditInApp, Writes!Revoke,
           Writes!Restart, Writes!Sync
  <2> QED BY <2>1, <2>2 DEF Writes!Environment, Writes!EditInApp, Writes!Revoke, Writes!Restart,
                            Writes!Sync, Writes!world
<1>2. app' \in AppType
  <2>1. app \in AppType
    BY DEF WritesInv, Writes!WritesTypeOK
  <2>2. CASE Writes!Revoke
    BY <2>1, <2>2 DEF Writes!Revoke
  <2>3. ASSUME NEW writes \in BOOLEAN, Writes!Restart(writes)
        PROVE  app' \in AppType
    <3>1. app' = [app EXCEPT !.run = @ + 1, !.writes = writes, !.keys = @ \ app.once]
      BY <2>3 DEF Writes!Restart
    <3>2. app.run + 1 \in Nat /\ app.keys \ app.once \in SUBSET Writes!GrantedKeys
      BY <2>1
    <3> QED BY <2>1, <3>1, <3>2
  <2>4. CASE app' = app
    BY <2>1, <2>4
  <2> QED BY <2>2, <2>3, <2>4
          DEF Writes!Environment, Writes!EditInApp, Writes!Sync, Writes!world
<1>3. /\ copy' \in CopyType
      /\ everTagged' \in TaggedType
      /\ Onward /\ Writes!TagsSurvive'
  <2>1. CASE UNCHANGED <<copy, everTagged>>
    BY <2>1 DEF Onward, WritesInv, Writes!WritesTypeOK, Writes!TagsSurvive
  <2>2. ASSUME NEW i \in Items, Writes!EditInApp(i)
        PROVE  copy' \in CopyType /\ everTagged' \in TaggedType /\ Onward /\ Writes!TagsSurvive'
    <3> DEFINE old == copy["local"][i]
    <3>1. /\ copy \in CopyType
          /\ everTagged \in TaggedType
          /\ \A b \in Writes!Copies, j \in Items : everTagged[b][j] \subseteq copy[b][j].tags
          /\ "local" \in Writes!Copies
      BY DEF WritesInv, Writes!WritesTypeOK, Writes!TagsSurvive, Writes!Copies
    <3>2. /\ copy' = [copy EXCEPT !["local"][i] = [tags |-> @.tags \cup {User}, ver |-> @.ver + 1]]
          /\ everTagged' = [everTagged EXCEPT !["local"][i] = @ \cup {User}]
      BY <2>2 DEF Writes!EditInApp
    <3>3. old.tags \in SUBSET (Ops \cup {User}) /\ old.ver \in Nat
      BY <3>1
    <3>4. /\ copy'["local"][i] = [tags |-> old.tags \cup {User}, ver |-> old.ver + 1]
          /\ \A b \in Writes!Copies, j \in Items : b # "local" \/ j # i => copy'[b][j] = copy[b][j]
          /\ everTagged'["local"][i] = everTagged["local"][i] \cup {User}
          /\ \A b \in Writes!Copies, j \in Items :
               b # "local" \/ j # i => everTagged'[b][j] = everTagged[b][j]
      BY <3>1, <3>2, <3>3
    <3>5. copy' \in CopyType
      BY <3>1, <3>2, <3>3
    <3>6. everTagged' \in TaggedType
      BY <3>1, <3>2
    <3>7. Onward
      BY <3>3, <3>4 DEF Onward
    <3>8. ASSUME NEW b \in Writes!Copies, NEW j \in Items
          PROVE  everTagged'[b][j] \subseteq copy'[b][j].tags
      <4>1. CASE b # "local" \/ j # i
        <5>1. everTagged'[b][j] = everTagged[b][j] /\ copy'[b][j] = copy[b][j]
          BY <3>4, <4>1
        <5> QED BY <3>1, <5>1
      <4>2. CASE b = "local" /\ j = i
        <5>1. everTagged["local"][i] \subseteq old.tags /\ copy'["local"][i].tags = old.tags \cup {User}
          BY <3>1, <3>4
        <5> QED BY <3>4, <4>2, <5>1
      <4> QED BY <4>1, <4>2
    <3> QED BY <3>5, <3>6, <3>7, <3>8 DEF Writes!TagsSurvive
  <2> QED BY <2>1, <2>2 DEF Writes!Environment, Writes!EditInApp, Writes!Revoke, Writes!Restart,
                            Writes!Sync, Writes!world
<1>4. Writes!WritesTypeOK'
  BY <1>1, <1>2, <1>3 DEF WritesInv, Writes!WritesTypeOK
<1>5. \A o \in Ops : OpInv(o)'
  BY <1>1, <1>3, OthersOnward
<1> QED BY <1>3, <1>4, <1>5 DEF WritesInv

LEMMA WritesInvInit == Writes!Init => WritesInv
<1> SUFFICES ASSUME Writes!Init PROVE WritesInv
  OBVIOUS
<1>1. Writes!WritesTypeOK
  <2>1. app \in AppType
    BY TrafficAssumption DEF Writes!Init, Writes!WritesAssumption
  <2>2. [Writes!Fresh EXCEPT !.pc = "idle"] \in Writes!Op
    BY DEF Writes!Fresh, Writes!Op, Writes!Copies, Writes!Phases, Writes!Answers
  <2>3. faults \in 0..MaxFaults
    BY TrafficAssumption DEF Writes!Init, Writes!WritesAssumption
  <2> QED BY <2>1, <2>2, <2>3 DEF Writes!Init, Writes!WritesTypeOK
<1>2. Writes!TagsSurvive
  BY DEF Writes!Init, Writes!TagsSurvive
<1>3. ASSUME NEW o \in Ops
      PROVE  OpInv(o)
  <2>1. op[o] = [Writes!Fresh EXCEPT !.pc = "idle"]
    BY DEF Writes!Init
  <2>2. Creations(o) = 0
    BY DEF Writes!Init, Creations, Writes!Copies
  <2> QED BY <2>1, <2>2
          DEF OpInv, InPlace, ReadWell, Settled, CreatedWell, Creates, Engaged, Writes!Fresh
<1> QED BY <1>1, <1>2, <1>3 DEF WritesInv

LEMMA WritesInvKept == WritesInv /\ Writes!Next => WritesInv'
<1> SUFFICES ASSUME WritesInv, Writes!Next PROVE WritesInv'
  OBVIOUS
<1>1. CASE Writes!Environment
  BY <1>1, EnvironmentKeeps
<1>2. ASSUME NEW o \in Ops, NEW p \in Programs, Writes!Begin(o, p)
      PROVE  WritesInv'
  BY <1>2, BeginKeeps
<1>3. ASSUME NEW o \in Ops, Writes!OpStep(o)
      PROVE  WritesInv'
  BY <1>3, ReadItemKeeps, PrepareKeeps, RefuseKeeps, UnreachedKeeps, ServeKeeps,
     AuthorizeKeeps, AuthorizeFailsKeeps, SucceededKeeps, KeyRefusedKeeps, ProbeAgainKeeps,
     GivesUpKeeps, CloudRequestKeeps
     DEF Writes!OpStep
<1> QED BY <1>1, <1>2, <1>3 DEF Writes!Next

\* What the invariant says of the writes through the app: nothing twice, nothing in two
\* places, nobody's tag lost.
LEMMA WritesInvSays == WritesInv => Writes!WritesLandOnce
<1> SUFFICES ASSUME WritesInv PROVE Writes!WritesLandOnce
  OBVIOUS
<1>1. ASSUME NEW o \in Ops
      PROVE  /\ created["local"][o] + created["cloud"][o] <= Writes!AskedFor(o) + op[o].before
             /\ op[o].before > 0 => op[o].target = "cloud" /\ op[o].before < Writes!AskedFor(o)
  <2>1. CreatedWell(o) /\ op[o].before \in Nat /\ (Creates(o) => Asked(o) \in Nat)
    BY Counts
  <2>2. Writes!AskedFor(o) = IF Creates(o) THEN Asked(o) ELSE 0
    BY DEF Writes!AskedFor, Creates, Asked
  <2> QED BY <2>1, <2>2 DEF CreatedWell, Creations
<1>2. ASSUME NEW o \in Ops
      PROVE  Cardinality(op[o].wrote) <= 1 /\ op[o].wrote \subseteq {op[o].target}
  <2>1. op[o].wrote \subseteq {op[o].target}
    BY DEF WritesInv, OpInv, Settled
  <2>2. IsFiniteSet({op[o].target}) /\ Cardinality({op[o].target}) = 1
    BY FS_Singleton
  <2>3. Cardinality(op[o].wrote) <= Cardinality({op[o].target})
    BY <2>1, <2>2, FS_Subset
  <2> QED BY <2>1, <2>2, <2>3
<1>3. Writes!AppliedOnce
  BY <1>1 DEF Writes!AppliedOnce
<1>4. Writes!OneCopy
  BY <1>2 DEF Writes!OneCopy, Writes!Cardinality, Cardinality
<1> QED BY <1>3, <1>4 DEF WritesInv, Writes!WritesLandOnce

-----------------------------------------------------------------------------
(* Writes on zotero.org.                                                   *)

Writing == {"read", "send"}
Storing == {"authorize", "bytes", "register"}
Ends == {"done", "failed"}

\* What a call has seen of an item is so as long as the item's version stays.
SeenWell(c) ==
  /\ \A i \in Records :
       /\ job[c].seen[i].ver <= cloud.item[i].ver
       /\ job[c].seen[i].ver = cloud.item[i].ver => job[c].seen[i].text = cloud.item[i].text
  /\ job[c].lib <= cloud.lib
  /\ Cloud!Kind(c) = "delete" /\ job[c].pc = "send" /\ job[c].lib = cloud.lib =>
       \A i \in Records : job[c].seen[i].text = cloud.item[i].text

\* A pinned version is the one seen, and is never let go of for another.
PinHeld(c) ==
  job[c].pin # 0 =>
    /\ Cloud!Kind(c) = "replace" /\ ~job[c].again
    /\ job[c].seen[Cloud!Given(c)[1]].ver = job[c].pin

\* A call that has not written puts nothing into an item; one that appends has not
\* written as long as it would, unless its request was answered 503.
OwnText(c) ==
  job[c].pc = "idle" \/ (Cloud!Kind(c) = "append" /\ ~job[c].late /\ job[c].pc \in Writing) =>
    \A i \in Records : cloud.item[i].text[c] = 0

\* Which steps a call of each kind has, and which of its objects it is at.
Placed(c) ==
  /\ job[c].pc = "idle" <=> job[c].work = Cloud!NoWork
  /\ job[c].pc = "read" => Cloud!Kind(c) \notin {"create", "attach"}
  /\ job[c].pc \in {"desktop", "upload"} \cup Storing => Cloud!Kind(c) = "attach"
  /\ job[c].pc \in Writing => job[c].at \in 1..Cloud!Amount(c)
  /\ job[c].pc \in {"idle", "desktop"} \/ (Cloud!Kind(c) = "delete" /\ job[c].pc = "read") =>
       job[c].at = 1
  /\ Cloud!Kind(c) \in {"trash", "delete"} /\ job[c].pc = "read" => job[c].told = {}
  /\ job[c].told \subseteq 1..Cloud!Amount(c)

\* An object is created by the request it is in, once, and on one copy; and a text is put
\* into an item once.
MadeOnce(c) ==
  /\ \A n \in Cloud!Objects : made["cloud"][c][n] + made["desktop"][c][n] <= 1
  /\ Cloud!Kind(c) # "attach" => \A n \in Cloud!Objects : made["desktop"][c][n] = 0
  /\ Cloud!Kind(c) \notin {"create", "attach"} => \A n \in Cloud!Objects : made["cloud"][c][n] = 0
  /\ ~(Cloud!Kind(c) = "append" /\ job[c].late) => \A i \in Records : cloud.item[i].text[c] <= 1

\* What is still to be created has not been, and a file is stored for what has been.
ToMake(c) ==
  /\ /\ Cloud!Kind(c) \in {"create", "attach"}
     /\ job[c].pc \in {"idle", "desktop"} \/ (job[c].pc = "send" /\ ~job[c].again)
     => \A n \in Cloud!Objects : /\ n >= job[c].at => made["cloud"][c][n] = 0
                                 /\ made["desktop"][c][n] = 0
  /\ Cloud!Kind(c) = "attach" => /\ job[c].pc = "upload" => made["desktop"][c][1] = 1
                                 /\ job[c].pc \in Storing => made["cloud"][c][1] = 1

\* What is told so far is so, and the router has heard nothing before the end.
ToldWell(c) ==
  /\ Cloud!Kind(c) = "create" /\ job[c].pc = "send" =>
       /\ job[c].told = {n \in 1..(job[c].at - 1) : made["cloud"][c][n] = 1}
       /\ job[c].refused = (1..(job[c].at - 1)) \ job[c].told
  /\ Cloud!Kind(c) = "trash" => \A n \in job[c].told : cloud.item[Cloud!Given(c)[n]].trashed
  /\ Cloud!Kind(c) = "delete" /\ job[c].pc = "send" =>
       /\ job[c].told = 1..(job[c].at - 1)
       /\ \A n \in job[c].told : ~cloud.item[Cloud!Given(c)[n]].there
  /\ job[c].pc = "idle" \/ (Cloud!Kind(c) \in {"create", "trash", "delete"} /\ job[c].pc \in Writing) =>
       reported[c] = {}
  /\ job[c].pc \notin Ends => filed[c] = {}

EndsWell(c) ==
  job[c].pc = "done" =>
    /\ Cloud!Kind(c) = "create" => /\ job[c].told = {n \in Cloud!Objects : made["cloud"][c][n] = 1}
                                   /\ reported[c] = job[c].told
                                   /\ job[c].refused = (1..Cloud!Amount(c)) \ job[c].told
    /\ Cloud!Kind(c) = "trash" => reported[c] = job[c].told
    /\ Cloud!Kind(c) = "delete" => /\ \A n \in 1..Cloud!Amount(c) : ~cloud.item[Cloud!Given(c)[n]].there
                                   /\ reported[c] = 1..Cloud!Amount(c)
    /\ Cloud!Kind(c) = "attach" => \E p \in Cloud!Places : filed[c] = {p} /\ made[p][c][1] = 1

JobInv(c) ==
  /\ SeenWell(c) /\ PinHeld(c) /\ OwnText(c) /\ Placed(c)
  /\ MadeOnce(c) /\ ToMake(c) /\ ToldWell(c) /\ EndsWell(c)

\* Every version is one the library had.
CloudKept == \A i \in Records : cloud.item[i].ver \in 1..cloud.lib

CloudInv == Cloud!CloudTypeOK /\ unseen = {} /\ CloudKept /\ \A c \in Jobs : JobInv(c)

MadeType == [Cloud!Places -> [Jobs -> [Cloud!Objects -> 0..2]]]
Cells == [text : Cloud!Texts, ver : Nat, there : BOOLEAN, trashed : BOOLEAN]
Sights == [text : Cloud!Texts, ver : Nat]
JobType == [work : Works \cup {Cloud!NoWork}, pc : Cloud!Steps, at : Nat,
            seen : [Records -> Sights], lib : Nat, pin : Nat,
            again : BOOLEAN, late : BOOLEAN, told : SUBSET Cloud!Objects, refused : SUBSET Cloud!Objects]

USE DEF MadeType

LEMMA CloudTypes ==
  ASSUME CloudInv
  PROVE  /\ cloud.lib \in Nat /\ cloud.item \in [Records -> Cells]
         /\ cloud = [lib |-> cloud.lib, item |-> cloud.item]
         /\ made \in MadeType
         /\ filed \in [Jobs -> SUBSET Cloud!Places]
         /\ job \in [Jobs -> JobType]
         /\ reported \in [Jobs -> SUBSET Cloud!Objects]
         /\ mishaps \in 0..MaxMishaps
BY DEF CloudInv, Cloud!CloudTypeOK, Cells, Sights, JobType

LEMMA WorkFacts ==
  ASSUME NEW w \in Works
  PROVE  /\ w.kind \in Cloud!Kinds /\ w # Cloud!NoWork
         /\ w.kind = "attach" => w.items = <<>>
         /\ w.kind # "attach" => /\ Len(w.items) \in 1..2
                                 /\ \A n \in 1..Len(w.items) : w.items[n] \in Records
         /\ w.kind \in {"append", "replace"} => Len(w.items) = 1
<1>1. 1 \in Records /\ 2 \in Records
  BY TrafficAssumption
<1>2. CASE \E k \in {"create", "trash", "delete", "tag"} : w = [kind |-> k, items |-> <<1, 2>>]
  <2>1. PICK k \in {"create", "trash", "delete", "tag"} : w = [kind |-> k, items |-> <<1, 2>>]
    BY <1>2
  <2>2. w.kind = k /\ w.items = <<1, 2>>
    BY <2>1
  <2>3. Len(w.items) = 2 /\ w.items[1] = 1 /\ w.items[2] = 2
    BY <2>2
  <2>4. w # Cloud!NoWork
    BY <2>3 DEF Cloud!NoWork
  <2> QED BY <1>1, <2>1, <2>2, <2>3, <2>4 DEF Cloud!Kinds
<1>3. CASE \E k \in {"delete", "append", "replace"} : w = [kind |-> k, items |-> <<1>>]
  <2>1. PICK k \in {"delete", "append", "replace"} : w = [kind |-> k, items |-> <<1>>]
    BY <1>3
  <2>2. w.kind = k /\ w.items = <<1>>
    BY <2>1
  <2>3. Len(w.items) = 1 /\ w.items[1] = 1
    BY <2>2
  <2>4. w # Cloud!NoWork
    BY <2>3 DEF Cloud!NoWork
  <2> QED BY <1>1, <2>1, <2>2, <2>3, <2>4 DEF Cloud!Kinds
<1>4. CASE w = [kind |-> "attach", items |-> <<>>]
  BY <1>4 DEF Cloud!Kinds, Cloud!NoWork
<1> QED BY <1>2, <1>3, <1>4 DEF Works

\* A call that has begun: its work, and the item it is at.
LEMMA JobFacts ==
  ASSUME CloudInv, NEW c \in Jobs
  PROVE  /\ job[c] \in JobType /\ JobInv(c)
         /\ job[c].pc # "idle" =>
              /\ job[c].work \in Works /\ Cloud!Kind(c) \in Cloud!Kinds
              /\ Cloud!Amount(c) \in 1..2
              /\ Cloud!Kind(c) # "attach" =>
                   /\ Cloud!Amount(c) = Len(Cloud!Given(c))
                   /\ \A n \in 1..Cloud!Amount(c) : Cloud!Given(c)[n] \in Records
              /\ Cloud!Kind(c) = "attach" => Cloud!Amount(c) = 1
              /\ Cloud!Kind(c) \in {"append", "replace"} => Cloud!Amount(c) = 1
         /\ job[c].pc = "idle" => Cloud!Kind(c) = "create" /\ Cloud!Amount(c) = 0
<1>1. job[c] \in JobType /\ JobInv(c)
  BY CloudTypes DEF CloudInv
<1>2. job[c].work \in Works \cup {Cloud!NoWork} /\ (job[c].pc = "idle" <=> job[c].work = Cloud!NoWork)
  BY <1>1 DEF JobType, JobInv, Placed
<1>3. CASE job[c].pc # "idle"
  <2>1. job[c].work \in Works
    BY <1>2, <1>3
  <2> QED BY <1>1, <1>3, <2>1, WorkFacts DEF Cloud!Kind, Cloud!Given, Cloud!Amount
<1>4. CASE job[c].pc = "idle"
  BY <1>1, <1>2, <1>4 DEF Cloud!Kind, Cloud!Given, Cloud!Amount, Cloud!NoWork
<1> QED BY <1>1, <1>3, <1>4

\* The library moves on: no item goes back to a version it had, none comes back once it is
\* deleted or out of the trash, and nothing changes while the library's version stays.
LibraryOnward ==
  /\ cloud.lib <= cloud'.lib
  /\ cloud.lib = cloud'.lib => cloud' = cloud
  /\ \A i \in Records : /\ cloud'.item[i] = cloud.item[i] \/ cloud'.item[i].ver > cloud.item[i].ver
                        /\ ~cloud.item[i].there => ~cloud'.item[i].there
                        /\ cloud.item[i].trashed => cloud'.item[i].trashed

LEMMA LibraryStays ==
  ASSUME CloudInv, cloud' = cloud
  PROVE  LibraryOnward
BY CloudTypes DEF LibraryOnward

\* What a call has seen is so, or the item has moved on.
LEMMA SeenOnward ==
  ASSUME CloudInv, NEW c \in Jobs, LibraryOnward, cloud'.item \in [Records -> Cells], cloud'.lib \in Nat,
         job'[c].seen = job[c].seen, job'[c].lib = job[c].lib, job'[c].work = job[c].work,
         Cloud!Kind(c) = "delete" /\ job'[c].pc = "send" => job[c].pc = "send"
  PROVE  SeenWell(c)'
<1>1. SeenWell(c) /\ job[c] \in JobType
  BY JobFacts DEF JobInv
<1>2. ASSUME NEW i \in Records
      PROVE  /\ job'[c].seen[i].ver <= cloud'.item[i].ver
             /\ job'[c].seen[i].ver = cloud'.item[i].ver => job'[c].seen[i].text = cloud'.item[i].text
  <2> DEFINE saw == job[c].seen[i]
             old == cloud.item[i]
             now == cloud'.item[i]
  <2>1. saw.ver \in Nat /\ old.ver \in Nat /\ now.ver \in Nat
    BY <1>1, CloudTypes DEF JobType, Sights, Cells
  <2>2. saw.ver <= old.ver /\ (saw.ver = old.ver => saw.text = old.text)
    BY <1>1 DEF SeenWell
  <2>3. now = old \/ now.ver > old.ver
    BY DEF LibraryOnward
  <2>4. saw.ver <= now.ver /\ (saw.ver = now.ver => saw.text = now.text)
    <3> HIDE DEF saw, old, now
    <3> QED BY <2>1, <2>2, <2>3
  <2> QED BY <2>4
<1>3. job'[c].lib <= cloud'.lib
  BY <1>1, CloudTypes DEF SeenWell, JobType, LibraryOnward
<1>4. ASSUME Cloud!Kind(c) = "delete", job'[c].pc = "send", job'[c].lib = cloud'.lib, NEW i \in Records
      PROVE  job'[c].seen[i].text = cloud'.item[i].text
  <2>1. cloud.lib = cloud'.lib /\ job[c].lib = cloud.lib
    <3>1. job[c].lib <= cloud.lib /\ cloud.lib <= cloud'.lib /\ job[c].lib = cloud'.lib
      BY <1>1, <1>4 DEF SeenWell, LibraryOnward
    <3>2. job[c].lib \in Nat /\ cloud.lib \in Nat /\ cloud'.lib \in Nat
      BY <1>1, CloudTypes DEF JobType
    <3> QED BY <3>1, <3>2
  <2> QED BY <1>1, <1>4, <2>1 DEF SeenWell, LibraryOnward
<1> QED BY <1>2, <1>3, <1>4 DEF SeenWell, Cloud!Kind

\* Nobody else puts a call's words into an item.
NoneAdded(c) ==
  \A i \in Records : /\ cloud.item[i].text[c] = 0 => cloud'.item[i].text[c] = 0
                     /\ cloud.item[i].text[c] <= 1 => cloud'.item[i].text[c] <= 1

\* A call goes on with its work, and does not forget a 503.
SameTask(c) == job'[c].work = job[c].work /\ (job[c].late => job'[c].late)

\* Another call is what it was.
LEMMA OthersStay ==
  ASSUME CloudInv, NEW d \in Jobs, job'[d] = job[d], LibraryOnward,
         cloud'.item \in [Records -> Cells], cloud'.lib \in Nat,
         NoneAdded(d),
         made'["cloud"][d] = made["cloud"][d], made'["desktop"][d] = made["desktop"][d],
         reported'[d] = reported[d], filed'[d] = filed[d]
  PROVE  JobInv(d)'
<1>1. JobInv(d) /\ job[d] \in JobType
  BY JobFacts
<1>2. /\ Cloud!Kind(d)' = Cloud!Kind(d) /\ Cloud!Given(d)' = Cloud!Given(d)
      /\ Cloud!Amount(d)' = Cloud!Amount(d)
  BY DEF Cloud!Kind, Cloud!Given, Cloud!Amount
<1>3. SeenWell(d)'
  BY SeenOnward
<1>4. PinHeld(d)' /\ OwnText(d)' /\ Placed(d)'
  BY <1>1, <1>2 DEF JobInv, PinHeld, OwnText, Placed, NoneAdded
<1>5. MadeOnce(d)' /\ ToMake(d)'
  BY <1>1, <1>2 DEF JobInv, MadeOnce, ToMake, NoneAdded
<1>6. job[d].told \subseteq 1..Cloud!Amount(d)
  BY <1>1 DEF JobInv, Placed
<1>7. CASE job[d].pc # "idle"
  <2>1. Cloud!Kind(d) # "attach" => \A n \in 1..Cloud!Amount(d) : Cloud!Given(d)[n] \in Records
    BY <1>7, JobFacts
  <2>2. ToldWell(d)'
    <3>1. /\ Cloud!Kind(d) = "trash" =>
               \A n \in job[d].told : cloud'.item[Cloud!Given(d)[n]].trashed
          /\ Cloud!Kind(d) = "delete" /\ job[d].pc = "send" =>
               \A n \in job[d].told : ~cloud'.item[Cloud!Given(d)[n]].there
      BY <1>1, <1>6, <2>1 DEF JobInv, ToldWell, LibraryOnward
    <3> QED BY <1>1, <1>2, <3>1 DEF JobInv, ToldWell
  <2>3. EndsWell(d)'
    <3>1. Cloud!Kind(d) = "delete" /\ job[d].pc = "done" =>
            \A n \in 1..Cloud!Amount(d) : ~cloud'.item[Cloud!Given(d)[n]].there
      BY <1>1, <2>1 DEF JobInv, EndsWell, LibraryOnward
    <3>2. ASSUME NEW p \in Cloud!Places
          PROVE  made'[p][d] = made[p][d]
      BY DEF Cloud!Places
    <3> QED BY <1>1, <1>2, <3>1, <3>2 DEF JobInv, EndsWell
  <2> QED BY <1>3, <1>4, <1>5, <2>2, <2>3 DEF JobInv
<1>8. CASE job[d].pc = "idle"
  <2>1. ToldWell(d)' /\ EndsWell(d)'
    BY <1>1, <1>2, <1>8, JobFacts DEF JobInv, ToldWell, EndsWell, Ends
  <2> QED BY <1>3, <1>4, <1>5, <2>1 DEF JobInv
<1> QED BY <1>7, <1>8

\* A step of one call.
LEMMA JobSteps ==
  ASSUME CloudInv, NEW c \in Jobs, NEW x \in JobType, job' = [job EXCEPT ![c] = x], LibraryOnward,
         cloud'.lib \in Nat, cloud'.item \in [Records -> Cells],
         cloud' = [lib |-> cloud'.lib, item |-> cloud'.item], CloudKept',
         made' \in MadeType,
         filed' \in [Jobs -> SUBSET Cloud!Places], reported' \in [Jobs -> SUBSET Cloud!Objects],
         mishaps' \in 0..MaxMishaps, unseen' = {},
         \A d \in Jobs \ {c} :
           /\ NoneAdded(d)
           /\ made'["cloud"][d] = made["cloud"][d] /\ made'["desktop"][d] = made["desktop"][d]
           /\ reported'[d] = reported[d] /\ filed'[d] = filed[d],
         JobInv(c)'
  PROVE  CloudInv'
<1>1. job \in [Jobs -> JobType]
  BY CloudTypes
<1>2. job' \in [Jobs -> JobType] /\ job'[c] = x
  BY <1>1
<1>3. Cloud!CloudTypeOK'
  <2>1. cloud' \in [lib : Nat, item : [Records -> Cells]]
    <3>1. [lib |-> cloud'.lib, item |-> cloud'.item] \in [lib : Nat, item : [Records -> Cells]]
      OBVIOUS
    <3> QED BY <3>1
  <2> QED BY <1>2, <2>1 DEF Cloud!CloudTypeOK, Cells, Sights, JobType
<1>4. ASSUME NEW d \in Jobs, d # c
      PROVE  JobInv(d)'
  <2>1. job'[d] = job[d]
    BY <1>1, <1>4
  <2> QED BY <1>4, <2>1, OthersStay
<1> QED BY <1>3, <1>4 DEF CloudInv

\* A step of one call that leaves the library and what is known of it.
LEMMA JobTurns ==
  ASSUME CloudInv, NEW c \in Jobs, NEW x \in JobType, job' = [job EXCEPT ![c] = x],
         UNCHANGED Cloud!library, mishaps' \in 0..MaxMishaps, JobInv(c)'
  PROVE  CloudInv'
<1>1. UNCHANGED <<cloud, made, filed, reported, unseen>>
  BY DEF Cloud!library
<1>2. LibraryOnward
  BY <1>1, LibraryStays
<1>3. CloudKept' /\ unseen' = {} /\ \A d \in Jobs : NoneAdded(d)
  BY <1>1 DEF CloudInv, CloudKept, NoneAdded
<1> QED BY <1>1, <1>2, <1>3, CloudTypes, JobSteps

LEMMA JobBecomes ==
  ASSUME CloudInv, NEW c \in Jobs, NEW x, job' = [job EXCEPT ![c] = x]
  PROVE  job'[c] = x
BY CloudTypes

LEMMA SameWork ==
  ASSUME NEW c \in Jobs, job'[c].work = job[c].work
  PROVE  /\ Cloud!Kind(c)' = Cloud!Kind(c) /\ Cloud!Given(c)' = Cloud!Given(c)
         /\ Cloud!Amount(c)' = Cloud!Amount(c)
BY DEF Cloud!Kind, Cloud!Given, Cloud!Amount

LEMMA MishapType ==
  ASSUME CloudInv, mishaps' = mishaps \/ Cloud!Mishap
  PROVE  mishaps' \in 0..MaxMishaps
<1>1. mishaps \in 0..MaxMishaps /\ MaxMishaps \in Nat
  BY CloudTypes, TrafficAssumption DEF Cloud!CloudAssumption
<1> QED BY <1>1 DEF Cloud!Mishap

\* What a call is at, ended or not.
Same(x, y) == x.work = y.work /\ x.seen = y.seen /\ x.lib = y.lib /\ x.pin = y.pin

\* A call that ends badly keeps its promises.
LEMMA FailsWell ==
  ASSUME CloudInv, NEW c \in Jobs, job[c].pc # "idle", NEW x \in JobType,
         job' = [job EXCEPT ![c] = x], x.pc = "failed", Same(x, job[c]),
         x.again = job[c].again, x.told = job[c].told,
         LibraryOnward, cloud'.lib \in Nat, cloud'.item \in [Records -> Cells], MadeOnce(c)'
  PROVE  JobInv(c)'
<1>1. JobInv(c) /\ job[c] \in JobType
  BY JobFacts
<1>2. x.pc = "failed" /\ Same(x, job[c]) /\ x.again = job[c].again /\ x.told = job[c].told
  OBVIOUS
<1>3. job'[c] = x
  BY JobBecomes
<1> HIDE DEF MadeOnce
<1>4. /\ Cloud!Kind(c)' = Cloud!Kind(c) /\ Cloud!Given(c)' = Cloud!Given(c)
      /\ Cloud!Amount(c)' = Cloud!Amount(c)
  BY <1>2, <1>3, SameWork DEF Same
<1>5. SeenWell(c)'
  BY <1>2, <1>3, SeenOnward DEF Same
<1>6. PinHeld(c)' /\ OwnText(c)'
  BY <1>1, <1>2, <1>3, <1>4 DEF JobInv, PinHeld, OwnText, Same, Writing
<1>7. Placed(c)'
  BY <1>1, <1>2, <1>3, <1>4, JobFacts DEF JobInv, Placed, Same, Writing, Storing
<1>8. ToMake(c)' /\ EndsWell(c)'
  BY <1>2, <1>3, <1>4 DEF ToMake, EndsWell, Storing
<1>9. ToldWell(c)'
  <2>1. Cloud!Kind(c) = "trash" =>
          \A n \in job[c].told : cloud'.item[Cloud!Given(c)[n]].trashed
    BY <1>1, JobFacts DEF JobInv, Placed, ToldWell, LibraryOnward
  <2> QED BY <1>2, <1>3, <1>4, <2>1 DEF ToldWell, Writing, Ends
<1> QED BY <1>5, <1>6, <1>7, <1>8, <1>9 DEF JobInv

\* A loop over items, or a call with one item, is done with an item.
LEMMA GoesWell ==
  ASSUME CloudInv, NEW c \in Jobs, job[c].pc \in Writing, Cloud!Kind(c) \in Cloud!OneByOne,
         NEW told \in SUBSET (1..Cloud!Amount(c)), NEW refused \in SUBSET Cloud!Objects,
         job' = [job EXCEPT ![c] = Cloud!Goes(c, told, refused)],
         LibraryOnward, cloud'.lib \in Nat, cloud'.item \in [Records -> Cells], MadeOnce(c)',
         filed'[c] = filed[c]
  PROVE  Cloud!Goes(c, told, refused) \in JobType /\ JobInv(c)'
<1> DEFINE x == Cloud!Goes(c, told, refused)
<1>1. /\ JobInv(c) /\ job[c] \in JobType /\ job[c].pc # "idle" /\ job[c].at \in 1..Cloud!Amount(c)
      /\ Cloud!Amount(c) \in 1..2 /\ Cloud!Amount(c) = Len(Cloud!Given(c))
  BY JobFacts DEF JobInv, Placed, Writing, Cloud!OneByOne
<1>2. told \in SUBSET Cloud!Objects /\ refused \in SUBSET Cloud!Objects
  BY <1>1 DEF Cloud!Objects
<1>3. /\ x \in JobType /\ Same(x, job[c]) /\ x.told = told /\ x.again = job[c].again
      /\ \/ Cloud!Kind(c) = "tag" /\ x.pc = "read" /\ x.at \in 1..Cloud!Amount(c)
         \/ x.pc \in Ends
  <2>1. CASE Cloud!Kind(c) = "tag" /\ job[c].at < Len(Cloud!Given(c))
    <3>1. x = [job[c] EXCEPT !.pc = "read", !.at = job[c].at + 1, !.told = told, !.refused = refused]
      BY <2>1 DEF Cloud!Goes
    <3>2. "read" \in Cloud!Steps /\ job[c].at + 1 \in 1..Cloud!Amount(c) /\ job[c].at + 1 \in Nat
      BY <1>1, <2>1 DEF Cloud!Steps
    <3> HIDE DEF x
    <3> QED BY <1>1, <1>2, <2>1, <3>1, <3>2 DEF JobType, Same
  <2>2. CASE ~(Cloud!Kind(c) = "tag" /\ job[c].at < Len(Cloud!Given(c)))
    <3>1. PICK p \in Ends : x = [job[c] EXCEPT !.pc = p, !.told = told, !.refused = refused]
      BY <2>2 DEF Cloud!Goes, Ends
    <3>2. p \in Cloud!Steps
      BY DEF Ends, Cloud!Steps
    <3> HIDE DEF x
    <3> QED BY <1>1, <1>2, <3>1, <3>2 DEF JobType, Same
  <2> QED BY <2>1, <2>2
<1>4. job'[c] = x
  BY JobBecomes
<1> HIDE DEF x
<1>5. /\ Cloud!Kind(c)' = Cloud!Kind(c) /\ Cloud!Given(c)' = Cloud!Given(c)
      /\ Cloud!Amount(c)' = Cloud!Amount(c)
  BY <1>3, <1>4, SameWork DEF Same
<1>6. Cloud!Kind(c) \notin {"create", "trash", "delete", "attach"}
  BY DEF Cloud!OneByOne
<1>7. SeenWell(c)'
  BY <1>3, <1>4, <1>6, SeenOnward DEF Same
<1>8. PinHeld(c)' /\ OwnText(c)'
  BY <1>1, <1>3, <1>4, <1>5 DEF JobInv, PinHeld, OwnText, Same, Writing, Ends
<1>9. Placed(c)'
  BY <1>1, <1>3, <1>4, <1>5, <1>6 DEF JobInv, Placed, Same, Writing, Storing, Ends
<1>10. ToMake(c)' /\ EndsWell(c)'
  BY <1>5, <1>6 DEF ToMake, EndsWell
<1>11. ToldWell(c)'
  BY <1>1, <1>3, <1>4, <1>5, <1>6 DEF JobInv, ToldWell, Writing, Ends
<1> QED BY <1>3, <1>7, <1>8, <1>9, <1>10, <1>11 DEF JobInv, x

\* What is sent of a call, and what of it is taken.
LEMMA TakenFacts ==
  ASSUME CloudInv, NEW c \in Jobs, job[c].pc = "send"
  PROVE  /\ Cloud!Sent(c) \subseteq 1..Cloud!Amount(c) /\ Cloud!Taken(c) \subseteq Cloud!Sent(c)
         /\ \A n \in Cloud!Sent(c) : n >= job[c].at
         /\ Cloud!Kind(c) \in {"create", "attach"} /\ Cloud!Taken(c) # {} =>
              ~job[c].again /\ Cloud!Taken(c) = Cloud!Sent(c)
         /\ Cloud!Kind(c) = "delete" /\ Cloud!Taken(c) # {} =>
              job[c].lib = cloud.lib /\ Cloud!Taken(c) = Cloud!Sent(c)
         /\ Cloud!Kind(c) \in {"trash"} \cup Cloud!OneByOne =>
              \A n \in Cloud!Taken(c) :
                cloud.item[Cloud!Given(c)[n]].there
                  /\ cloud.item[Cloud!Given(c)[n]].ver = job[c].seen[Cloud!Given(c)[n]].ver
<1>1. /\ JobInv(c) /\ job[c] \in JobType /\ job[c].at \in 1..Cloud!Amount(c)
      /\ Cloud!Kind(c) \in Cloud!Kinds /\ Cloud!Amount(c) \in 1..2
  BY JobFacts DEF JobInv, Placed, Writing
<1>2. job[c].at \in Nat /\ Batch \in Nat
  BY <1>1, TrafficAssumption DEF Cloud!CloudAssumption
<1>3. /\ Cloud!Sent(c) \subseteq 1..Cloud!Amount(c)
      /\ \A n \in Cloud!Sent(c) : n >= job[c].at
  BY <1>1, <1>2 DEF Cloud!Sent
<1> QED BY <1>1, <1>3 DEF Cloud!Taken, Cloud!Kinds, Cloud!OneByOne

\* Whatever is edited or deleted is as the call has seen it.
LEMMA TakenIsSeen ==
  ASSUME CloudInv, NEW c \in Jobs, job[c].pc = "send",
         Cloud!Kind(c) \notin {"create", "attach"}, NEW n \in Cloud!Taken(c)
  PROVE  /\ Cloud!Given(c)[n] \in Records
         /\ job[c].seen[Cloud!Given(c)[n]].text = cloud.item[Cloud!Given(c)[n]].text
<1>1. /\ JobInv(c) /\ Cloud!Kind(c) \in Cloud!Kinds
      /\ \A m \in 1..Cloud!Amount(c) : Cloud!Given(c)[m] \in Records
  BY JobFacts
<1>2. n \in 1..Cloud!Amount(c)
  BY TakenFacts
<1>3. CASE Cloud!Kind(c) = "delete"
  BY <1>1, <1>2, <1>3, TakenFacts DEF JobInv, SeenWell
<1>4. CASE Cloud!Kind(c) # "delete"
  <2>1. Cloud!Kind(c) \in {"trash"} \cup Cloud!OneByOne
    BY <1>1, <1>4 DEF Cloud!Kinds, Cloud!OneByOne
  <2> QED BY <1>1, <1>2, <2>1, TakenFacts DEF JobInv, SeenWell
<1> QED BY <1>3, <1>4

\* What an edit makes of an item's text: its own words once, and others' as they were or
\* gone.
LEMMA TextFacts ==
  ASSUME CloudInv, NEW c \in Jobs, job[c].pc = "send",
         Cloud!Kind(c) \notin {"create", "attach"}, NEW n \in Cloud!Taken(c), NEW i, i = Cloud!Given(c)[n]
  PROVE  /\ Cloud!NewText(c, i) \in Cloud!Texts
         /\ ~(Cloud!Kind(c) = "append" /\ job[c].late) => Cloud!NewText(c, i)[c] <= 1
         /\ \A w \in Cloud!Writers \ {c} :
              /\ cloud.item[i].text[w] = 0 => Cloud!NewText(c, i)[w] = 0
              /\ cloud.item[i].text[w] <= 1 => Cloud!NewText(c, i)[w] <= 1
<1> DEFINE old == job[c].seen[i].text
<1>1. i \in Records /\ old = cloud.item[i].text
  BY TakenIsSeen
<1>2. old \in Cloud!Texts /\ c \in Cloud!Writers
  BY <1>1, CloudTypes DEF Cells, Cloud!Writers
<1>3. \A w \in Cloud!Writers : old[w] \in 0..2
  BY <1>2 DEF Cloud!Texts
<1>4. /\ Cloud!Kind(c) \in Cloud!Kinds
      /\ Cloud!Kind(c) = "append" /\ ~job[c].late => old[c] = 0
      /\ Cloud!Kind(c) # "append" => old[c] <= 1
  BY <1>1, JobFacts DEF JobInv, OwnText, MadeOnce, Writing
<1> HIDE DEF old
<1>5. CASE Cloud!Kind(c) = "tag"
  <2>1. Cloud!NewText(c, i) = [old EXCEPT ![c] = 1]
    BY <1>5 DEF Cloud!NewText, old
  <2> QED BY <1>1, <1>2, <1>3, <2>1 DEF Cloud!Texts
<1>6. CASE Cloud!Kind(c) = "append"
  <2> DEFINE n1 == IF old[c] < 2 THEN old[c] + 1 ELSE old[c]
  <2>1. Cloud!NewText(c, i) = [old EXCEPT ![c] = n1]
    BY <1>6 DEF Cloud!NewText, old
  <2>2. n1 \in 0..2 /\ (~job[c].late => n1 <= 1)
    BY <1>2, <1>3, <1>4, <1>6
  <2> HIDE DEF n1
  <2> QED BY <1>1, <1>2, <1>3, <1>6, <2>1, <2>2 DEF Cloud!Texts
<1>7. CASE Cloud!Kind(c) = "replace"
  <2>1. Cloud!NewText(c, i) = [Cloud!Nobody EXCEPT ![c] = 1]
    BY <1>7 DEF Cloud!NewText
  <2> QED BY <1>2, <2>1 DEF Cloud!Texts, Cloud!Nobody
<1>8. CASE Cloud!Kind(c) \in {"trash", "delete"}
  <2>1. Cloud!NewText(c, i) = old
    BY <1>1, <1>8 DEF Cloud!NewText
  <2> QED BY <1>1, <1>2, <1>3, <1>4, <1>8, <2>1
<1> QED BY <1>4, <1>5, <1>6, <1>7, <1>8 DEF Cloud!Kinds

\* A request that is carried out.
LEMMA AppliedWell ==
  ASSUME CloudInv, NEW c \in Jobs, job[c].pc = "send", ~Cloud!RefusedWhole(c),
         NEW takes \in SUBSET Cloud!Taken(c), takes = Cloud!Taken(c) \/ Cloud!Kind(c) \in {"create", "attach"},
         Cloud!Apply(c, takes)
  PROVE  /\ LibraryOnward /\ CloudKept' /\ unseen' = {}
         /\ cloud'.lib \in Nat /\ cloud'.item \in [Records -> Cells]
         /\ cloud' = [lib |-> cloud'.lib, item |-> cloud'.item]
         /\ \A d \in Jobs \ {c} : NoneAdded(d)
         /\ ~(Cloud!Kind(c) = "append" /\ job[c].late) => \A i \in Records : cloud'.item[i].text[c] <= 1
         /\ Cloud!Kind(c) = "trash" => \A n \in takes : cloud'.item[Cloud!Given(c)[n]].trashed
         /\ Cloud!Kind(c) = "delete" => \A n \in takes : ~cloud'.item[Cloud!Given(c)[n]].there
         /\ Cloud!Kind(c) \in {"create", "attach"} => cloud' = cloud
         /\ Cloud!Kind(c) \notin {"create", "attach"} => made' = made
<1>1. JobInv(c) /\ job[c] \in JobType /\ Cloud!Kind(c) \in Cloud!Kinds
  BY JobFacts
<1>2. /\ CloudKept /\ unseen = {}
      /\ ~(Cloud!Kind(c) = "append" /\ job[c].late) => \A i \in Records : cloud.item[i].text[c] <= 1
  BY <1>1 DEF CloudInv, JobInv, MadeOnce
<1>3. CASE Cloud!Kind(c) \in {"create", "attach"}
  <2>1. UNCHANGED <<cloud, unseen>>
    BY <1>3 DEF Cloud!Apply
  <2> QED BY <1>2, <1>3, <2>1, CloudTypes, LibraryStays DEF CloudKept, NoneAdded
<1>4. CASE Cloud!Kind(c) \notin {"create", "attach"}
  <2> DEFINE ed == Cloud!Edited(c, takes)
             next == [lib |-> cloud.lib + 1,
                      item |-> [i \in Records |->
                         IF i \notin ed THEN cloud.item[i] ELSE
                         [text |-> Cloud!NewText(c, i), ver |-> cloud.lib + 1,
                          there |-> Cloud!Kind(c) # "delete",
                          trashed |-> cloud.item[i].trashed \/ Cloud!Kind(c) = "trash"]]]
  <2>1. /\ cloud' = IF takes = {} THEN cloud ELSE next
        /\ unseen' = (IF \E i \in ed : Cloud!Discards(c, i) THEN unseen \cup {c} ELSE unseen)
        /\ UNCHANGED made
    BY <1>4 DEF Cloud!Apply
  <2>2. ASSUME NEW i \in ed
        PROVE  \E n \in Cloud!Taken(c) : i = Cloud!Given(c)[n]
    BY DEF Cloud!Edited
  <2>3. ASSUME NEW i \in ed
        PROVE  /\ i \in Records /\ job[c].seen[i].text = cloud.item[i].text
               /\ Cloud!NewText(c, i) \in Cloud!Texts
               /\ ~(Cloud!Kind(c) = "append" /\ job[c].late) => Cloud!NewText(c, i)[c] <= 1
               /\ \A w \in Cloud!Writers \ {c} :
                    /\ cloud.item[i].text[w] = 0 => Cloud!NewText(c, i)[w] = 0
                    /\ cloud.item[i].text[w] <= 1 => Cloud!NewText(c, i)[w] <= 1
               /\ Cloud!Kind(c) # "delete" => cloud.item[i].there
    <3>1. PICK n \in Cloud!Taken(c) : i = Cloud!Given(c)[n]
      BY <2>2
    <3>2. Cloud!Kind(c) # "delete" => Cloud!Kind(c) \in {"trash"} \cup Cloud!OneByOne
      BY <1>1, <1>4 DEF Cloud!Kinds, Cloud!OneByOne
    <3> HIDE DEF ed, next
    <3> QED BY <1>4, <3>1, <3>2, TakenIsSeen, TextFacts, TakenFacts
  <2>4. unseen' = {}
    <3>1. ASSUME NEW i \in ed, Cloud!Discards(c, i)
          PROVE  FALSE
      <4>1. PICK w \in Cloud!Writers : cloud.item[i].text[w] > 0 /\ job[c].seen[i].text[w] = 0
        BY <3>1 DEF Cloud!Discards
      <4>2. cloud.item[i].text[w] = 0
        BY <2>3, <4>1
      <4> QED BY <4>1, <4>2
    <3> HIDE DEF ed, next
    <3> QED BY <1>2, <2>1, <3>1
  <2>5. CASE takes = {}
    <3>1. cloud' = cloud
      BY <2>1, <2>5
    <3> QED BY <1>2, <1>4, <2>1, <2>4, <2>5, <3>1, CloudTypes, LibraryStays DEF CloudKept, NoneAdded
  <2>6. CASE takes # {}
    <3>1. cloud' = next
      BY <2>1, <2>6
    <3>2. cloud'.lib = cloud.lib + 1 /\ cloud.lib \in Nat /\ cloud' = [lib |-> cloud'.lib, item |-> cloud'.item]
      BY <3>1, CloudTypes
    <3>3. ASSUME NEW i \in Records, i \notin ed
          PROVE  cloud'.item[i] = cloud.item[i]
      BY <3>1, <3>3
    <3>4. ASSUME NEW i \in Records, i \in ed
          PROVE  /\ cloud'.item[i] \in Cells
                 /\ cloud'.item[i].text = Cloud!NewText(c, i) /\ cloud'.item[i].ver = cloud.lib + 1
                 /\ cloud'.item[i].there => Cloud!Kind(c) # "delete"
                 /\ cloud.item[i].trashed \/ Cloud!Kind(c) = "trash" => cloud'.item[i].trashed
      <4> DEFINE there == Cloud!Kind(c) # "delete"
                 trashed == cloud.item[i].trashed \/ Cloud!Kind(c) = "trash"
      <4>1. cloud'.item[i] = [text |-> Cloud!NewText(c, i), ver |-> cloud.lib + 1,
                              there |-> there, trashed |-> trashed]
        BY <3>1, <3>4
      <4>2. there \in BOOLEAN /\ trashed \in BOOLEAN
        OBVIOUS
      <4>3. Cloud!NewText(c, i) \in Cloud!Texts /\ cloud.lib + 1 \in Nat
        BY <2>3, <3>2, <3>4
      <4> HIDE DEF there, trashed, ed, next
      <4>4. /\ cloud'.item[i] \in Cells
            /\ cloud'.item[i].text = Cloud!NewText(c, i) /\ cloud'.item[i].ver = cloud.lib + 1
            /\ cloud'.item[i].there = there /\ cloud'.item[i].trashed = trashed
        BY <4>1, <4>2, <4>3 DEF Cells
      <4> QED BY <4>4 DEF there, trashed
    <3>5. DOMAIN cloud'.item = Records /\ cloud'.item = [i \in Records |-> cloud'.item[i]]
      BY <3>1
    <3>6. \A n \in takes : Cloud!Given(c)[n] \in ed
      BY DEF Cloud!Edited
    <3> HIDE DEF ed, next
    <3>7. ASSUME NEW i \in Records
          PROVE  cloud'.item[i] \in Cells
      BY <2>3, <3>2, <3>3, <3>4, CloudTypes DEF Cells
    <3>8. cloud'.item \in [Records -> Cells]
      BY <3>5, <3>7
    <3>9. CloudKept'
      <4>1. ASSUME NEW i \in Records
            PROVE  cloud'.item[i].ver \in 1..cloud'.lib
        <5>1. CASE i \notin ed
          BY <1>2, <3>2, <3>3, <5>1 DEF CloudKept
        <5>2. CASE i \in ed
          BY <3>2, <3>4, <5>2
        <5> QED BY <5>1, <5>2
      <4> QED BY <4>1 DEF CloudKept
    <3>10. LibraryOnward
      <4>1. ASSUME NEW i \in Records
            PROVE  /\ cloud'.item[i] = cloud.item[i] \/ cloud'.item[i].ver > cloud.item[i].ver
                   /\ ~cloud.item[i].there => ~cloud'.item[i].there
                   /\ cloud.item[i].trashed => cloud'.item[i].trashed
        <5>1. CASE i \notin ed
          BY <3>3, <5>1
        <5>2. CASE i \in ed
          <6>1. cloud.item[i].ver \in 1..cloud.lib
            BY <1>2 DEF CloudKept
          <6> QED BY <2>3, <3>2, <3>4, <5>2, <6>1
        <5> QED BY <5>1, <5>2
      <4> QED BY <3>2, <4>1 DEF LibraryOnward
    <3>11. /\ \A d \in Jobs \ {c} : NoneAdded(d)
           /\ ~(Cloud!Kind(c) = "append" /\ job[c].late) => \A i \in Records : cloud'.item[i].text[c] <= 1
      <4>1. \A d \in Jobs \ {c} : d \in Cloud!Writers \ {c}
        BY DEF Cloud!Writers
      <4> QED BY <1>2, <2>3, <3>3, <3>4, <4>1 DEF NoneAdded
    <3>12. /\ Cloud!Kind(c) = "trash" => \A n \in takes : cloud'.item[Cloud!Given(c)[n]].trashed
           /\ Cloud!Kind(c) = "delete" => \A n \in takes : ~cloud'.item[Cloud!Given(c)[n]].there
      BY <2>3, <3>4, <3>6
    <3>13. cloud'.lib \in Nat
      BY <3>2
    <3> QED BY <1>4, <2>1, <2>4, <3>2, <3>8, <3>9, <3>10, <3>11, <3>12, <3>13
  <2> QED BY <2>5, <2>6
<1> QED BY <1>3, <1>4

\* What a request creates: what was taken of it, none of which was there.
LEMMA MadeFacts ==
  ASSUME CloudInv, NEW c \in Jobs, job[c].pc = "send", ~Cloud!RefusedWhole(c),
         NEW takes \in SUBSET Cloud!Taken(c), Cloud!Apply(c, takes),
         Cloud!Kind(c) \in {"create", "attach"}
  PROVE  /\ ~job[c].again
         /\ \A n \in Cloud!Objects :
              /\ made["desktop"][c][n] = 0 /\ (n >= job[c].at => made["cloud"][c][n] = 0)
              /\ made'["cloud"][c][n] = IF n \in takes THEN 1 ELSE made["cloud"][c][n]
         /\ made' \in MadeType
         /\ made'["desktop"] = made["desktop"]
         /\ \A d \in Jobs \ {c} : made'["cloud"][d] = made["cloud"][d]
<1>1. JobInv(c) /\ Cloud!Taken(c) # {}
  BY JobFacts DEF Cloud!RefusedWhole
<1>2. ~job[c].again
  BY <1>1, TakenFacts
<1>3. \A n \in Cloud!Objects : made["desktop"][c][n] = 0 /\ (n >= job[c].at => made["cloud"][c][n] = 0)
  BY <1>1, <1>2 DEF JobInv, ToMake
<1>4. made' = [made EXCEPT !["cloud"][c] = [n \in Cloud!Objects |-> @[n] + (IF n \in takes THEN 1 ELSE 0)]]
  BY DEF Cloud!Apply
<1>5. made \in MadeType /\ "cloud" \in Cloud!Places /\ "desktop" \in Cloud!Places
  BY CloudTypes DEF Cloud!Places
<1> DEFINE new == [n \in Cloud!Objects |-> made["cloud"][c][n] + (IF n \in takes THEN 1 ELSE 0)]
<1>6. /\ made' = [made EXCEPT !["cloud"] = [made["cloud"] EXCEPT ![c] = new]]
  BY <1>4
<1>7. ASSUME NEW n \in Cloud!Objects
      PROVE  new[n] = IF n \in takes THEN 1 ELSE made["cloud"][c][n]
  <2>1. n \in takes => n >= job[c].at
    BY TakenFacts
  <2>2. n \in takes => made["cloud"][c][n] = 0
    BY <1>3, <2>1
  <2>3. made["cloud"][c][n] \in 0..2
    BY <1>5
  <2> QED BY <2>2, <2>3
<1>8. new \in [Cloud!Objects -> 0..2]
  <2>1. \A n \in Cloud!Objects : made["cloud"][c][n] \in 0..2
    BY <1>5
  <2>2. \A n \in Cloud!Objects : new[n] \in 0..2
    BY <1>7, <2>1
  <2> QED BY <2>2
<1> HIDE DEF new
<1>9. made'["cloud"][c] = new /\ made'["desktop"] = made["desktop"]
      /\ \A d \in Jobs \ {c} : made'["cloud"][d] = made["cloud"][d]
  BY <1>5, <1>6
<1>10. made' \in MadeType
  BY <1>5, <1>6, <1>8
<1> QED BY <1>2, <1>3, <1>7, <1>9, <1>10

LEMMA MadeKept ==
  ASSUME CloudInv, NEW c \in Jobs, job[c].pc = "send", ~Cloud!RefusedWhole(c),
         NEW takes \in SUBSET Cloud!Taken(c), takes = Cloud!Taken(c) \/ Cloud!Kind(c) \in {"create", "attach"},
         Cloud!Apply(c, takes), SameTask(c)
  PROVE  /\ MadeOnce(c)' /\ made' \in MadeType
         /\ \A d \in Jobs \ {c} :
              made'["cloud"][d] = made["cloud"][d] /\ made'["desktop"][d] = made["desktop"][d]
<1>1. JobInv(c) /\ Cloud!Kind(c)' = Cloud!Kind(c)
  BY JobFacts, SameWork DEF SameTask
<1>2. ~(Cloud!Kind(c) = "append" /\ job'[c].late) => \A i \in Records : cloud'.item[i].text[c] <= 1
  BY AppliedWell DEF SameTask
<1>3. CASE Cloud!Kind(c) \notin {"create", "attach"}
  <2>1. made' = made
    BY <1>3, AppliedWell
  <2> QED BY <1>1, <1>2, <2>1, CloudTypes DEF JobInv, MadeOnce
<1>4. CASE Cloud!Kind(c) \in {"create", "attach"}
  <2>1. \A n \in Cloud!Objects :
          made["cloud"][c][n] + made["desktop"][c][n] <= 1 /\ made["desktop"][c][n] = 0
            /\ made["cloud"][c][n] \in 0..2
    BY <1>1, <1>4, MadeFacts, CloudTypes DEF JobInv, MadeOnce, Cloud!Places
  <2>2. ASSUME NEW n \in Cloud!Objects
        PROVE  made'["cloud"][c][n] + made'["desktop"][c][n] <= 1 /\ made'["desktop"][c][n] = 0
    <3>1. /\ made'["desktop"][c][n] = 0
          /\ made'["cloud"][c][n] = IF n \in takes THEN 1 ELSE made["cloud"][c][n]
      BY <1>4, <2>1, MadeFacts
    <3>2. made["cloud"][c][n] \in 0..2 /\ made["cloud"][c][n] + 0 <= 1
      BY <2>1
    <3> QED BY <3>1, <3>2
  <2>3. MadeOnce(c)'
    BY <1>1, <1>2, <1>4, <2>2 DEF MadeOnce
  <2> QED BY <1>4, <2>3, MadeFacts
<1> QED BY <1>3, <1>4

LEMMA FailsWork ==
  ASSUME CloudInv, NEW c \in Jobs
  PROVE  Cloud!Fails(c).work = job[c].work /\ Cloud!Fails(c).late = job[c].late
<1>1. job[c] \in JobType
  BY JobFacts
<1> QED BY <1>1 DEF Cloud!Fails, Cloud!Refused, Cloud!Goes, JobType

\* An error of a request, carried out or not.
LEMMA FailsWellOf ==
  ASSUME CloudInv, NEW c \in Jobs, job[c].pc = "send", job' = [job EXCEPT ![c] = Cloud!Fails(c)],
         LibraryOnward, cloud'.lib \in Nat, cloud'.item \in [Records -> Cells],
         SameTask(c) => MadeOnce(c)', filed'[c] = filed[c]
  PROVE  Cloud!Fails(c) \in JobType /\ JobInv(c)'
<1>1. /\ JobInv(c) /\ job[c] \in JobType /\ job[c].at \in 1..Cloud!Amount(c)
      /\ Cloud!Amount(c) \in 1..2 /\ "failed" \in Cloud!Steps
  BY JobFacts DEF JobInv, Placed, Writing, Cloud!Steps
<1>2. job'[c] = Cloud!Fails(c)
  BY JobBecomes
<1>3. CASE Cloud!Kind(c) \in Cloud!OneByOne
  <2> DEFINE refused == job[c].refused \cup {job[c].at}
  <2>1. Cloud!Fails(c) = Cloud!Goes(c, job[c].told, refused)
    BY <1>3 DEF Cloud!Fails, Cloud!Refused
  <2>2. job[c].told \in SUBSET (1..Cloud!Amount(c))
    BY <1>1 DEF JobInv, Placed
  <2>3. refused \in SUBSET Cloud!Objects
    BY <1>1 DEF JobType, Cloud!Objects
  <2>4. SameTask(c)
    BY <1>2, FailsWork DEF SameTask
  <2> HIDE DEF refused, JobInv
  <2> QED BY <1>3, <2>1, <2>2, <2>3, <2>4, GoesWell DEF Writing
<1>4. CASE Cloud!Kind(c) \notin Cloud!OneByOne
  <2> DEFINE x == [job[c] EXCEPT !.pc = "failed"]
  <2>1. Cloud!Fails(c) = x
    BY <1>4 DEF Cloud!Fails
  <2>2. x \in JobType /\ x.pc = "failed" /\ Same(x, job[c]) /\ x.again = job[c].again /\ x.told = job[c].told
        /\ x.late = job[c].late
    BY <1>1 DEF JobType, Same
  <2> HIDE DEF JobInv, x
  <2> QED BY <1>2, <2>1, <2>2, FailsWell DEF Same, SameTask
<1> QED BY <1>3, <1>4

LEMMA UnansweredKeeps ==
  ASSUME CloudInv, NEW c \in Jobs, Cloud!Unanswered(c)
  PROVE  CloudInv'
<1>1. /\ job[c].pc = "send" /\ job' = [job EXCEPT ![c] = Cloud!Fails(c)]
      /\ UNCHANGED <<filed, reported>> /\ mishaps' \in 0..MaxMishaps
  BY MishapType DEF Cloud!Unanswered, Cloud!InStep
<1>2. CASE UNCHANGED <<cloud, made, unseen>>
  <2>1. LibraryOnward /\ CloudKept' /\ unseen' = {} /\ \A d \in Jobs : NoneAdded(d)
    BY <1>2, LibraryStays DEF CloudInv, CloudKept, NoneAdded
  <2>2. SameTask(c) => MadeOnce(c)'
    BY <1>2, JobFacts, SameWork DEF JobInv, MadeOnce, SameTask
  <2>3. Cloud!Fails(c) \in JobType /\ JobInv(c)'
    BY <1>1, <1>2, <2>1, <2>2, CloudTypes, FailsWellOf
  <2> QED BY <1>1, <1>2, <2>1, <2>3, CloudTypes, JobSteps
<1>3. CASE ~Cloud!RefusedWhole(c) /\ Cloud!Apply(c, Cloud!Taken(c))
  <2>1. /\ LibraryOnward /\ CloudKept' /\ unseen' = {}
        /\ cloud'.lib \in Nat /\ cloud'.item \in [Records -> Cells]
        /\ cloud' = [lib |-> cloud'.lib, item |-> cloud'.item]
        /\ \A d \in Jobs \ {c} : NoneAdded(d)
    BY <1>1, <1>3, AppliedWell
  <2>2. SameTask(c) =>
          /\ MadeOnce(c)' /\ made' \in MadeType
          /\ \A d \in Jobs \ {c} :
               made'["cloud"][d] = made["cloud"][d] /\ made'["desktop"][d] = made["desktop"][d]
    BY <1>1, <1>3, MadeKept
  <2>3. Cloud!Fails(c) \in JobType /\ JobInv(c)'
    BY <1>1, <2>1, <2>2, FailsWellOf
  <2>4. SameTask(c)
    BY <1>1, JobBecomes, FailsWork DEF SameTask
  <2> QED BY <1>1, <2>1, <2>2, <2>3, <2>4, CloudTypes, JobSteps
<1> QED BY <1>2, <1>3 DEF Cloud!Unanswered

LEMMA ConflictsKeeps ==
  ASSUME CloudInv, NEW c \in Jobs, Cloud!Conflicts(c)
  PROVE  CloudInv'
<1>1. /\ job[c].pc = "send" /\ UNCHANGED Cloud!library /\ mishaps' \in 0..MaxMishaps
      /\ job' = [job EXCEPT ![c] = IF Cloud!MayReread(c) THEN Cloud!Reread(c) ELSE Cloud!Fails(c)]
  BY MishapType DEF Cloud!Conflicts, Cloud!InStep
<1>2. UNCHANGED <<cloud, made, filed, reported, unseen>> /\ LibraryOnward
  BY <1>1, LibraryStays DEF Cloud!library
<1>3. CASE ~Cloud!MayReread(c)
  <2>1. job' = [job EXCEPT ![c] = Cloud!Fails(c)]
    BY <1>1, <1>3
  <2>2. SameTask(c) => MadeOnce(c)'
    BY <1>2, JobFacts, SameWork DEF JobInv, MadeOnce, SameTask
  <2>3. Cloud!Fails(c) \in JobType /\ JobInv(c)'
    BY <1>1, <1>2, <2>1, <2>2, CloudTypes, FailsWellOf
  <2> QED BY <1>1, <2>1, <2>3, JobTurns
<1>4. CASE Cloud!MayReread(c)
  <2> DEFINE x == Cloud!Reread(c)
  <2>1. JobInv(c) /\ job[c] \in JobType /\ Cloud!Kind(c) \in {"append", "replace"} /\ job[c].pin = 0
    BY <1>4, JobFacts DEF Cloud!MayReread
  <2>2. x \in JobType /\ x.pc = "read" /\ Same(x, job[c]) /\ x.at = job[c].at /\ x.told = job[c].told
        /\ x.late = job[c].late
    <3>1. "read" \in Cloud!Steps
      BY DEF Cloud!Steps
    <3> QED BY <2>1, <3>1 DEF JobType, Same, Cloud!Reread
  <2>3. job' = [job EXCEPT ![c] = x]
    BY <1>1, <1>4
  <2> HIDE DEF x
  <2>4. job'[c] = x
    BY <2>3, JobBecomes
  <2>5. /\ Cloud!Kind(c)' = Cloud!Kind(c) /\ Cloud!Given(c)' = Cloud!Given(c)
        /\ Cloud!Amount(c)' = Cloud!Amount(c)
    BY <2>2, <2>4, SameWork DEF Same
  <2>6. SeenWell(c)'
    BY <1>1, <1>2, <2>2, <2>4, CloudTypes, SeenOnward DEF Same
  <2>7. PinHeld(c)' /\ OwnText(c)' /\ Placed(c)'
    BY <1>1, <1>2, <2>1, <2>2, <2>4, <2>5, JobFacts
       DEF JobInv, PinHeld, OwnText, Placed, Same, Writing, Storing
  <2>8. MadeOnce(c)' /\ ToMake(c)' /\ ToldWell(c)' /\ EndsWell(c)'
    BY <1>1, <1>2, <2>1, <2>2, <2>4, <2>5
       DEF JobInv, MadeOnce, ToMake, ToldWell, EndsWell, Writing, Ends
  <2> QED BY <1>1, <2>2, <2>3, <2>6, <2>7, <2>8, JobTurns DEF JobInv
<1> QED BY <1>3, <1>4

LEMMA BusyKeeps ==
  ASSUME CloudInv, NEW c \in Jobs, Cloud!Busy(c)
  PROVE  CloudInv'
<1> DEFINE x == Cloud!Repeats(c)
<1>1. /\ job[c].pc = "send" /\ job' = [job EXCEPT ![c] = x] /\ ~Cloud!RefusedWhole(c)
      /\ Cloud!Apply(c, Cloud!Taken(c))
      /\ UNCHANGED <<filed, reported>> /\ mishaps' \in 0..MaxMishaps
  BY MishapType DEF Cloud!Busy, Cloud!InStep
<1>2. JobInv(c) /\ job[c] \in JobType
  BY JobFacts
<1>3. /\ x \in JobType /\ x.pc = "send" /\ Same(x, job[c]) /\ x.at = job[c].at /\ x.told = job[c].told
      /\ x.refused = job[c].refused
      /\ x.again = (IF Cloud!Kind(c) \in {"create", "attach"} THEN TRUE ELSE job[c].again)
      /\ x.late = TRUE
  BY <1>1, <1>2 DEF JobType, Same, Cloud!Repeats
<1> HIDE DEF x
<1>4. job'[c] = x
  BY <1>1, JobBecomes
<1>5. /\ Cloud!Kind(c)' = Cloud!Kind(c) /\ Cloud!Given(c)' = Cloud!Given(c)
      /\ Cloud!Amount(c)' = Cloud!Amount(c)
  BY <1>3, <1>4, SameWork DEF Same
<1>6. /\ LibraryOnward /\ CloudKept' /\ unseen' = {}
      /\ cloud'.lib \in Nat /\ cloud'.item \in [Records -> Cells]
      /\ cloud' = [lib |-> cloud'.lib, item |-> cloud'.item]
      /\ \A d \in Jobs \ {c} : NoneAdded(d)
  BY <1>1, AppliedWell
<1>7. /\ MadeOnce(c)' /\ made' \in MadeType
      /\ \A d \in Jobs \ {c} :
           made'["cloud"][d] = made["cloud"][d] /\ made'["desktop"][d] = made["desktop"][d]
  BY <1>1, <1>3, <1>4, MadeKept DEF Same, SameTask
<1>8. SeenWell(c)'
  BY <1>1, <1>3, <1>4, <1>6, SeenOnward DEF Same
<1>9. PinHeld(c)' /\ OwnText(c)' /\ Placed(c)'
  <2>1. PinHeld(c)'
    BY <1>1, <1>2, <1>3, <1>4, <1>5 DEF JobInv, PinHeld, Same
  <2>2. OwnText(c)'
    BY <1>3, <1>4 DEF OwnText
  <2>3. Placed(c)'
    BY <1>1, <1>2, <1>3, <1>4, <1>5, JobFacts DEF JobInv, Placed, Same, Writing, Storing
  <2> QED BY <2>1, <2>2, <2>3
<1>10. ToMake(c)' /\ EndsWell(c)'
  BY <1>3, <1>4, <1>5 DEF ToMake, EndsWell, Storing
<1>11. ToldWell(c)'
  <2>1. Cloud!Kind(c) = "create" =>
          \A n \in 1..(job[c].at - 1) : made'["cloud"][c][n] = made["cloud"][c][n]
    <3> SUFFICES ASSUME Cloud!Kind(c) = "create", NEW n \in 1..(job[c].at - 1)
                 PROVE  made'["cloud"][c][n] = made["cloud"][c][n]
      OBVIOUS
    <3>1. job[c].at \in 1..Cloud!Amount(c) /\ Cloud!Amount(c) \in 1..2
      BY <1>1, <1>2, JobFacts DEF JobInv, Placed, Writing
    <3>2. n \in Cloud!Objects /\ ~(n >= job[c].at)
      BY <3>1 DEF Cloud!Objects
    <3>3. n \notin Cloud!Taken(c)
      BY <1>1, <3>2, TakenFacts
    <3> QED BY <1>1, <3>2, <3>3, MadeFacts
  <2>2. Cloud!Kind(c) = "trash" =>
          \A n \in job[c].told : cloud'.item[Cloud!Given(c)[n]].trashed
    BY <1>1, <1>2, <1>6, JobFacts DEF JobInv, Placed, ToldWell, LibraryOnward
  <2>3. Cloud!Kind(c) = "delete" =>
          \A n \in job[c].told : ~cloud'.item[Cloud!Given(c)[n]].there
    BY <1>1, <1>2, <1>6, JobFacts DEF JobInv, Placed, ToldWell, LibraryOnward
  <2> QED BY <1>1, <1>2, <1>3, <1>4, <1>5, <2>1, <2>2, <2>3 DEF JobInv, ToldWell, Writing, Ends
<1>12. JobInv(c)'
  BY <1>7, <1>8, <1>9, <1>10, <1>11 DEF JobInv
<1> QED BY <1>1, <1>3, <1>6, <1>7, <1>12, CloudTypes, JobSteps

\* An answered batch: there is another, or the call is done.
LEMMA BatchWell ==
  ASSUME CloudInv, NEW c \in Jobs, job[c].pc = "send", ~Cloud!RefusedWhole(c),
         Cloud!Kind(c) \notin Cloud!OneByOne,
         NEW takes \in SUBSET Cloud!Taken(c), takes = Cloud!Taken(c) \/ Cloud!Kind(c) \in {"create", "attach"},
         takes # {} \/ Cloud!Kind(c) # "attach",
         Cloud!Apply(c, takes), job' = [job EXCEPT ![c] = Cloud!BatchAnswered(c, takes)],
         reported' = IF Cloud!LastRequest(c) THEN [reported EXCEPT ![c] = @ \cup Cloud!Reports(c, takes)]
                     ELSE reported,
         filed'[c] = filed[c]
  PROVE  Cloud!BatchAnswered(c, takes) \in JobType /\ JobInv(c)'
<1> DEFINE told == job[c].told \cup takes
           refused == job[c].refused \cup (Cloud!Sent(c) \ takes)
           next == job[c].at + Batch
           x == Cloud!BatchAnswered(c, takes)
<1>1. /\ JobInv(c) /\ job[c] \in JobType /\ job[c].at \in 1..Cloud!Amount(c) /\ job[c].pc # "idle"
      /\ Cloud!Amount(c) \in 1..2 /\ Cloud!Kind(c) \in {"create", "trash", "delete", "attach"}
  BY JobFacts DEF JobInv, Placed, Writing, Cloud!Kinds, Cloud!OneByOne
<1>2. Batch \in Nat \ {0} /\ job[c].at \in Nat /\ next \in Nat /\ next > job[c].at
  BY <1>1, TrafficAssumption DEF Cloud!CloudAssumption
<1>3. Cloud!Sent(c) = {n \in job[c].at..Cloud!Amount(c) : n < next}
  BY <1>1 DEF Cloud!Sent, Cloud!OneByOne
<1>4. takes \subseteq Cloud!Sent(c)
  BY TakenFacts
<1>5. told \subseteq 1..Cloud!Amount(c) /\ told \in SUBSET Cloud!Objects /\ refused \in SUBSET Cloud!Objects
  <2>1. job[c].told \subseteq 1..Cloud!Amount(c) /\ job[c].refused \in SUBSET Cloud!Objects
    BY <1>1 DEF JobInv, Placed, JobType
  <2> QED BY <1>1, <1>3, <1>4, <2>1 DEF Cloud!Objects
<1>6. x = IF next <= Cloud!Amount(c)
          THEN [job[c] EXCEPT !.told = told, !.refused = refused, !.at = next, !.again = FALSE]
          ELSE [job[c] EXCEPT !.told = told, !.refused = refused,
                              !.pc = IF Cloud!Kind(c) = "attach"
                                     THEN (IF takes = {} THEN "failed" ELSE "authorize") ELSE "done"]
  BY DEF Cloud!BatchAnswered, Cloud!Positions
<1>7. /\ x \in JobType /\ Same(x, job[c]) /\ x.told = told /\ x.refused = refused
      /\ x.late = job[c].late
      /\ next <= Cloud!Amount(c) => x.pc = "send" /\ x.at = next /\ ~x.again
      /\ ~(next <= Cloud!Amount(c)) =>
           x.at = job[c].at /\ x.again = job[c].again
             /\ x.pc = IF Cloud!Kind(c) = "attach" THEN "authorize" ELSE "done"
  <2>1. "authorize" \in Cloud!Steps /\ "done" \in Cloud!Steps
    BY DEF Cloud!Steps
  <2> HIDE DEF told, refused, next, x
  <2>2. CASE next <= Cloud!Amount(c)
    <3>1. x = [job[c] EXCEPT !.told = told, !.refused = refused, !.at = next, !.again = FALSE]
      BY <1>6, <2>2
    <3> QED BY <1>1, <1>2, <1>5, <2>2, <3>1 DEF JobType, Same
  <2>3. CASE ~(next <= Cloud!Amount(c))
    <3> DEFINE p == IF Cloud!Kind(c) = "attach" THEN "authorize" ELSE "done"
    <3>1. x = [job[c] EXCEPT !.told = told, !.refused = refused, !.pc = p]
      BY <1>6, <2>3
    <3>2. p \in Cloud!Steps
      BY <2>1
    <3> QED BY <1>1, <1>5, <2>3, <3>1, <3>2 DEF JobType, Same
  <2> QED BY <2>2, <2>3
<1>8. job'[c] = x
  BY JobBecomes
<1> HIDE DEF x
<1>9. /\ Cloud!Kind(c)' = Cloud!Kind(c) /\ Cloud!Given(c)' = Cloud!Given(c)
      /\ Cloud!Amount(c)' = Cloud!Amount(c)
  BY <1>7, <1>8, SameWork DEF Same
<1>10. /\ LibraryOnward /\ cloud'.lib \in Nat /\ cloud'.item \in [Records -> Cells]
       /\ Cloud!Kind(c) = "trash" => \A n \in takes : cloud'.item[Cloud!Given(c)[n]].trashed
       /\ Cloud!Kind(c) = "delete" => \A n \in takes : ~cloud'.item[Cloud!Given(c)[n]].there
  BY AppliedWell
<1>11. MadeOnce(c)'
  BY <1>7, <1>8, MadeKept DEF Same, SameTask
<1>12. SeenWell(c)'
  BY <1>7, <1>8, <1>10, SeenOnward DEF Same
<1>13. PinHeld(c)' /\ OwnText(c)'
  BY <1>1, <1>7, <1>8, <1>9 DEF JobInv, PinHeld, OwnText, Same
<1>14. Placed(c)'
  <2> HIDE DEF told, refused
  <2>1. x.pc \notin {"idle", "read", "desktop", "upload"} /\ (x.pc \in Storing => Cloud!Kind(c) = "attach")
    BY <1>7 DEF Storing
  <2>2. x.pc \in Writing => x.at \in 1..Cloud!Amount(c)
    BY <1>1, <1>2, <1>7 DEF Writing
  <2>3. x.work # Cloud!NoWork
    BY <1>1, <1>7 DEF JobInv, Placed, Same
  <2> QED BY <1>5, <1>7, <1>8, <1>9, <2>1, <2>2, <2>3 DEF Placed
<1>15. /\ Cloud!Kind(c) = "create" =>
            told = {n \in 1..(next - 1) : n <= Cloud!Amount(c) /\ made'["cloud"][c][n] = 1}
       /\ Cloud!Kind(c) = "create" =>
            refused = {n \in 1..(next - 1) : n <= Cloud!Amount(c)} \ told
  <2> SUFFICES ASSUME Cloud!Kind(c) = "create"
               PROVE  /\ told = {n \in 1..(next - 1) : n <= Cloud!Amount(c) /\ made'["cloud"][c][n] = 1}
                      /\ refused = {n \in 1..(next - 1) : n <= Cloud!Amount(c)} \ told
    OBVIOUS
  <2>1. /\ job[c].told = {n \in 1..(job[c].at - 1) : made["cloud"][c][n] = 1}
        /\ job[c].refused = (1..(job[c].at - 1)) \ job[c].told
    BY <1>1 DEF JobInv, ToldWell
  <2>2. ASSUME NEW n \in Cloud!Objects
        PROVE  /\ n >= job[c].at => made["cloud"][c][n] = 0
               /\ made'["cloud"][c][n] = IF n \in takes THEN 1 ELSE made["cloud"][c][n]
    BY MadeFacts
  <2>3. ASSUME NEW n \in 1..(next - 1), n <= Cloud!Amount(c)
        PROVE  n \in told <=> made'["cloud"][c][n] = 1
    <3>1. n \in Cloud!Objects
      BY <1>1, <1>2, <2>3 DEF Cloud!Objects
    <3>2. CASE n >= job[c].at
      <4>1. n \notin job[c].told
        BY <1>2, <2>1, <3>2
      <4> QED BY <2>2, <3>1, <3>2, <4>1
    <3>3. CASE ~(n >= job[c].at)
      <4>1. n \notin takes
        BY <1>2, <1>3, <1>4, <3>3
      <4>2. n \in 1..(job[c].at - 1)
        BY <1>1, <1>2, <2>3, <3>3
      <4> QED BY <2>1, <2>2, <3>1, <4>1, <4>2
    <3> QED BY <3>2, <3>3
  <2>4. \A n \in told : n \in 1..(next - 1) /\ n <= Cloud!Amount(c)
    BY <1>1, <1>2, <1>3, <1>4, <2>1
  <2>5. told = {n \in 1..(next - 1) : n <= Cloud!Amount(c) /\ made'["cloud"][c][n] = 1}
    <3> HIDE DEF told, next
    <3> QED BY <2>3, <2>4
  <2>6. refused = {n \in 1..(next - 1) : n <= Cloud!Amount(c)} \ told
    <3>1. ASSUME NEW n
          PROVE  n \in refused <=> n \in 1..(next - 1) /\ n <= Cloud!Amount(c) /\ n \notin told
      <4>1. CASE n \in 1..(job[c].at - 1)
        <5>1. n \notin Cloud!Sent(c)
          BY <1>2, <1>3, <4>1
        <5> QED BY <1>1, <1>2, <1>4, <2>1, <4>1, <5>1
      <4>2. CASE n \notin 1..(job[c].at - 1)
        <5>1. n \notin job[c].told /\ n \notin job[c].refused
          BY <2>1, <4>2
        <5>2. n \in Cloud!Sent(c) <=> n \in 1..(next - 1) /\ n <= Cloud!Amount(c)
          BY <1>1, <1>2, <1>3, <4>2
        <5> QED BY <5>1, <5>2
      <4> QED BY <4>1, <4>2
    <3> HIDE DEF refused, told, next
    <3> QED BY <3>1
  <2> QED BY <2>5, <2>6
<1>16. Cloud!Kind(c) = "delete" => told = {n \in 1..(next - 1) : n <= Cloud!Amount(c)}
  <2> SUFFICES ASSUME Cloud!Kind(c) = "delete"
               PROVE  told = {n \in 1..(next - 1) : n <= Cloud!Amount(c)}
    OBVIOUS
  <2>1. takes = Cloud!Sent(c) /\ job[c].told = 1..(job[c].at - 1)
    BY <1>1, TakenFacts DEF Cloud!RefusedWhole, JobInv, ToldWell
  <2> QED BY <1>1, <1>2, <1>3, <2>1
<1>17. /\ Cloud!Kind(c) = "trash" => \A n \in told : cloud'.item[Cloud!Given(c)[n]].trashed
       /\ Cloud!Kind(c) = "delete" => \A n \in told : ~cloud'.item[Cloud!Given(c)[n]].there
  <2>1. ASSUME NEW n \in job[c].told, Cloud!Kind(c) \in {"trash", "delete"}
        PROVE  Cloud!Given(c)[n] \in Records
    BY <1>1, <2>1, JobFacts DEF JobInv, Placed
  <2>2. /\ Cloud!Kind(c) = "trash" => \A n \in job[c].told : cloud'.item[Cloud!Given(c)[n]].trashed
        /\ Cloud!Kind(c) = "delete" => \A n \in job[c].told : ~cloud'.item[Cloud!Given(c)[n]].there
    BY <1>1, <1>10, <2>1 DEF JobInv, ToldWell, LibraryOnward
  <2> QED BY <1>10, <2>2
<1>18. reported \in [Jobs -> SUBSET Cloud!Objects] /\ (Cloud!Kind(c) # "attach" => reported[c] = {})
  BY <1>1, CloudTypes DEF JobInv, ToldWell, Writing
<1>19. /\ next <= Cloud!Amount(c) => reported' = reported
       /\ ~(next <= Cloud!Amount(c)) /\ Cloud!Kind(c) # "attach" => reported'[c] = told
  <2>1. Cloud!LastRequest(c) <=> ~(next <= Cloud!Amount(c))
    BY <1>1, <1>2 DEF Cloud!LastRequest, Cloud!OneByOne
  <2>2. Cloud!Reports(c, takes) = told
    BY DEF Cloud!Reports, Cloud!Positions
  <2> HIDE DEF told, next
  <2> QED BY <1>18, <2>1, <2>2
<1>20. ToMake(c)'
  <2>1. /\ Cloud!Kind(c) \in {"create", "attach"} /\ next <= Cloud!Amount(c) =>
             \A n \in Cloud!Objects : /\ n >= next => made'["cloud"][c][n] = 0
                                      /\ made'["desktop"][c][n] = 0
    <3> SUFFICES ASSUME Cloud!Kind(c) \in {"create", "attach"}, NEW n \in Cloud!Objects
                 PROVE  /\ n >= next => made'["cloud"][c][n] = 0
                        /\ made'["desktop"][c][n] = 0
      OBVIOUS
    <3>1. n >= next => n >= job[c].at /\ n \notin takes
      BY <1>2, <1>3, <1>4 DEF Cloud!Objects
    <3> HIDE DEF next
    <3> QED BY <3>1, MadeFacts
  <2>2. Cloud!Kind(c) = "attach" => made'["cloud"][c][1] = 1
    <3> SUFFICES ASSUME Cloud!Kind(c) = "attach" PROVE made'["cloud"][c][1] = 1
      OBVIOUS
    <3>1. Cloud!Amount(c) = 1
      BY <1>1, JobFacts
    <3>2. 1 \in takes /\ 1 \in Cloud!Objects
      BY <1>1, <1>2, <1>3, <1>4, <3>1 DEF Cloud!Objects
    <3> QED BY <3>2, MadeFacts
  <2> HIDE DEF next
  <2> QED BY <1>7, <1>8, <1>9, <2>1, <2>2 DEF ToMake, Storing
<1>21. ToldWell(c)'
  <2> HIDE DEF told, refused
  <2>1. filed'[c] = {}
    BY <1>1 DEF JobInv, ToldWell, Ends
  <2>2. CASE next <= Cloud!Amount(c)
    <3>1. {n \in 1..(next - 1) : n <= Cloud!Amount(c)} = 1..(next - 1)
      BY <1>1, <1>2, <2>2
    <3>2. {n \in 1..(next - 1) : n <= Cloud!Amount(c) /\ made'["cloud"][c][n] = 1}
            = {n \in 1..(next - 1) : made'["cloud"][c][n] = 1}
      BY <3>1
    <3>3. Cloud!Kind(c) # "attach"
      BY <1>1, <1>2, <2>2, JobFacts
    <3>4. reported'[c] = {}
      BY <1>18, <1>19, <2>2, <3>3
    <3> HIDE DEF next
    <3> QED BY <1>7, <1>8, <1>9, <1>15, <1>16, <1>17, <2>1, <2>2, <3>1, <3>2, <3>4 DEF ToldWell
  <2>3. CASE ~(next <= Cloud!Amount(c))
    <3> HIDE DEF next
    <3>1. x.pc \in {"authorize", "done"}
      BY <1>7, <2>3
    <3> QED BY <1>7, <1>8, <1>9, <1>17, <2>1, <2>3, <3>1 DEF ToldWell, Writing
  <2> QED BY <2>2, <2>3
<1>22. EndsWell(c)'
  <2> SUFFICES ASSUME x.pc = "done" PROVE EndsWell(c)'
    BY <1>8 DEF EndsWell
  <2>1. ~(next <= Cloud!Amount(c)) /\ Cloud!Kind(c) # "attach"
    <3> HIDE DEF told, refused, next
    <3> QED BY <1>7
  <2>2. {n \in 1..(next - 1) : n <= Cloud!Amount(c)} = 1..Cloud!Amount(c)
    BY <1>1, <1>2, <2>1
  <2>3. Cloud!Kind(c) = "create" => told = {n \in Cloud!Objects : made'["cloud"][c][n] = 1}
    <3> SUFFICES ASSUME Cloud!Kind(c) = "create"
                 PROVE  told = {n \in Cloud!Objects : made'["cloud"][c][n] = 1}
      OBVIOUS
    <3>1. ASSUME NEW n \in Cloud!Objects, ~(n <= Cloud!Amount(c))
          PROVE  made'["cloud"][c][n] # 1
      <4>1. n >= job[c].at /\ n \notin takes
        BY <1>1, <1>2, <1>3, <1>4, <3>1 DEF Cloud!Objects
      <4> QED BY <4>1, MadeFacts
    <3>2. told = {n \in 1..Cloud!Amount(c) : made'["cloud"][c][n] = 1}
      BY <1>15, <2>2
    <3>3. /\ 1..Cloud!Amount(c) \subseteq Cloud!Objects
          /\ \A n \in Cloud!Objects : n <= Cloud!Amount(c) => n \in 1..Cloud!Amount(c)
      BY <1>1 DEF Cloud!Objects
    <3> HIDE DEF told
    <3> QED BY <3>1, <3>2, <3>3
  <2> HIDE DEF told, refused, next
  <2> QED BY <1>7, <1>8, <1>9, <1>15, <1>16, <1>17, <1>19, <2>1, <2>2, <2>3 DEF EndsWell
<1> QED BY <1>7, <1>11, <1>12, <1>13, <1>14, <1>20, <1>21, <1>22 DEF JobInv, x

LEMMA ServedKeeps ==
  ASSUME CloudInv, NEW c \in Jobs, Cloud!Served(c)
  PROVE  CloudInv'
<1>1. PICK takes \in SUBSET Cloud!Taken(c) :
        /\ takes = Cloud!Taken(c) \/ Cloud!Kind(c) \in {"create", "attach"}
        /\ Cloud!Apply(c, takes)
        /\ job' = [job EXCEPT ![c] = Cloud!Answered(c, takes)]
        /\ reported' = IF Cloud!LastRequest(c) THEN [reported EXCEPT ![c] = @ \cup Cloud!Reports(c, takes)]
                       ELSE reported
  BY DEF Cloud!Served
<1>2. job[c].pc = "send" /\ ~Cloud!RefusedWhole(c) /\ UNCHANGED <<filed, mishaps>>
  BY DEF Cloud!Served, Cloud!InStep
<1>3. /\ JobInv(c) /\ job[c] \in JobType /\ job[c].at \in 1..Cloud!Amount(c) /\ job[c].pc # "idle"
      /\ Cloud!Amount(c) \in 1..2 /\ job[c].told \subseteq 1..Cloud!Amount(c)
  BY <1>2, JobFacts DEF JobInv, Placed, Writing
<1>4. /\ LibraryOnward /\ CloudKept' /\ unseen' = {}
      /\ cloud'.lib \in Nat /\ cloud'.item \in [Records -> Cells]
      /\ cloud' = [lib |-> cloud'.lib, item |-> cloud'.item]
      /\ \A d \in Jobs \ {c} : NoneAdded(d)
  BY <1>1, <1>2, AppliedWell
<1>5. /\ reported' \in [Jobs -> SUBSET Cloud!Objects]
      /\ \A d \in Jobs \ {c} : reported'[d] = reported[d]
  <2>1. reported \in [Jobs -> SUBSET Cloud!Objects]
    BY CloudTypes
  <2>2. Cloud!Reports(c, takes) \in SUBSET Cloud!Objects
    <3>1. takes \subseteq 1..Cloud!Amount(c)
      BY <1>2, TakenFacts
    <3>2. 1..Cloud!Amount(c) \subseteq Cloud!Objects
      BY <1>3 DEF Cloud!Objects
    <3> QED BY <1>3, <3>1, <3>2 DEF Cloud!Reports, Cloud!Positions
  <2> QED BY <1>1, <2>1, <2>2
<1>6. mishaps' \in 0..MaxMishaps
  BY <1>2, MishapType
<1>7. SameTask(c) /\ Cloud!Answered(c, takes) \in JobType /\ JobInv(c)'
  <2> DEFINE x1 == Cloud!Answered(c, takes)
  <2>1. x1.work = job[c].work /\ x1.late = job[c].late
    BY <1>3 DEF Cloud!Answered, Cloud!Written, Cloud!Goes, Cloud!BatchAnswered, JobType
  <2> HIDE DEF x1
  <2>2. SameTask(c)
    BY <1>1, <2>1, JobBecomes DEF SameTask, x1
  <2>3. CASE Cloud!Kind(c) \in Cloud!OneByOne
    <3>1. Cloud!Answered(c, takes) = Cloud!Goes(c, job[c].told \cup {job[c].at}, job[c].refused)
      BY <2>3 DEF Cloud!Answered, Cloud!Written
    <3>2. job[c].told \cup {job[c].at} \in SUBSET (1..Cloud!Amount(c)) /\ job[c].refused \in SUBSET Cloud!Objects
      BY <1>3 DEF JobType
    <3>3. MadeOnce(c)'
      BY <1>1, <1>2, <2>2, MadeKept
    <3> HIDE DEF JobInv, MadeOnce
    <3> QED BY <1>1, <1>2, <1>4, <2>2, <2>3, <3>1, <3>2, <3>3, GoesWell DEF Writing
  <2>4. CASE Cloud!Kind(c) \notin Cloud!OneByOne
    <3>1. Cloud!Answered(c, takes) = Cloud!BatchAnswered(c, takes)
      BY <2>4 DEF Cloud!Answered
    <3>2. CASE takes # {} \/ Cloud!Kind(c) # "attach"
      <4> HIDE DEF JobInv
      <4> QED BY <1>1, <1>2, <2>2, <2>4, <3>1, <3>2, BatchWell
    <3>3. CASE takes = {} /\ Cloud!Kind(c) = "attach"
      <4> DEFINE refused == job[c].refused \cup Cloud!Sent(c)
                 x == [job[c] EXCEPT !.told = job[c].told, !.refused = refused, !.pc = "failed"]
      <4>1. Cloud!Amount(c) = 1 /\ ~(job[c].at + Batch <= Cloud!Amount(c))
        BY <1>3, <3>3, JobFacts, TrafficAssumption DEF Cloud!CloudAssumption
      <4>2. Cloud!Answered(c, takes) = x
        BY <3>1, <3>3, <4>1 DEF Cloud!BatchAnswered, Cloud!Positions
      <4>3. refused \in SUBSET Cloud!Objects /\ "failed" \in Cloud!Steps
        <5>1. Cloud!Sent(c) \subseteq 1..Cloud!Amount(c) /\ job[c].refused \in SUBSET Cloud!Objects
          BY <1>2, <1>3, TakenFacts DEF JobType
        <5> QED BY <4>1, <5>1 DEF Cloud!Objects, Cloud!Steps
      <4>4. /\ x \in JobType /\ x.pc = "failed" /\ Same(x, job[c]) /\ x.again = job[c].again
            /\ x.told = job[c].told
        <5> HIDE DEF refused
        <5> QED BY <1>3, <4>3 DEF JobType, Same
      <4>5. MadeOnce(c)'
        BY <1>1, <1>2, <2>2, MadeKept
      <4> HIDE DEF x, JobInv, MadeOnce
      <4> QED BY <1>1, <1>3, <1>4, <2>2, <4>2, <4>4, <4>5, FailsWell
    <3> QED BY <3>2, <3>3
  <2> QED BY <2>3, <2>4
<1>8. /\ made' \in MadeType
      /\ \A d \in Jobs \ {c} :
           made'["cloud"][d] = made["cloud"][d] /\ made'["desktop"][d] = made["desktop"][d]
  BY <1>1, <1>2, <1>7, MadeKept
<1> QED BY <1>1, <1>2, <1>4, <1>5, <1>6, <1>7, <1>8, CloudTypes, JobSteps

\* A text with somebody's words once.
LEMMA TextWith ==
  ASSUME NEW t \in Cloud!Texts, NEW w \in Cloud!Writers
  PROVE  [t EXCEPT ![w] = 1] \in Cloud!Texts
BY DEF Cloud!Texts

LEMMA OtherEditsKeep ==
  ASSUME CloudInv, NEW i \in Records, Cloud!OtherEdits(i)
  PROVE  CloudInv'
<1> DEFINE old == cloud.item[i]
           new == [old EXCEPT !.text = [old.text EXCEPT ![Other] = 1], !.ver = cloud.lib + 1]
<1>1. /\ cloud.lib \in Nat /\ cloud.item \in [Records -> Cells] /\ old \in Cells
      /\ CloudKept /\ unseen = {} /\ mishaps' \in 0..MaxMishaps
      /\ UNCHANGED <<made, filed, job, reported, unseen>>
  BY CloudTypes, MishapType DEF Cloud!OtherEdits, CloudInv
<1>2. cloud' = [lib |-> cloud.lib + 1, item |-> [cloud.item EXCEPT ![i] = new]]
  BY <1>1 DEF Cloud!OtherEdits, Cells
<1>3. /\ new \in Cells /\ new.ver = cloud.lib + 1 /\ new.there = old.there /\ new.trashed = old.trashed
      /\ new.text = [old.text EXCEPT ![Other] = 1]
  <2>1. [old.text EXCEPT ![Other] = 1] \in Cloud!Texts /\ cloud.lib + 1 \in Nat
    <3>1. old.text \in Cloud!Texts /\ cloud.lib + 1 \in Nat /\ Other \in Cloud!Writers
      BY <1>1 DEF Cells, Cloud!Writers
    <3> HIDE DEF old, new
    <3> QED BY <3>1, TextWith
  <2> HIDE DEF old
  <2> QED BY <1>1, <2>1 DEF Cells
<1>4. old.ver \in 1..cloud.lib
  BY <1>1 DEF CloudKept
<1>5. \A d \in Jobs : new.text[d] = old.text[d]
  <2>1. Other \notin Jobs /\ \A d \in Jobs : d \in Cloud!Writers
    BY TrafficAssumption DEF Cloud!CloudAssumption, Cloud!Writers
  <2>2. old.text \in Cloud!Texts
    BY <1>1 DEF Cells
  <2> HIDE DEF old, new
  <2> QED BY <1>3, <2>1, <2>2 DEF Cloud!Texts
<1> HIDE DEF new
<1>6. /\ cloud'.lib = cloud.lib + 1 /\ cloud'.lib \in Nat /\ cloud'.item \in [Records -> Cells]
      /\ cloud' = [lib |-> cloud'.lib, item |-> cloud'.item]
      /\ cloud'.item[i] = new /\ \A j \in Records \ {i} : cloud'.item[j] = cloud.item[j]
  BY <1>1, <1>2, <1>3
<1>7. LibraryOnward
  <2>1. new.ver > old.ver
    BY <1>1, <1>3, <1>4
  <2> QED BY <1>1, <1>3, <1>6, <2>1 DEF LibraryOnward
<1>8. CloudKept'
  <2>1. ASSUME NEW j \in Records
        PROVE  cloud'.item[j].ver \in 1..cloud'.lib
    <3>1. CASE j = i
      <4>1. cloud'.item[j] = new /\ cloud'.lib = cloud.lib + 1
        BY <1>6, <3>1
      <4>2. cloud.lib + 1 \in 1..(cloud.lib + 1)
        BY <1>1
      <4> QED BY <1>3, <4>1, <4>2
    <3>2. CASE j # i
      BY <1>1, <1>6, <3>2 DEF CloudKept
    <3> QED BY <3>1, <3>2
  <2> QED BY <2>1 DEF CloudKept
<1>9. Cloud!CloudTypeOK'
  <2>1. cloud' \in [lib : Nat, item : [Records -> Cells]]
    <3>1. [lib |-> cloud'.lib, item |-> cloud'.item] \in [lib : Nat, item : [Records -> Cells]]
      BY <1>6
    <3> QED BY <1>6, <3>1
  <2> QED BY <1>1, <2>1, CloudTypes DEF Cloud!CloudTypeOK, Cells, Sights, JobType
<1>10. ASSUME NEW d \in Jobs
       PROVE  JobInv(d)'
  <2>1. NoneAdded(d)
    BY <1>5, <1>6 DEF NoneAdded
  <2> QED BY <1>1, <1>6, <1>7, <2>1, OthersStay
<1> QED BY <1>1, <1>8, <1>9, <1>10 DEF CloudInv

LEMMA CloudBeginKeeps ==
  ASSUME CloudInv, NEW c \in Jobs, NEW work \in Works, NEW pinned \in BOOLEAN, Cloud!Begin(c, work, pinned)
  PROVE  CloudInv'
<1> DEFINE now == [i \in Records |-> [text |-> cloud.item[i].text, ver |-> cloud.item[i].ver]]
           first == CASE work.kind = "create" -> "send" [] work.kind = "attach" -> "desktop" [] OTHER -> "read"
           pin == IF pinned THEN cloud.item[work.items[1]].ver ELSE 0
           seen == IF pinned THEN now ELSE Cloud!Idle.seen
           x == [Cloud!Idle EXCEPT !.work = work, !.pc = first, !.pin = pin, !.seen = seen]
<1>1. /\ JobInv(c) /\ job[c].pc = "idle" /\ Cloud!Kind(c) = "create" /\ Cloud!Amount(c) = 0
      /\ job' = [job EXCEPT ![c] = x] /\ UNCHANGED Cloud!library /\ UNCHANGED mishaps
      /\ pinned => work.kind = "replace"
  BY JobFacts DEF Cloud!Begin, Cloud!InStep
<1>2. UNCHANGED <<cloud, made, filed, reported, unseen>>
  BY <1>1 DEF Cloud!library
<1>3. cloud.lib \in Nat /\ cloud.item \in [Records -> Cells] /\ CloudKept
  BY CloudTypes DEF CloudInv
<1>4. now \in [Records -> Sights]
  BY <1>3 DEF Cells, Sights
<1>5. /\ work.kind \in Cloud!Kinds /\ work # Cloud!NoWork
      /\ work.kind = "attach" => work.items = <<>>
      /\ work.kind # "attach" =>
           Len(work.items) \in 1..2 /\ \A n \in 1..Len(work.items) : work.items[n] \in Records
  BY WorkFacts
<1>6. pinned => work.items[1] \in Records
  BY <1>1, <1>5
<1>7. /\ Cloud!Idle.seen = [i \in Records |-> [text |-> Cloud!Nobody, ver |-> 0]]
      /\ Cloud!Nobody \in Cloud!Texts
  BY DEF Cloud!Idle, Cloud!Nobody, Cloud!Texts
<1>8. seen \in [Records -> Sights]
  BY <1>4, <1>7 DEF Sights
<1>9. pin \in Nat /\ first \in {"send", "desktop", "read"}
  BY <1>3, <1>6 DEF Cells
<1>10. /\ x \in JobType /\ x.work = work /\ x.pc = first /\ x.at = 1 /\ x.seen = seen /\ x.lib = 0
       /\ x.pin = pin /\ x.again = FALSE /\ x.late = FALSE /\ x.told = {} /\ x.refused = {}
  <2>1. first \in Cloud!Steps
    BY <1>9 DEF Cloud!Steps
  <2> HIDE DEF now, first, pin, seen
  <2> QED BY <1>8, <1>9, <2>1 DEF JobType, Cloud!Idle
<1> HIDE DEF x
<1>11. job'[c] = x
  BY <1>1, JobBecomes
<1>12. /\ Cloud!Kind(c)' = work.kind /\ Cloud!Given(c)' = work.items
       /\ Cloud!Amount(c)' \in 1..2
  BY <1>5, <1>10, <1>11 DEF Cloud!Kind, Cloud!Given, Cloud!Amount
<1>13. SeenWell(c)'
  <2>1. ASSUME NEW i \in Records
        PROVE  /\ seen[i].ver <= cloud.item[i].ver
               /\ seen[i].ver = cloud.item[i].ver => seen[i].text = cloud.item[i].text
    <3>1. cloud.item[i].ver \in 1..cloud.lib
      BY <1>3 DEF CloudKept
    <3> QED BY <1>3, <1>7, <3>1
  <2>2. x.lib <= cloud.lib
    BY <1>3, <1>10
  <2>3. work.kind = "delete" => first # "send"
    OBVIOUS
  <2> HIDE DEF seen, first
  <2> QED BY <1>2, <1>10, <1>11, <1>12, <2>1, <2>2, <2>3 DEF SeenWell
<1>14. PinHeld(c)'
  <2>1. pin # 0 => work.kind = "replace" /\ seen[work.items[1]].ver = pin
    BY <1>1, <1>6
  <2> HIDE DEF pin, seen
  <2> QED BY <1>10, <1>11, <1>12, <2>1 DEF PinHeld
<1>15. OwnText(c)'
  BY <1>1, <1>2 DEF JobInv, OwnText
<1>16. Placed(c)'
  <2>1. /\ work.kind = "create" <=> first = "send"
        /\ work.kind = "attach" <=> first = "desktop"
    OBVIOUS
  <2> HIDE DEF first
  <2> QED BY <1>5, <1>9, <1>10, <1>11, <1>12, <2>1 DEF Placed, Writing, Storing
<1>17. /\ \A n \in Cloud!Objects : made["cloud"][c][n] = 0 /\ made["desktop"][c][n] = 0
       /\ \A i \in Records : cloud.item[i].text[c] = 0
  BY <1>1 DEF JobInv, ToMake, Placed, OwnText, Cloud!Objects
<1>18. MadeOnce(c)' /\ ToMake(c)'
  BY <1>2, <1>9, <1>10, <1>11, <1>17 DEF MadeOnce, ToMake, Storing
<1>19. ToldWell(c)'
  <2>1. reported[c] = {} /\ filed[c] = {}
    BY <1>1 DEF JobInv, ToldWell, Ends
  <2>2. first = "send" => work.kind = "create"
    OBVIOUS
  <2> HIDE DEF first
  <2> QED BY <1>2, <1>10, <1>11, <1>12, <2>1, <2>2 DEF ToldWell
<1>20. EndsWell(c)'
  BY <1>9, <1>10, <1>11 DEF EndsWell
<1>21. mishaps' \in 0..MaxMishaps
  BY <1>1, MishapType
<1>22. JobInv(c)'
  BY <1>13, <1>14, <1>15, <1>16, <1>18, <1>19, <1>20 DEF JobInv
<1>23. x \in JobType
  BY <1>10
<1> QED BY <1>1, <1>21, <1>22, <1>23, JobTurns

\* A call that read an item, and goes on to read the next or to write.
LEMMA ReadWellOf ==
  ASSUME CloudInv, NEW c \in Jobs, job[c].pc = "read", Cloud!Kind(c) \in {"trash"} \cup Cloud!OneByOne,
         NEW at \in 1..Cloud!Amount(c), NEW p \in {"read", "send"},
         job[c].pin \in {0, cloud.item[Cloud!Item(c)].ver} \/ job[c].again,
         job' = [job EXCEPT ![c] = [job[c] EXCEPT !.seen = Cloud!AsRead(c), !.at = at, !.pc = p]],
         UNCHANGED Cloud!library, UNCHANGED mishaps
  PROVE  CloudInv'
<1> DEFINE i == Cloud!Item(c)
           sight == [text |-> IF job[c].pin = 0 THEN cloud.item[i].text ELSE job[c].seen[i].text,
                     ver |-> cloud.item[i].ver]
           seen == [job[c].seen EXCEPT ![i] = sight]
           x == [job[c] EXCEPT !.seen = seen, !.at = at, !.pc = p]
<1>1. /\ JobInv(c) /\ job[c] \in JobType /\ job[c].at \in 1..Cloud!Amount(c) /\ i \in Records
      /\ Cloud!Amount(c) \in 1..2 /\ Cloud!Kind(c) \notin {"create", "delete", "attach"}
      /\ Cloud!Kind(c) \in {"append", "replace"} => Cloud!Amount(c) = 1
  BY JobFacts DEF JobInv, Placed, Writing, Cloud!Item, Cloud!OneByOne
<1>2. UNCHANGED <<cloud, made, filed, reported, unseen>>
  BY DEF Cloud!library
<1>3. cloud.item \in [Records -> Cells] /\ cloud.item[i] \in Cells
  BY <1>1, CloudTypes
<1>4. sight \in Sights
  BY <1>1, <1>3 DEF Cells, Sights, JobType
<1>5. job[c].pin # 0 => i = Cloud!Given(c)[1] /\ job[c].seen[i].ver = job[c].pin
                          /\ job[c].pin = cloud.item[i].ver
  <2> SUFFICES ASSUME job[c].pin # 0
               PROVE  i = Cloud!Given(c)[1] /\ job[c].seen[i].ver = job[c].pin
                        /\ job[c].pin = cloud.item[i].ver
    OBVIOUS
  <2>1. Cloud!Kind(c) = "replace" /\ ~job[c].again /\ job[c].seen[Cloud!Given(c)[1]].ver = job[c].pin
    BY <1>1 DEF JobInv, PinHeld
  <2>2. job[c].at = 1
    BY <1>1, <2>1
  <2> QED BY <2>1, <2>2 DEF Cloud!Item
<1>6. sight.text = cloud.item[i].text /\ sight.ver = cloud.item[i].ver
  BY <1>1, <1>5 DEF JobInv, SeenWell
<1> HIDE DEF sight
<1>7. /\ seen \in [Records -> Sights] /\ seen[i] = sight
      /\ \A j \in Records \ {i} : seen[j] = job[c].seen[j]
  BY <1>1, <1>4 DEF JobType
<1>8. Cloud!AsRead(c) = seen
  BY <1>1 DEF Cloud!AsRead, JobType, sight
<1> HIDE DEF seen
<1>9. /\ x \in JobType /\ x.work = job[c].work /\ x.lib = job[c].lib /\ x.pin = job[c].pin
      /\ x.again = job[c].again /\ x.told = job[c].told /\ x.seen = seen /\ x.at = at /\ x.pc = p
      /\ x.late = job[c].late
  <2>1. p \in Cloud!Steps /\ at \in Nat
    BY <1>1 DEF Cloud!Steps
  <2> QED BY <1>1, <1>7, <2>1 DEF JobType
<1>10. job' = [job EXCEPT ![c] = x]
  BY <1>8
<1> HIDE DEF x
<1>11. job'[c] = x
  BY <1>10, JobBecomes
<1>12. /\ Cloud!Kind(c)' = Cloud!Kind(c) /\ Cloud!Given(c)' = Cloud!Given(c)
       /\ Cloud!Amount(c)' = Cloud!Amount(c)
  BY <1>9, <1>11, SameWork
<1>13. SeenWell(c)'
  <2>1. ASSUME NEW j \in Records
        PROVE  /\ seen[j].ver <= cloud.item[j].ver
               /\ seen[j].ver = cloud.item[j].ver => seen[j].text = cloud.item[j].text
    <3>1. CASE j = i
      BY <1>3, <1>6, <1>7, <3>1 DEF Cells
    <3>2. CASE j # i
      BY <1>1, <1>7, <3>2 DEF JobInv, SeenWell
    <3> QED BY <3>1, <3>2
  <2> QED BY <1>1, <1>2, <1>9, <1>11, <1>12, <2>1 DEF JobInv, SeenWell
<1>14. PinHeld(c)'
  BY <1>1, <1>5, <1>6, <1>7, <1>9, <1>11, <1>12 DEF JobInv, PinHeld
<1>15. OwnText(c)' /\ Placed(c)'
  BY <1>1, <1>2, <1>9, <1>11, <1>12 DEF JobInv, OwnText, Placed, Writing, Storing
<1>16. MadeOnce(c)' /\ ToMake(c)' /\ ToldWell(c)' /\ EndsWell(c)'
  BY <1>1, <1>2, <1>9, <1>11, <1>12
     DEF JobInv, MadeOnce, ToMake, ToldWell, EndsWell, Writing, Ends
<1>17. mishaps' \in 0..MaxMishaps
  BY MishapType
<1>18. JobInv(c)'
  BY <1>13, <1>14, <1>15, <1>16 DEF JobInv
<1>19. x \in JobType
  BY <1>9
<1> QED BY <1>10, <1>17, <1>18, <1>19, JobTurns

\* A reading that ends the call, or of a loop its item.
LEMMA ReadRefusedKeeps ==
  ASSUME CloudInv, NEW c \in Jobs, job[c].pc = "read",
         \/ Cloud!Kind(c) = "trash" /\ job' = [job EXCEPT ![c] = [job[c] EXCEPT !.pc = "failed"]]
         \/ Cloud!Kind(c) \in Cloud!OneByOne /\ job' = [job EXCEPT ![c] = Cloud!Refused(c)],
         UNCHANGED Cloud!library, UNCHANGED mishaps
  PROVE  CloudInv'
<1>1. /\ JobInv(c) /\ job[c] \in JobType /\ job[c].at \in 1..Cloud!Amount(c)
      /\ Cloud!Amount(c) \in 1..2 /\ "failed" \in Cloud!Steps
  BY JobFacts DEF JobInv, Placed, Writing, Cloud!Steps
<1>2. UNCHANGED <<cloud, made, filed, reported, unseen>> /\ LibraryOnward
  BY LibraryStays DEF Cloud!library
<1>3. mishaps' \in 0..MaxMishaps
  BY MishapType
<1>4. ASSUME SameTask(c)
      PROVE  MadeOnce(c)'
  BY <1>1, <1>2, <1>4, SameWork DEF JobInv, MadeOnce, SameTask
<1>5. CASE Cloud!Kind(c) = "trash" /\ job' = [job EXCEPT ![c] = [job[c] EXCEPT !.pc = "failed"]]
  <2> DEFINE x == [job[c] EXCEPT !.pc = "failed"]
  <2>1. /\ x \in JobType /\ x.pc = "failed" /\ Same(x, job[c]) /\ x.again = job[c].again
        /\ x.told = job[c].told /\ x.late = job[c].late
    BY <1>1 DEF JobType, Same
  <2>2. job' = [job EXCEPT ![c] = x]
    BY <1>5
  <2> HIDE DEF x, JobInv
  <2>3. MadeOnce(c)'
    BY <1>4, <2>1, <2>2, JobBecomes DEF Same, SameTask
  <2>4. JobInv(c)'
    BY <1>2, <2>1, <2>2, <2>3, CloudTypes, FailsWell
  <2> QED BY <1>3, <2>1, <2>2, <2>4, JobTurns
<1>6. CASE Cloud!Kind(c) \in Cloud!OneByOne /\ job' = [job EXCEPT ![c] = Cloud!Refused(c)]
  <2> DEFINE refused == job[c].refused \cup {job[c].at}
  <2>1. Cloud!Refused(c) = Cloud!Goes(c, job[c].told, refused) /\ Cloud!Refused(c) = Cloud!Fails(c)
    BY <1>6 DEF Cloud!Refused, Cloud!Fails
  <2>2. job[c].told \in SUBSET (1..Cloud!Amount(c)) /\ refused \in SUBSET Cloud!Objects
    BY <1>1 DEF JobInv, Placed, JobType, Cloud!Objects
  <2>3. MadeOnce(c)'
    BY <1>4, <1>6, <2>1, JobBecomes, FailsWork DEF SameTask
  <2> HIDE DEF refused, JobInv
  <2>4. job' = [job EXCEPT ![c] = Cloud!Goes(c, job[c].told, refused)]
    BY <1>6, <2>1
  <2>5. Cloud!Goes(c, job[c].told, refused) \in JobType /\ JobInv(c)'
    BY <1>2, <1>6, <2>2, <2>3, <2>4, CloudTypes, GoesWell DEF Writing
  <2> QED BY <1>3, <2>4, <2>5, JobTurns
<1> QED BY <1>5, <1>6

LEMMA CloudReadKeeps ==
  ASSUME CloudInv, NEW c \in Jobs, Cloud!Read(c)
  PROVE  CloudInv'
<1>1. /\ JobInv(c) /\ job[c] \in JobType /\ job[c].pc = "read" /\ job[c].at \in 1..Cloud!Amount(c)
      /\ Cloud!Amount(c) \in 1..2 /\ Cloud!Kind(c) \in {"trash", "delete"} \cup Cloud!OneByOne
      /\ Cloud!Amount(c) = Len(Cloud!Given(c)) /\ UNCHANGED Cloud!library /\ UNCHANGED mishaps
  BY JobFacts DEF JobInv, Placed, Writing, Cloud!Read, Cloud!InStep, Cloud!Kinds, Cloud!OneByOne
<1>2. UNCHANGED <<cloud, made, filed, reported, unseen>>
  BY <1>1 DEF Cloud!library
<1>3. CASE Cloud!Kind(c) = "delete"
  <2> DEFINE now == [i \in Records |-> [text |-> cloud.item[i].text, ver |-> cloud.item[i].ver]]
             x == [job[c] EXCEPT !.pc = "send", !.lib = cloud.lib, !.seen = now]
  <2>1. job' = [job EXCEPT ![c] = x]
    BY <1>3 DEF Cloud!Read, Cloud!OneByOne
  <2>2. cloud.lib \in Nat /\ cloud.item \in [Records -> Cells]
    BY CloudTypes
  <2>3. /\ now \in [Records -> Sights]
        /\ \A i \in Records : now[i].text = cloud.item[i].text /\ now[i].ver = cloud.item[i].ver
    BY <2>2 DEF Cells, Sights
  <2> HIDE DEF now
  <2>4. /\ x \in JobType /\ x.work = job[c].work /\ x.lib = cloud.lib /\ x.pin = job[c].pin
        /\ x.late = job[c].late /\ x.again = job[c].again /\ x.told = job[c].told /\ x.seen = now /\ x.at = job[c].at
        /\ x.pc = "send"
    <3>1. "send" \in Cloud!Steps
      BY DEF Cloud!Steps
    <3> QED BY <1>1, <2>2, <2>3, <3>1 DEF JobType
  <2> HIDE DEF x
  <2>5. job'[c] = x
    BY <2>1, JobBecomes
  <2>6. /\ Cloud!Kind(c)' = Cloud!Kind(c) /\ Cloud!Given(c)' = Cloud!Given(c)
        /\ Cloud!Amount(c)' = Cloud!Amount(c)
    BY <2>4, <2>5, SameWork
  <2>7. SeenWell(c)'
    <3>1. \A i \in Records : cloud.item[i].ver <= cloud.item[i].ver
      BY <2>2 DEF Cells
    <3>2. cloud.lib <= cloud.lib
      BY <2>2
    <3> QED BY <1>2, <2>3, <2>4, <2>5, <3>1, <3>2 DEF SeenWell
  <2>8. PinHeld(c)' /\ OwnText(c)' /\ Placed(c)'
    BY <1>1, <1>2, <1>3, <2>4, <2>5, <2>6
       DEF JobInv, PinHeld, OwnText, Placed, Writing, Storing
  <2>9. MadeOnce(c)' /\ ToMake(c)' /\ EndsWell(c)'
    BY <1>1, <1>2, <1>3, <2>4, <2>5, <2>6 DEF JobInv, MadeOnce, ToMake, EndsWell
  <2>10. ToldWell(c)'
    <3>1. job[c].told = {} /\ job[c].at = 1 /\ reported[c] = {} /\ filed[c] = {}
      BY <1>1, <1>3 DEF JobInv, Placed, ToldWell, Writing, Ends
    <3>2. 1..(1 - 1) = {}
      OBVIOUS
    <3> QED BY <1>2, <1>3, <2>4, <2>5, <2>6, <3>1, <3>2 DEF ToldWell
  <2>11. JobInv(c)'
    BY <2>7, <2>8, <2>9, <2>10 DEF JobInv
  <2>12. mishaps' \in 0..MaxMishaps
    BY <1>1, MishapType
  <2>13. x \in JobType
    BY <2>4
  <2> QED BY <1>1, <2>1, <2>11, <2>12, <2>13, JobTurns
<1>4. CASE Cloud!Kind(c) # "delete" /\ ~cloud.item[Cloud!Item(c)].there
  <2>1. \/ Cloud!Kind(c) = "trash" /\ job' = [job EXCEPT ![c] = [job[c] EXCEPT !.pc = "failed"]]
        \/ Cloud!Kind(c) \in Cloud!OneByOne /\ job' = [job EXCEPT ![c] = Cloud!Refused(c)]
    BY <1>1, <1>4 DEF Cloud!Read, Cloud!OneByOne
  <2> QED BY <1>1, <2>1, ReadRefusedKeeps
<1>5. CASE Cloud!Kind(c) = "trash" /\ cloud.item[Cloud!Item(c)].there
  <2>1. PICK at \in 1..Cloud!Amount(c), p \in {"read", "send"} :
          job' = [job EXCEPT ![c] = [job[c] EXCEPT !.seen = Cloud!AsRead(c), !.at = at, !.pc = p]]
    <3>1. CASE job[c].at < Len(Cloud!Given(c))
      <4>1. job' = [job EXCEPT ![c] = [job[c] EXCEPT !.seen = Cloud!AsRead(c), !.at = job[c].at + 1]]
        BY <1>1, <1>5, <3>1 DEF Cloud!Read, Cloud!OneByOne
      <4>2. [job[c] EXCEPT !.seen = Cloud!AsRead(c), !.at = job[c].at + 1]
              = [job[c] EXCEPT !.seen = Cloud!AsRead(c), !.at = job[c].at + 1, !.pc = "read"]
        BY <1>1 DEF JobType
      <4>3. job[c].at + 1 \in 1..Cloud!Amount(c)
        BY <1>1, <3>1
      <4> QED BY <4>1, <4>2, <4>3
    <3>2. CASE ~(job[c].at < Len(Cloud!Given(c)))
      <4>1. job' = [job EXCEPT ![c] = [job[c] EXCEPT !.seen = Cloud!AsRead(c), !.at = 1, !.pc = "send"]]
        BY <1>1, <1>5, <3>2 DEF Cloud!Read, Cloud!OneByOne
      <4>2. 1 \in 1..Cloud!Amount(c)
        BY <1>1
      <4> QED BY <4>1, <4>2
    <3> QED BY <3>1, <3>2
  <2>2. job[c].pin = 0
    BY <1>1, <1>5 DEF JobInv, PinHeld
  <2> QED BY <1>1, <1>5, <2>1, <2>2, ReadWellOf
<1>6. CASE Cloud!Kind(c) \in Cloud!OneByOne /\ cloud.item[Cloud!Item(c)].there
  <2>1. job' = [job EXCEPT ![c] =
                  IF ~job[c].again /\ job[c].pin \notin {0, cloud.item[Cloud!Item(c)].ver}
                  THEN Cloud!Refused(c) ELSE [job[c] EXCEPT !.seen = Cloud!AsRead(c), !.pc = "send"]]
    BY <1>6 DEF Cloud!Read, Cloud!OneByOne
  <2>2. CASE ~job[c].again /\ job[c].pin \notin {0, cloud.item[Cloud!Item(c)].ver}
    BY <1>1, <1>6, <2>1, <2>2, ReadRefusedKeeps
  <2>3. CASE ~(~job[c].again /\ job[c].pin \notin {0, cloud.item[Cloud!Item(c)].ver})
    <3>1. [job[c] EXCEPT !.seen = Cloud!AsRead(c), !.pc = "send"]
            = [job[c] EXCEPT !.seen = Cloud!AsRead(c), !.at = job[c].at, !.pc = "send"]
      BY <1>1 DEF JobType
    <3>2. job' = [job EXCEPT ![c] = [job[c] EXCEPT !.seen = Cloud!AsRead(c), !.at = job[c].at, !.pc = "send"]]
      BY <2>1, <2>3, <3>1
    <3> QED BY <1>1, <1>6, <2>3, <3>2, ReadWellOf
  <2> QED BY <2>2, <2>3
<1> QED BY <1>1, <1>3, <1>4, <1>5, <1>6

\* A step of an attachment, after or before its request.
LEMMA AttachKeeps ==
  ASSUME CloudInv, NEW c \in Jobs, job[c].pc \in {"desktop", "upload"} \cup Storing,
         NEW p \in Cloud!Steps, p \notin {"idle", "read"}, p = "desktop" => job[c].pc = "desktop",
         job' = [job EXCEPT ![c] = [job[c] EXCEPT !.pc = p]],
         UNCHANGED <<cloud, reported, unseen>>, mishaps' \in 0..MaxMishaps,
         made' \in MadeType,
         filed' \in [Jobs -> SUBSET Cloud!Places],
         \A d \in Jobs \ {c} :
           /\ made'["cloud"][d] = made["cloud"][d] /\ made'["desktop"][d] = made["desktop"][d]
           /\ filed'[d] = filed[d],
         made' = made \/ (job[c].pc = "desktop" /\ p \in {"upload", "failed"}
                            /\ made'["cloud"][c] = made["cloud"][c]
                            /\ made'["desktop"][c] = [made["desktop"][c] EXCEPT ![1] = 1]),
         filed'[c] = filed[c] \/ p \in Ends,
         p = "done" => \/ filed'[c] = {"cloud"} /\ job[c].pc \in Storing
                       \/ filed'[c] = {"desktop"} /\ job[c].pc = "upload",
         p = "upload" => made' # made, p \in Storing => job[c].pc \in Storing,
         p = "send" => job[c].pc = "desktop" /\ made' = made
  PROVE  CloudInv'
<1> DEFINE x == [job[c] EXCEPT !.pc = p]
<1>1. /\ JobInv(c) /\ job[c] \in JobType /\ Cloud!Kind(c) = "attach" /\ Cloud!Amount(c) = 1
      /\ filed[c] = {} /\ job[c].pc # "idle"
  BY JobFacts DEF JobInv, Placed, ToldWell, Storing, Ends
<1>2. /\ x \in JobType /\ x.pc = p /\ Same(x, job[c]) /\ x.again = job[c].again /\ x.told = job[c].told
      /\ x.at = job[c].at
  BY <1>1 DEF JobType, Same
<1>3. job' = [job EXCEPT ![c] = x]
  OBVIOUS
<1> HIDE DEF x
<1>4. job'[c] = x
  BY <1>3, CloudTypes
<1>5. /\ Cloud!Kind(c)' = Cloud!Kind(c) /\ Cloud!Given(c)' = Cloud!Given(c)
      /\ Cloud!Amount(c)' = Cloud!Amount(c)
  BY <1>2, <1>4, SameWork DEF Same
<1>6. LibraryOnward /\ CloudKept' /\ unseen' = {} /\ \A d \in Jobs : NoneAdded(d)
  BY LibraryStays DEF CloudInv, CloudKept, NoneAdded
<1>7. SeenWell(c)'
  BY <1>1, <1>2, <1>4, <1>6, CloudTypes, SeenOnward DEF Same
<1>8. PinHeld(c)' /\ OwnText(c)'
  BY <1>1, <1>2, <1>4, <1>5 DEF JobInv, PinHeld, OwnText, Same
<1>9. Placed(c)'
  BY <1>1, <1>2, <1>4, <1>5 DEF JobInv, Placed, Same, Writing, Storing
<1>10. /\ \A n \in Cloud!Objects : made["cloud"][c][n] + made["desktop"][c][n] <= 1
       /\ \A i \in Records : cloud.item[i].text[c] <= 1
       /\ job[c].pc = "desktop" => \A n \in Cloud!Objects :
            made["cloud"][c][n] = 0 /\ made["desktop"][c][n] = 0
       /\ job[c].pc \in Storing => made["cloud"][c][1] = 1
       /\ job[c].pc = "upload" => made["desktop"][c][1] = 1
  BY <1>1 DEF JobInv, MadeOnce, ToMake, Placed, Cloud!Objects
<1>11. MadeOnce(c)' /\ ToMake(c)'
  <2>1. CASE made' = made
    BY <1>1, <1>2, <1>4, <1>5, <1>10, <2>1 DEF MadeOnce, ToMake, Storing
  <2>2. CASE made' # made
    <3>1. /\ made'["cloud"][c] = made["cloud"][c] /\ job[c].pc = "desktop" /\ p \in {"upload", "failed"}
          /\ made'["desktop"][c] = [made["desktop"][c] EXCEPT ![1] = 1]
      BY <2>2
    <3>2. made["desktop"][c] \in [Cloud!Objects -> 0..2] /\ 1 \in Cloud!Objects
      BY CloudTypes DEF Cloud!Places, Cloud!Objects
    <3>3. /\ made'["desktop"][c][1] = 1
          /\ \A n \in Cloud!Objects : made'["desktop"][c][n] \in {0, 1}
      BY <1>10, <3>1, <3>2
    <3>4. \A n \in Cloud!Objects : made'["cloud"][c][n] + made'["desktop"][c][n] <= 1
      BY <1>10, <3>1, <3>3
    <3> QED BY <1>1, <1>2, <1>4, <1>5, <1>10, <3>1, <3>3, <3>4 DEF MadeOnce, ToMake, Storing
  <2> QED BY <2>1, <2>2
<1>12. ToldWell(c)'
  BY <1>1, <1>2, <1>4, <1>5 DEF ToldWell, Ends
<1>13. EndsWell(c)'
  <2> SUFFICES ASSUME p = "done"
               PROVE  \E q \in Cloud!Places : filed'[c] = {q} /\ made'[q][c][1] = 1
    BY <1>1, <1>2, <1>4, <1>5 DEF EndsWell
  <2>1. made' = made
    OBVIOUS
  <2> QED BY <1>10, <2>1 DEF Cloud!Places
<1>14. JobInv(c)'
  BY <1>7, <1>8, <1>9, <1>11, <1>12, <1>13 DEF JobInv
<1>15. x \in JobType
  BY <1>2
<1> QED BY <1>3, <1>6, <1>14, <1>15, CloudTypes, JobSteps

LEMMA DesktopCreatesKeeps ==
  ASSUME CloudInv, NEW c \in Jobs, Cloud!DesktopCreates(c)
  PROVE  CloudInv'
<1>1. /\ job[c].pc = "desktop" /\ JobInv(c) /\ UNCHANGED <<cloud, filed, reported, unseen>>
      /\ mishaps' \in 0..MaxMishaps
      /\ made' = [made EXCEPT !["desktop"][c][1] = @ + 1]
  BY JobFacts, MishapType DEF Cloud!DesktopCreates, Cloud!InStep
<1>2. PICK p \in {"upload", "failed"} : job' = [job EXCEPT ![c] = [job[c] EXCEPT !.pc = p]]
  BY DEF Cloud!DesktopCreates
<1>3. /\ made \in MadeType /\ filed \in [Jobs -> SUBSET Cloud!Places]
      /\ "desktop" \in Cloud!Places /\ "cloud" \in Cloud!Places /\ 1 \in Cloud!Objects
  BY CloudTypes DEF Cloud!Places, Cloud!Objects
<1>4. made["desktop"][c][1] = 0
  BY <1>1, <1>3 DEF JobInv, Placed, ToMake
<1> DEFINE new == [made["desktop"][c] EXCEPT ![1] = 1]
<1>5. made' = [made EXCEPT !["desktop"] = [made["desktop"] EXCEPT ![c] = new]]
  BY <1>1, <1>3, <1>4
<1>6. new \in [Cloud!Objects -> 0..2] /\ new[1] = 1
  BY <1>3
<1> HIDE DEF new
<1>7. /\ made' \in MadeType
      /\ made'["desktop"][c] = new /\ made'["cloud"] = made["cloud"]
      /\ \A d \in Jobs \ {c} : made'["desktop"][d] = made["desktop"][d]
  BY <1>3, <1>5, <1>6
<1>8. made' # made
  BY <1>4, <1>6, <1>7
<1>9. p \in Cloud!Steps \ (Storing \cup {"idle", "read", "desktop", "done", "send"})
  BY DEF Cloud!Steps, Storing
<1> QED BY <1>1, <1>2, <1>3, <1>7, <1>8, <1>9, AttachKeeps DEF new

LEMMA DesktopRefusesKeeps ==
  ASSUME CloudInv, NEW c \in Jobs, Cloud!DesktopRefuses(c)
  PROVE  CloudInv'
<1>1. /\ job[c].pc = "desktop" /\ UNCHANGED <<cloud, made, filed, reported, unseen>>
      /\ mishaps' \in 0..MaxMishaps
  BY MishapType DEF Cloud!DesktopRefuses, Cloud!InStep, Cloud!library
<1>2. PICK p \in {"send", "failed"} : job' = [job EXCEPT ![c] = [job[c] EXCEPT !.pc = p]]
  BY DEF Cloud!DesktopRefuses
<1>3. p \in Cloud!Steps \ (Storing \cup {"idle", "read", "desktop", "done", "upload"})
  BY DEF Cloud!Steps, Storing
<1> QED BY <1>1, <1>2, <1>3, CloudTypes, AttachKeeps

LEMMA DesktopStoresKeeps ==
  ASSUME CloudInv, NEW c \in Jobs, Cloud!DesktopStores(c)
  PROVE  CloudInv'
<1>1. /\ job[c].pc = "upload" /\ JobInv(c) /\ UNCHANGED <<cloud, made, reported, unseen>>
      /\ mishaps' \in 0..MaxMishaps
  BY JobFacts, MishapType DEF Cloud!DesktopStores, Cloud!InStep
<1>2. filed \in [Jobs -> SUBSET Cloud!Places] /\ filed[c] = {} /\ "desktop" \in Cloud!Places
  BY <1>1, CloudTypes DEF JobInv, ToldWell, Ends, Cloud!Places
<1>3. PICK p \in Ends :
        /\ job' = [job EXCEPT ![c] = [job[c] EXCEPT !.pc = p]]
        /\ filed' \in {filed, [filed EXCEPT ![c] = @ \cup {"desktop"}]}
        /\ p = "done" => filed' = [filed EXCEPT ![c] = @ \cup {"desktop"}]
  BY DEF Cloud!DesktopStores, Cloud!DesktopUploadFails, Ends
<1>4. /\ filed' \in [Jobs -> SUBSET Cloud!Places] /\ \A d \in Jobs \ {c} : filed'[d] = filed[d]
      /\ p = "done" => filed'[c] = {"desktop"}
  BY <1>2, <1>3
<1>5. p \in Cloud!Steps \ (Storing \cup {"idle", "read", "desktop", "send", "upload"})
  BY DEF Cloud!Steps, Storing, Ends
<1> QED BY <1>1, <1>3, <1>4, <1>5, CloudTypes, AttachKeeps

LEMMA CloudStoresKeeps ==
  ASSUME CloudInv, NEW c \in Jobs, Cloud!CloudStores(c)
  PROVE  CloudInv'
<1>1. /\ job[c].pc \in Storing /\ JobInv(c) /\ UNCHANGED <<cloud, made, reported, unseen>>
      /\ mishaps' \in 0..MaxMishaps
  BY JobFacts, MishapType DEF Cloud!CloudStores, Storing
<1>2. filed \in [Jobs -> SUBSET Cloud!Places] /\ filed[c] = {} /\ "cloud" \in Cloud!Places
  BY <1>1, CloudTypes DEF JobInv, ToldWell, Ends, Storing, Cloud!Places
<1>3. PICK exists \in {b \in BOOLEAN : b => Cloud!InStep(c, "authorize")} :
        LET stored == exists \/ Cloud!InStep(c, "register") IN
        \/ /\ filed' = IF stored THEN [filed EXCEPT ![c] = @ \cup {"cloud"}] ELSE filed
           /\ job' = [job EXCEPT ![c].pc = IF exists THEN "done" ELSE Cloud!After(@)]
        \/ /\ filed' \in {filed, IF stored THEN [filed EXCEPT ![c] = @ \cup {"cloud"}] ELSE filed}
           /\ job' = [job EXCEPT ![c].pc = "failed"]
  BY DEF Cloud!CloudStores
<1>4. PICK p \in Storing \cup Ends :
        /\ job' = [job EXCEPT ![c] = [job[c] EXCEPT !.pc = p]]
        /\ filed' \in {filed, [filed EXCEPT ![c] = @ \cup {"cloud"}]}
        /\ p = "done" => filed' = [filed EXCEPT ![c] = @ \cup {"cloud"}]
        /\ p \in Storing => filed' = filed
  <2> DEFINE after == IF exists THEN "done" ELSE Cloud!After(job[c].pc)
             stored == exists \/ Cloud!InStep(c, "register")
  <2>1. CASE /\ filed' = IF stored THEN [filed EXCEPT ![c] = @ \cup {"cloud"}] ELSE filed
             /\ job' = [job EXCEPT ![c].pc = after]
    <3>1. /\ after \in Storing \cup Ends /\ (after = "done" <=> stored)
          /\ after \in Storing <=> after # "done"
      BY <1>1 DEF Storing, Ends, Cloud!After, Cloud!InStep
    <3>2. job' = [job EXCEPT ![c] = [job[c] EXCEPT !.pc = after]]
      BY <2>1
    <3> HIDE DEF after, stored
    <3> QED BY <2>1, <3>1, <3>2
  <2>2. CASE /\ filed' \in {filed, IF stored THEN [filed EXCEPT ![c] = @ \cup {"cloud"}] ELSE filed}
             /\ job' = [job EXCEPT ![c].pc = "failed"]
    BY <2>2 DEF Storing, Ends
  <2> QED BY <1>3, <2>1, <2>2
<1>5. /\ filed' \in [Jobs -> SUBSET Cloud!Places] /\ \A d \in Jobs \ {c} : filed'[d] = filed[d]
      /\ p = "done" => filed'[c] = {"cloud"}
  BY <1>2, <1>4
<1>6. p \in Cloud!Steps /\ p \notin {"idle", "read", "desktop", "send", "upload"}
  BY DEF Cloud!Steps, Storing, Ends
<1>7. filed'[c] = filed[c] \/ p \in Ends
  BY <1>4
<1>8. made' = made /\ made \in MadeType
  BY <1>1, CloudTypes
<1>9. job' = [job EXCEPT ![c] = [job[c] EXCEPT !.pc = p]]
  BY <1>4
<1>10. /\ job[c].pc \in {"desktop", "upload"} \cup Storing
       /\ p = "done" => \/ filed'[c] = {"cloud"} /\ job[c].pc \in Storing
                        \/ filed'[c] = {"desktop"} /\ job[c].pc = "upload"
  BY <1>1, <1>5
<1> QED BY <1>1, <1>5, <1>6, <1>7, <1>8, <1>9, <1>10, AttachKeeps

LEMMA CloudInvInit == Cloud!CloudInit => CloudInv
<1> SUFFICES ASSUME Cloud!CloudInit PROVE CloudInv
  OBVIOUS
<1>1. Cloud!Nobody \in Cloud!Texts /\ \A w \in Cloud!Writers : Cloud!Nobody[w] = 0
  BY DEF Cloud!Nobody, Cloud!Texts
<1>2. Cloud!CloudTypeOK
  <2>1. Cloud!Idle \in JobType
    BY <1>1 DEF Cloud!Idle, JobType, Sights, Cloud!Steps
  <2>2. mishaps \in 0..MaxMishaps
    BY TrafficAssumption DEF Cloud!CloudInit, Cloud!CloudAssumption
  <2> QED BY <1>1, <2>1, <2>2 DEF Cloud!CloudInit, Cloud!CloudTypeOK, JobType, Sights
<1>3. CloudKept /\ unseen = {}
  BY <1>1 DEF Cloud!CloudInit, CloudKept
<1>4. ASSUME NEW c \in Jobs
      PROVE  JobInv(c)
  <2>1. /\ job[c] = Cloud!Idle /\ reported[c] = {} /\ filed[c] = {}
        /\ \A n \in Cloud!Objects : made["cloud"][c][n] = 0 /\ made["desktop"][c][n] = 0
        /\ cloud.lib = 1
        /\ \A i \in Records : cloud.item[i].ver = 1 /\ cloud.item[i].text = Cloud!Nobody
    BY DEF Cloud!CloudInit, Cloud!Places
  <2>2. /\ job[c].work = Cloud!NoWork /\ job[c].pc = "idle" /\ job[c].at = 1 /\ job[c].lib = 0
        /\ job[c].pin = 0 /\ job[c].told = {} /\ Cloud!Kind(c) = "create"
        /\ \A i \in Records : job[c].seen[i].ver = 0 /\ cloud.item[i].text[c] = 0
    BY <1>1, <2>1 DEF Cloud!Idle, Cloud!Kind, Cloud!NoWork, Cloud!Writers
  <2>3. SeenWell(c) /\ PinHeld(c) /\ OwnText(c)
    BY <2>1, <2>2 DEF SeenWell, PinHeld, OwnText
  <2>4. Placed(c) /\ MadeOnce(c) /\ ToMake(c) /\ ToldWell(c) /\ EndsWell(c)
    BY <2>1, <2>2 DEF Placed, MadeOnce, ToMake, ToldWell, EndsWell, Writing, Storing
  <2> QED BY <2>3, <2>4 DEF JobInv
<1> QED BY <1>2, <1>3, <1>4 DEF CloudInv

LEMMA CloudInvKept == CloudInv /\ Cloud!CloudNext => CloudInv'
<1> SUFFICES ASSUME CloudInv, Cloud!CloudNext PROVE CloudInv'
  OBVIOUS
<1>1. ASSUME NEW i \in Records, Cloud!OtherEdits(i)
      PROVE  CloudInv'
  BY <1>1, OtherEditsKeep
<1>2. ASSUME NEW c \in Jobs, NEW work \in Works, NEW pinned \in BOOLEAN, Cloud!Begin(c, work, pinned)
      PROVE  CloudInv'
  BY <1>2, CloudBeginKeeps
<1>3. ASSUME NEW c \in Jobs, Cloud!JobStep(c)
      PROVE  CloudInv'
  BY <1>3, CloudReadKeeps, ServedKeeps, ConflictsKeeps, UnansweredKeeps, BusyKeeps,
     DesktopCreatesKeeps, DesktopRefusesKeeps, DesktopStoresKeeps, CloudStoresKeeps
     DEF Cloud!JobStep
<1> QED BY <1>1, <1>2, <1>3 DEF Cloud!CloudNext

\* What the invariant says of the writes on zotero.org: nothing unseen discarded, nothing
\* made twice, and nothing misreported.
LEMMA CloudInvSays == CloudInv => Cloud!CloudHonest
<1> SUFFICES ASSUME CloudInv PROVE Cloud!CloudHonest
  OBVIOUS
<1>1. Cloud!CloudTypeOK /\ Cloud!NothingUnseenLost
  BY DEF CloudInv, Cloud!NothingUnseenLost
<1>2. Cloud!CreatedOnce
  BY DEF CloudInv, JobInv, MadeOnce, Cloud!CreatedOnce
<1>3. ASSUME NEW c \in Jobs
      PROVE  EndsWell(c) /\ (Cloud!Kind(c) = "trash" =>
               \A n \in job[c].told : cloud.item[Cloud!Given(c)[n]].trashed)
  BY DEF CloudInv, JobInv, ToldWell
<1>4. Cloud!ResultHonest
  BY <1>3 DEF EndsWell, Cloud!ResultHonest, Cloud!Ended
<1> QED BY <1>1, <1>2, <1>4 DEF Cloud!CloudHonest

-----------------------------------------------------------------------------
(* The whole.                                                              *)

LEMMA BudgetInvInit ==
  ASSUME Fetch!FetchInit
  PROVE  BudgetInv
<1>1. \A o \in Origins : Fetch!Fresh(o) \in GoodRequest
  <2>1. 0 \in 0..FetchRetries
    BY TrafficAssumption DEF Fetch!FetchAssumption
  <2> QED BY <2>1 DEF Fetch!Fresh, GoodRequest, Stages
<1> QED BY <1>1 DEF Fetch!FetchInit, BudgetInv, PermitsTypeOK

TrafficInv == BudgetInv /\ SessionInv /\ ModelInv /\ WritesInv /\ CloudInv

LEMMA WritesStay ==
  ASSUME WritesInv, UNCHANGED writesVars
  PROVE  WritesInv'
<1>1. UNCHANGED <<app, copy, created, client, pending, op, everTagged, faults>>
  BY DEF writesVars
<1>2. Writes!WritesTypeOK' /\ Writes!TagsSurvive'
  BY <1>1 DEF WritesInv, Writes!WritesTypeOK, Writes!TagsSurvive
<1>3. \A o \in Ops : OpInv(o)'
  BY <1>1, StandsStill, OthersOnward
<1> QED BY <1>2, <1>3 DEF WritesInv

LEMMA CloudStays ==
  ASSUME CloudInv, UNCHANGED cloudVars
  PROVE  CloudInv'
<1>1. UNCHANGED <<cloud, made, filed, job, reported, unseen, mishaps>>
  BY DEF cloudVars
<1>2. Cloud!CloudTypeOK' /\ unseen' = {} /\ CloudKept'
  BY <1>1 DEF CloudInv, CloudKept, Cloud!CloudTypeOK
<1>3. \A c \in Jobs : JobInv(c)'
  BY <1>1, CloudTypes, LibraryStays, OthersStay DEF NoneAdded
<1> QED BY <1>2, <1>3 DEF CloudInv

LEMMA TrafficInvInit == Init => TrafficInv
BY BudgetInvInit, SessionInvInit, ModelInvInit, WritesInvInit, CloudInvInit DEF Init, TrafficInv

\* A step of one part leaves the others as they are.
LEMMA TrafficInvKept == TrafficInv /\ [Next]_vars => TrafficInv'
<1> SUFFICES ASSUME TrafficInv, [Next]_vars
             PROVE  TrafficInv'
  OBVIOUS
<1> BudgetInv /\ SessionInv /\ ModelInv /\ WritesInv /\ CloudInv
  BY DEF TrafficInv
<1>1. UNCHANGED fetchVars => BudgetInv'
  BY DEF BudgetInv, PermitsTypeOK, fetchVars
<1>2. UNCHANGED remoteVars => SessionInv'
  BY DEF SessionInv, SessionTypeOK, OpenOn, remoteVars
<1>3. UNCHANGED embedVars => ModelInv'
  BY DEF ModelInv, ModelTypeOK, embedVars
<1>4. UNCHANGED writesVars => WritesInv'
  BY WritesStay
<1>5. UNCHANGED cloudVars => CloudInv'
  BY CloudStays
<1>6. CASE Next
  <2>1. BudgetInv'
    BY <1>1, <1>6, BudgetInvKept DEF Next
  <2>2. SessionInv'
    BY <1>2, <1>6, SessionInvKept DEF Next
  <2>3. ModelInv'
    BY <1>3, <1>6, ModelInvKept DEF Next
  <2>4. WritesInv'
    BY <1>4, <1>6, WritesInvKept DEF Next
  <2>5. CloudInv'
    BY <1>5, <1>6, CloudInvKept DEF Next
  <2> QED BY <2>1, <2>2, <2>3, <2>4, <2>5 DEF TrafficInv
<1>7. CASE UNCHANGED vars
  BY <1>1, <1>2, <1>3, <1>4, <1>5, <1>7 DEF vars, TrafficInv
<1> QED BY <1>6, <1>7

LEMMA TrafficInvHolds == Spec => []TrafficInv
BY TrafficInvInit, TrafficInvKept, PTL DEF Spec

\* A request gives its permit back within its budget, however many others there are, how
\* often it is throttled and what it is told to wait (http.ts:116); and a session with a
\* call open on it is not swept, however many are admitted meanwhile (transports/http.ts:163).
THEOREM RequestsGetTheirDueHolds == Spec => []RequestsGetTheirDue
<1>1. TrafficInv => RequestsGetTheirDue
  <2> SUFFICES ASSUME TrafficInv
               PROVE  RequestsGetTheirDue
    OBVIOUS
  <2>1. Fetch!BudgetHolds
    <3>1. \A r \in Clients : request[r].left \in Nat
      BY DEF TrafficInv, BudgetInv, GoodRequest
    <3>2. holders \subseteq Clients
      BY DEF TrafficInv, BudgetInv, PermitsTypeOK
    <3>3. \A n \in Nat : n >= 0
      OBVIOUS
    <3> QED BY <3>1, <3>2, <3>3 DEF Fetch!BudgetHolds
  <2>2. Remote!CallKeepsSession
    BY DEF Remote!CallKeepsSession, TrafficInv, SessionInv, SessionTypeOK
  <2> QED BY <2>1, <2>2 DEF RequestsGetTheirDue
<1> QED BY <1>1, TrafficInvHolds, PTL

\* A thread that loads or holds a model is the one the provider will close, however many
\* calls, crashes and closes overlap (embeddings.ts:712, :858).
THEOREM NoOrphanHolds == Spec => []NoOrphan
<1>1. TrafficInv => NoOrphan
  BY DEF NoOrphan, Embed!NoOrphan, TrafficInv, ModelInv
<1> QED BY <1>1, TrafficInvHolds, PTL

\* However many operations write through the app and on zotero.org, and whoever edits
\* meanwhile: nothing is created twice, an operation lands on one copy, nothing that another
\* put into an item is lost, and what a call says it wrote is what it wrote
\* (library-writer.ts:107, local-writes.ts:297, write-note.ts:104, web-client.ts:661).
THEOREM WritesLandOnceHolds == Spec => []WritesLandOnce
<1>1. TrafficInv => WritesLandOnce
  BY WritesInvSays, CloudInvSays DEF TrafficInv, WritesLandOnce
<1> QED BY <1>1, TrafficInvHolds, PTL

=============================================================================
