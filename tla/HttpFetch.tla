----------------------------- MODULE HttpFetch -----------------------------
(***************************************************************************)
(* The fetcher all clients share (api/http.ts): a request takes a permit   *)
(* of the semaphore, and holding it waits out what its origin has asked    *)
(* for, is sent, and is repeated after a 429 or 503, all within a budget   *)
(* that begins with the permit.  Requests to Zotero and requests to any    *)
(* other host on the web draw on the same permits.                         *)
(*                                                                         *)
(* Time passes in steps.  A timer that is due runs before time passes, and *)
(* an aborted request rejects; an answer may come at any time or never.    *)
(***************************************************************************)
EXTENDS Semaphore

CONSTANTS
  Origins,
  MaxConcurrency,
  MaxRetries,
  Deadline,   \* the budget of a request
  Waits,      \* the waits an origin asks for
  FirstDelay  \* the wait before the first repetition, doubled at each further one

FetchAssumption ==
  /\ MaxConcurrency \in Ceilings /\ MaxConcurrency >= 1
  /\ Deadline \in Nat \ {0} /\ MaxRetries \in Nat /\ Waits \subseteq Nat
  /\ \A n \in 0..MaxRetries : 2 ^ n * FirstDelay \in Nat

VARIABLES
  backoff,  \* backoffUntil: how long each origin is to be left alone yet
  request

fetchVars == <<max, available, queue, holders, backoff, request>>
semaphoreVars == <<max, available, queue, holders>>

\* A request: where it stands, what is left of its budget and of its sleep, how
\* often it was repeated, whether its origin was seen to throttle.
Fresh(o) == [origin |-> o, at |-> "new", left |-> 0, sleep |-> 0, attempt |-> 0, sawRateLimit |-> FALSE]

Settled(how) == [origin |-> CHOOSE o \in Origins : TRUE, at |-> how, left |-> 0, sleep |-> 0, attempt |-> 0,
                 sawRateLimit |-> FALSE]

FetchInit ==
  /\ max = MaxConcurrency /\ available = max /\ queue = <<>> /\ holders = {}
  /\ backoff = [o \in Origins |-> 0]
  /\ request \in [Clients -> {Fresh(o) : o \in Origins}]

At(r, stage) == request[r].at = stage
BackoffWait(x) == backoff[x.origin]
Becomes(r, x) == request' = [request EXCEPT ![r] = x]

\* fetch(): a permit is taken or waited for.
Call(r) ==
  /\ At(r, "new")
  /\ Acquire(r)
  /\ Becomes(r, [request[r] EXCEPT !.at = "queued"])
  /\ UNCHANGED backoff

\* Seeded fault: a wait is slept out whatever is left of the budget.
FitsBudget_Any(x, wait) == TRUE

\* A wait that would outlast the budget is not begun.
FitsBudget(x, wait) == wait < x.left

\* run() releases the permit whatever came of the request.
Settles(r, how) ==
  /\ Release(r)
  /\ Becomes(r, Settled(how))

TimedOut(x) == IF x.sawRateLimit THEN "throttled" ELSE "slow"

\* The request is sent, unless its budget is spent.
Sends(r, x) ==
  IF x.left <= 0 THEN Settles(r, TimedOut(x))
  ELSE Becomes(r, [x EXCEPT !.at = "sent"]) /\ UNCHANGED semaphoreVars

\* The head of the loop: what the origin asked for is waited out, once.
GoesOut(r, x) ==
  \/ /\ BackoffWait(x) > 0 /\ FitsBudget(x, BackoffWait(x))
     /\ Becomes(r, [x EXCEPT !.at = "backing off", !.sawRateLimit = TRUE, !.sleep = BackoffWait(x)])
     /\ UNCHANGED semaphoreVars
  \/ BackoffWait(x) > 0 /\ ~FitsBudget(x, BackoffWait(x)) /\ Settles(r, "throttled")
  \/ BackoffWait(x) = 0 /\ Sends(r, x)

\* The budget begins with the permit.
Begin(r) ==
  /\ At(r, "queued") /\ r \in holders
  /\ GoesOut(r, [request[r] EXCEPT !.left = Deadline])
  /\ UNCHANGED backoff

\* The sleep before a repetition leads back to the loop's head, the other one on.
Wake(r) ==
  /\ request[r].sleep = 0
  /\ \/ At(r, "backing off") /\ Sends(r, request[r])
     \/ At(r, "delaying") /\ GoesOut(r, request[r])
  /\ UNCHANGED backoff

\* observeBackoff(): an answer may ask for a pause, and never shortens one.
Observed(o, pause) ==
  [backoff EXCEPT ![o] = IF pause > @ THEN pause ELSE @]

\* The answer is the caller's.
Answer(r) ==
  /\ At(r, "sent")
  /\ \E pause \in Waits \cup {0} : backoff' = Observed(request[r].origin, pause)
  /\ Settles(r, "answered")

\* retryDelayMs(): the wait the origin names, or one that doubles.
Delays(r) == Waits \cup {2 ^ request[r].attempt * FirstDelay}

\* 429 or 503, with repetitions left.
Throttled(r) ==
  /\ At(r, "sent") /\ request[r].attempt < MaxRetries
  /\ \E pause \in Waits \cup {0}, wait \in Delays(r) :
       /\ backoff' = Observed(request[r].origin, pause)
       /\ \/ /\ FitsBudget(request[r], wait)
             /\ Becomes(r, [request[r] EXCEPT !.at = "delaying", !.sawRateLimit = TRUE,
                                              !.sleep = wait, !.attempt = @ + 1])
             /\ UNCHANGED semaphoreVars
          \/ ~FitsBudget(request[r], wait) /\ Settles(r, "throttled")

\* The connection fails.
Fails(r) ==
  /\ At(r, "sent")
  /\ Settles(r, "failed")
  /\ UNCHANGED backoff

\* The budget's timer aborts a request that is out.
Abort(r) ==
  /\ At(r, "sent") /\ request[r].left <= 0
  /\ Settles(r, TimedOut(request[r]))
  /\ UNCHANGED backoff

\* r has something to do that does not wait for anybody.
Due(r) ==
  \/ At(r, "queued") /\ r \in holders
  \/ request[r].at \in {"backing off", "delaying"} /\ request[r].sleep = 0
  \/ At(r, "sent") /\ request[r].left <= 0

\* Its clocks run while it holds its permit.
Aged(x) ==
  [x EXCEPT !.left = IF x.at \in {"backing off", "delaying", "sent"} THEN @ - 1 ELSE @,
            !.sleep = IF @ > 0 THEN @ - 1 ELSE 0]

Tick ==
  /\ \A r \in Clients : ~Due(r)
  /\ backoff' = [o \in Origins |-> IF backoff[o] > 0 THEN backoff[o] - 1 ELSE 0]
  /\ request' = [r \in Clients |-> Aged(request[r])]
  /\ UNCHANGED semaphoreVars

\* What a request does of itself.
Proceeds(r) == Begin(r) \/ Wake(r) \/ Abort(r)

FetchNext ==
  \/ \E r \in Clients : Call(r) \/ Proceeds(r) \/ Answer(r) \/ Throttled(r) \/ Fails(r)
  \/ Tick

FetchSpec == FetchInit /\ [][FetchNext]_fetchVars

\* Timers run and time goes on; nothing is assumed of the servers.
FetchFairSpec ==
  /\ FetchSpec
  /\ \A r \in Clients : WF_fetchVars(Proceeds(r))
  /\ WF_fetchVars(Tick)

-----------------------------------------------------------------------------

\* No request holds its permit longer than its budget, whatever its origin
\* asks for, answers or leaves unanswered (http.ts:116).
BudgetHolds ==
  \A r \in holders : ~At(r, "queued") => request[r].left >= 0

\* A call that was not answered, refused or given up: none stays so for ever, not
\* one that waits behind others whose servers never answer either.
Unsettled(r) == request[r].at \notin {"new", "answered", "throttled", "slow", "failed"}
=============================================================================
