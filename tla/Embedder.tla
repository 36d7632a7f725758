------------------------------ MODULE Embedder ------------------------------
(***************************************************************************)
(* Turning texts into vectors (features/search/embeddings.ts): the local   *)
(* provider, whose model lives in a worker thread that is loaded on the    *)
(* first call, shared by all, closed, and replaced when it dies; and the   *)
(* remote ones, whose requests are retried under a budget, the Ollama one  *)
(* after asking once whether a daemon is there.                            *)
(*                                                                         *)
(* Calls run on one event loop: a step ends where the code awaits.  What   *)
(* reaches the loop from a thread is an event, and comes in any order with *)
(* the others; a message posted to a thread that is gone is dropped.       *)
(***************************************************************************)
EXTENDS Naturals, FiniteSets

CONSTANTS
  Calls, Workers,
  Batches,     \* batches of one call's texts
  Closes,      \* whether close() is called while the server runs
  MaxRetries,  \* embedMaxRetries
  MaxWaited,   \* EMBED_RETRY_TOTAL_MS
  MaxWait,     \* EMBED_RETRY_MAX_WAIT_MS
  Thread,      \* the model loaded on the main thread
  None

\* The main thread is no worker.
EmbedAssumption == Thread # None /\ {Thread, None} \cap Workers = {}

VARIABLES
  kind,      \* of provider: "local", "remote" or None
  provider,  \* the fields of the provider
  workers,   \* each thread: none, loading, ready, failed (error pending), stopped (exit pending)
  pending,   \* calls with a batch at a worker
  calls

embedVars == <<kind, provider, workers, pending, calls>>

\* Remote: extractor is the daemon once it has been found, loading the probe.
NoModel == [worker |-> None, extractor |-> None, loading |-> None, closing |-> FALSE]

\* on: what the call's extractor is bound to.  attempt and waited are a remote
\* batch's.
Idle == [at |-> "idle", left |-> 0, on |-> None, attempt |-> 0, waited |-> 0]

\* createEmbeddingProvider(): what ZOTEUS_EMBEDDINGS asks for, when it can be had:
\* an API key, or the local runtime.  A daemon is asked on the first call.
Selected(embeddings, able) ==
  IF embeddings = "off" \/ (embeddings # "ollama" /\ ~able) THEN None
  ELSE IF embeddings = "local" THEN "local" ELSE "remote"

EmbedInit ==
  /\ \E embeddings \in {"off", "openai", "gemini", "ollama", "local"}, able \in BOOLEAN :
       kind = Selected(embeddings, able)
  /\ provider = NoModel
  /\ workers = [w \in Workers |-> "none"]
  /\ pending = {} /\ calls = [c \in Calls |-> Idle]

Free(w) == workers[w] = "none" /\ \A c \in Calls : calls[c].on # w

Joining == {c \in Calls : calls[c].at = "joining"}

\* Posts the call's next batch to m.  A thread that is gone never sees it.
Posted(call, m) == [call EXCEPT !.at = "posted", !.on = m, !.attempt = 1, !.waited = 0]
AtWorker(c, m) == IF m \in Workers THEN pending \cup {c} ELSE pending

\* embed(), with ensure() or ensureReachable(): the model is there, being loaded,
\* or its load begins.  There may be no runtime to load.
Embed(c) ==
  /\ calls[c].at = "idle" /\ kind # None /\ UNCHANGED kind
  /\ LET call == [Idle EXCEPT !.left = Batches] IN
       IF provider.extractor # None
       THEN /\ calls' = [calls EXCEPT ![c] = Posted(call, provider.extractor)]
            /\ pending' = AtWorker(c, provider.extractor)
            /\ UNCHANGED <<provider, workers>>
       ELSE /\ calls' = [calls EXCEPT ![c] = [call EXCEPT !.at = "joining"]]
            /\ UNCHANGED pending
            /\ IF provider.loading # None THEN UNCHANGED <<provider, workers>>
               ELSE IF kind = "remote"
                    THEN provider' = [provider EXCEPT !.loading = Thread] /\ UNCHANGED workers
                    ELSE \E w \in Workers :
                           /\ Free(w)
                           /\ workers' = [workers EXCEPT ![w] = "loading"]
                           /\ provider' = [provider EXCEPT !.loading = w]

\* The batches at a worker are rejected, and their calls with them.
Rejected(cs) == calls' = [c \in Calls |-> IF c \in cs THEN Idle ELSE calls[c]]

\* close(), once no load is in flight.
Closed(p) == [p EXCEPT !.worker = None, !.extractor = None, !.loading = None, !.closing = FALSE]
Terminated(w) == IF w \in Workers /\ workers[w] \in {"ready", "loading"} THEN [workers EXCEPT ![w] = "stopped"] ELSE workers

\* The load settles: those who joined it go on with the model, and a close() that
\* waited for it goes on after them, telling them so.
Loaded(m) ==
  /\ UNCHANGED kind
  /\ IF provider.closing
     THEN /\ provider' = Closed(provider)
          /\ workers' = IF m \in Workers THEN [workers EXCEPT ![m] = "stopped"] ELSE workers
          /\ pending' = {}
          /\ calls' = [c \in Calls |-> IF c \in pending THEN Idle
                                       ELSE IF c \notin Joining THEN calls[c]
                                       ELSE IF m \in Workers THEN Idle ELSE Posted(calls[c], m)]
     ELSE /\ provider' = [provider EXCEPT !.extractor = m, !.worker = IF m \in Workers THEN m ELSE @, !.loading = None]
          /\ workers' = IF m \in Workers THEN [workers EXCEPT ![m] = "ready"] ELSE workers
          /\ pending' = IF m \in Workers THEN pending \cup Joining ELSE pending
          /\ calls' = [c \in Calls |-> IF c \in Joining THEN Posted(calls[c], m) ELSE calls[c]]

\* A load that failed is not kept: the next call starts over.
LoadFailed(ws) ==
  /\ UNCHANGED kind
  /\ workers' = ws
  /\ provider' = IF provider.closing THEN Closed(provider) ELSE [provider EXCEPT !.loading = None]
  /\ pending' = IF provider.closing THEN {} ELSE pending
  /\ Rejected(Joining \cup IF provider.closing THEN pending ELSE {})

\* The thread's first message: the model is loaded, or why it is not.
WorkerReady(w) == workers[w] = "loading" /\ Loaded(w)
WorkerCannot(w) == workers[w] = "loading" /\ LoadFailed([workers EXCEPT ![w] = "stopped"])

\* loadInThread() when there can be no worker, and the probe of a remote one.
ThreadLoads ==
  /\ provider.loading = Thread
  /\ Loaded(Thread) \/ LoadFailed(workers)

\* A thread runs out of memory, or exits.
Crash(w) ==
  /\ workers[w] \in {"loading", "ready"}
  /\ workers' = [workers EXCEPT ![w] = IF provider.loading = w THEN "lost" ELSE "failed"]
  /\ UNCHANGED <<kind, provider, pending, calls>>

\* Seeded fault: nobody waiting is told.
Waiting_None == {}

\* died(): every batch that waits is rejected, whichever thread has it.
Waiting == pending

\* died() of a thread that was ready; an error is followed by an exit.
WorkerGone(w) ==
  /\ workers[w] \in {"failed", "stopped"} /\ UNCHANGED kind
  /\ workers' = [workers EXCEPT ![w] = IF @ = "failed" THEN "stopped" ELSE "none"]
  /\ provider' = IF provider.worker = w
                 THEN [provider EXCEPT !.worker = None, !.extractor = None, !.loading = None] ELSE provider
  /\ pending' = pending \ Waiting
  /\ Rejected(Waiting)

\* died() of a thread that never was: the model is loaded on the main thread.
WorkerUnavailable(w) ==
  /\ workers[w] = "lost" /\ UNCHANGED kind
  /\ workers' = [workers EXCEPT ![w] = "stopped"]
  /\ provider' = [provider EXCEPT !.loading = Thread]
  /\ pending' = pending \ Waiting
  /\ Rejected(Waiting)

\* What a batch's answer leaves: the pause before the next one, or the end.
Answered(c) == IF calls[c].left > 1 THEN [calls[c] EXCEPT !.at = "paused", !.left = @ - 1] ELSE Idle

\* A local batch is embedded, or refused.
Reply(c) ==
  /\ calls[c].at = "posted" /\ kind = "local"
  /\ IF calls[c].on \in Workers THEN c \in pending /\ workers[calls[c].on] = "ready" ELSE TRUE
  /\ pending' = pending \ {c}
  /\ \E next \in {Answered(c), Idle} : calls' = [calls EXCEPT ![c] = next]
  /\ UNCHANGED <<kind, provider, workers>>

\* batchPause(): the next batch goes to the extractor the call began with.
Resume(c) ==
  /\ calls[c].at = "paused"
  /\ calls' = [calls EXCEPT ![c] = Posted(@, calls[c].on)]
  /\ pending' = AtWorker(c, calls[c].on)
  /\ UNCHANGED <<kind, provider, workers>>

\* requestWithBackoff(): the attempts are spent, or the next wait would exceed
\* what may be waited in all.
GivesUp(call, wait) == call.attempt > MaxRetries \/ call.waited + wait > MaxWaited

\* A remote batch's request is answered: with vectors, with a refusal or something
\* malformed, or with a failure that may heal.
Answer(c) ==
  /\ calls[c].at = "posted" /\ kind = "remote"
  /\ UNCHANGED <<kind, provider, workers, pending>>
  /\ \E next \in {Answered(c), Idle} \cup {IF GivesUp(calls[c], wait) THEN Idle
                                           ELSE [calls[c] EXCEPT !.at = "waiting", !.waited = @ + wait] : wait \in 1..MaxWait} :
       calls' = [calls EXCEPT ![c] = next]

Retry(c) ==
  /\ calls[c].at = "waiting"
  /\ calls' = [calls EXCEPT ![c].at = "posted", ![c].attempt = @ + 1]
  /\ UNCHANGED <<kind, provider, workers, pending>>

\* Seeded fault: a load in flight is not waited for.
AwaitsLoad_Never == FALSE

AwaitsLoad == provider.loading # None

\* close()
Close ==
  /\ Closes /\ kind = "local" /\ ~provider.closing /\ UNCHANGED kind
  /\ IF AwaitsLoad
     THEN provider' = [provider EXCEPT !.closing = TRUE] /\ UNCHANGED <<workers, pending, calls>>
     ELSE /\ provider.extractor # None \/ provider.loading # None
          /\ workers' = Terminated(provider.worker)
          /\ provider' = Closed(provider)
          /\ Rejected(pending) /\ pending' = {}

CallStep(c) == Reply(c) \/ Resume(c) \/ Answer(c) \/ Retry(c)
WorkerStep(w) == WorkerReady(w) \/ WorkerCannot(w) \/ WorkerGone(w) \/ WorkerUnavailable(w)

EmbedNext ==
  \/ \E c \in Calls : Embed(c) \/ CallStep(c)
  \/ \E w \in Workers : WorkerStep(w) \/ Crash(w)
  \/ ThreadLoads \/ Close

\* A model answers, a thread's events arrive, timers fire.
EmbedFairness ==
  /\ \A c \in Calls : WF_embedVars(CallStep(c))
  /\ \A w \in Workers : WF_embedVars(WorkerStep(w))
  /\ WF_embedVars(ThreadLoads)

EmbedSpec == EmbedInit /\ [][EmbedNext]_embedVars /\ EmbedFairness

\* A thread that holds a model is the provider's, or about to be: none is left
\* running, gigabytes and all, that nobody will close (embeddings.ts:712, :858).
NoOrphan ==
  \A w \in Workers : workers[w] \in {"ready", "loading"} => w \in {provider.worker, provider.loading}

\* A call without its vectors.
Unsettled(c) == calls[c].at # "idle"

\* The call has posted to a thread that had exited: nothing will answer it, and nothing
\* rejects it but the end of another thread.
Stranded(c) == calls[c].at = "posted" /\ calls[c].on \in Workers /\ workers[calls[c].on] = "none"

\* "Anything still waiting on a batch is told so" (embeddings.ts:855): no call waits for
\* ever, whatever happens to the worker.  It is not so of a call that is between two
\* batches then (:786, :803, :897).
NobodyWaits == \A c \in Calls : []<>~Unsettled(c)

\* What holds of it: a call ends, unless it posted a further batch to a thread that had
\* exited while it paused.
EndsOrStranded == \A c \in Calls : []<>~(Unsettled(c) /\ ~Stranded(c))

\* A first batch never goes to a thread that is gone, nor does the end of a thread leave a
\* batch behind: only a call that comes back from its pause is left so (embeddings.ts:786).
StrandedByPause ==
  [][\A c \in Calls : ~Stranded(c) /\ Stranded(c)' => calls[c].at = "paused"]_embedVars
=============================================================================
