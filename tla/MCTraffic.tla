----------------------------- MODULE MCTraffic -----------------------------
(***************************************************************************)
(* What goes over the network and has to come to an end: writes through    *)
(* the desktop app, writes on zotero.org, rate-limited requests, the       *)
(* sessions of remote clients, and calls to an embedding model.  They      *)
(* share no state, so a behaviour exercises one of them and the others     *)
(* stay as they start; what each owes to time and to its peers is stated   *)
(* for it alone.                                                           *)
(***************************************************************************)
EXTENDS Naturals, Sequences, FiniteSets

CONSTANTS
  None, NoKey, NoItem, NoSession, User, Thread,
  Ops, Items, Posts, MaxGrants, MaxFaults,
  Clients, Ceilings, Origins, MaxConcurrency, FetchRetries, Deadline, Waits, FirstDelay,
  Sessions, Requests, Owners, MaxSessions, IdleMs,
  Calls, Workers, Batches, Closes, MaxRetries, MaxWaited, MaxWait,
  Jobs, Records, Batch, MaxMishaps, AnswersAfter, Other

VARIABLES
  part,  \* the component this behaviour exercises
  app, copy, created, client, pending, op, everTagged, faults,
  max, available, queue, holders, backoff, request,
  session, inFlight, lastSeen, route,
  kind, provider, workers, posted, calls,
  cloud, made, filed, job, reported, unseen, mishaps

\* Two items to tag, one of them to update, objects to create in Posts requests.
Programs ==
  LET first == CHOOSE i \in Items : TRUE
      Step(k, i, n) == [kind |-> k, item |-> i, requests |-> n]
  IN  {[n \in 1..2 |-> Step("tag", IF n = 1 THEN first ELSE CHOOSE i \in Items : i # first, 1)],
       <<Step("update", first, 1)>>, <<Step("create", NoItem, Posts)>>}

\* Each cloud write tool, over one item or two.
Works ==
  {[kind |-> k, items |-> <<1, 2>>] : k \in {"create", "trash", "delete", "tag"}}
    \cup {[kind |-> k, items |-> <<1>>] : k \in {"delete", "append", "replace"}}
    \cup {[kind |-> "attach", items |-> <<>>]}

Writes == INSTANCE DesktopWrites
Cloud == INSTANCE CloudWrites
Fetch == INSTANCE HttpFetch WITH MaxRetries <- FetchRetries
Remote == INSTANCE HttpSessions
Embed == INSTANCE Embedder WITH pending <- posted

ASSUME TrafficAssumption ==
  /\ Fetch!FetchAssumption /\ Remote!SessionsAssumption /\ Embed!EmbedAssumption
  /\ Writes!WritesAssumption /\ Cloud!CloudAssumption
  /\ \E i, j \in Items : i # j
  /\ Posts \in Nat \ {0}
  /\ {1, 2} \subseteq Records

writesVars == <<app, copy, created, client, pending, op, everTagged, faults>>
fetchVars == <<max, available, queue, holders, backoff, request>>
remoteVars == <<session, inFlight, lastSeen, route>>
embedVars == <<kind, provider, workers, posted, calls>>
cloudVars == <<cloud, made, filed, job, reported, unseen, mishaps>>
vars == <<part, writesVars, fetchVars, remoteVars, embedVars, cloudVars>>

Init ==
  /\ part \in {"writes", "fetch", "remote", "embed", "cloud"}
  /\ Writes!Init
  /\ Fetch!FetchInit /\ (part # "fetch" => \A r, s \in Clients : request[r] = request[s])
  /\ part # "fetch" => \A r \in Clients : request[r].origin = CHOOSE o \in Origins : TRUE
  /\ Remote!SessionsInit
  /\ Embed!EmbedInit /\ (part # "embed" => kind = None)
  /\ Cloud!CloudInit

Next ==
  \/ part = "writes" /\ Writes!Next /\ UNCHANGED <<part, fetchVars, remoteVars, embedVars, cloudVars>>
  \/ part = "fetch" /\ Fetch!FetchNext /\ UNCHANGED <<part, writesVars, remoteVars, embedVars, cloudVars>>
  \/ part = "remote" /\ Remote!SessionsNext /\ UNCHANGED <<part, writesVars, fetchVars, embedVars, cloudVars>>
  \/ part = "embed" /\ Embed!EmbedNext /\ UNCHANGED <<part, writesVars, fetchVars, remoteVars, cloudVars>>
  \/ part = "cloud" /\ Cloud!CloudNext /\ UNCHANGED <<part, writesVars, fetchVars, remoteVars, embedVars>>

\* What time alone brings about, by the number of who waits for it.
\* A request has a time budget, and so has the dialog that asks for write access.
WritesMove(n) == part = "writes" /\ n \in Ops /\ Writes!OpStep(n)

\* Timers run and time goes on; nothing is assumed of the servers.
FetchMoves(n) ==
  part = "fetch" /\ (\/ n \in Clients /\ Fetch!Proceeds(n)
                     \/ n \notin Clients /\ Fetch!Tick)

\* The sweep's interval fires; a client may keep a response open.
RemoteMoves(n) == 
  part = "remote" /\ (\/ n = 1 /\ Remote!Sweep
                      \/ n = 2 /\ Remote!Pass)

\* A model answers, a thread's events arrive, timers fire.
EmbedMoves(n) ==
  part = "embed" /\ (\/ n \in Calls /\ Embed!CallStep(n)
                     \/ n \in Workers /\ Embed!WorkerStep(n)
                     \/ n \notin Calls \cup Workers /\ Embed!ThreadLoads)

\* A request of the cloud client has the same budget.
CloudMoves(n) == part = "cloud" /\ n \in Jobs /\ Cloud!JobStep(n)

Moves(n) ==
  \/ WritesMove(n) /\ UNCHANGED <<part, fetchVars, remoteVars, embedVars, cloudVars>>
  \/ FetchMoves(n) /\ UNCHANGED <<part, writesVars, remoteVars, embedVars, cloudVars>>
  \/ RemoteMoves(n) /\ UNCHANGED <<part, writesVars, fetchVars, embedVars, cloudVars>>
  \/ EmbedMoves(n) /\ UNCHANGED <<part, writesVars, fetchVars, remoteVars, cloudVars>>
  \/ CloudMoves(n) /\ UNCHANGED <<part, writesVars, fetchVars, remoteVars, embedVars>>

\* Each part names its own actors, so one condition for each number is one for each
\* actor of the part that moves.
Fairness == \A n \in 1..6 : WF_vars(Moves(n))

Spec == Init /\ [][Next]_vars /\ Fairness

\* Nothing is created twice, an operation lands on one copy, and nothing the user, another
\* client or another operation put into an item is lost (library-writer.ts:107,
\* local-writes.ts:297, write-note.ts:104, web-client.ts:661).
WritesLandOnce == Writes!WritesLandOnce /\ Cloud!CloudHonest

\* A request keeps its permit no longer than its budget (http.ts:116), and its session
\* for as long as it is open (transports/http.ts:163).
RequestsGetTheirDue == Fetch!BudgetHolds /\ Remote!CallKeepsSession

\* No thread is left running a model that nobody will close (embeddings.ts:712, :858).
NoOrphan == Embed!NoOrphan

\* Every write, every request behind others and every call to the model comes to an
\* end, and no session stays open and unused for ever; a call to the model can be left
\* waiting in one way alone, by a thread that ended while it paused between two batches
\* (library-writer.ts:107, http.ts:116, embeddings.ts:806, transports/http.ts:49).
EverythingEnds ==
  /\ Embed!StrandedByPause
  /\ \A n \in 1..3 :
    []<>~(\/ n \in Ops /\ Writes!Unsettled(n)
          \/ n \in Clients /\ Fetch!Unsettled(n)
          \/ n \in Sessions /\ Remote!Idles(n)
          \/ n \in Calls /\ Embed!Unsettled(n) /\ ~Embed!Stranded(n)
          \/ n \in Jobs /\ Cloud!Unsettled(n))
=============================================================================
