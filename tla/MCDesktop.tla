------------------------------ MODULE MCDesktop ------------------------------
(***************************************************************************)
(* The desktop app as the server reads it: a crawl served by an app that   *)
(* comes and goes, and a library the router reads from whichever copy has  *)
(* its own writes.  They share no state here (the router sees the app only *)
(* as up or down), so a behaviour exercises one of them and the other      *)
(* stays as it starts.                                                     *)
(***************************************************************************)
EXTENDS FulltextCrawl, LocalRouting

VARIABLE part  \* what this behaviour exercises

ASSUME RoutingAssumption

allVars == <<part, crawlVars, routingVars>>

DesktopInit ==
  /\ part \in {"crawl", "routing"}
  /\ CrawlInit /\ (part # "crawl" => desktop = "up" /\ localApi /\ localGroupIds = Groups)
  /\ RoutingInit /\ (part # "routing" => served /\ \A k \in Keys : cloud[k].there)

Crawls(A) == part = "crawl" /\ A /\ UNCHANGED <<part, routingVars>>
Routes(A) == part = "routing" /\ A /\ UNCHANGED <<part, crawlVars>>

DesktopNext ==
  \/ part = "crawl" /\ CrawlNext /\ UNCHANGED <<part, routingVars>>
  \/ part = "routing" /\ RoutingNext /\ UNCHANGED <<part, crawlVars>>

\* The fairness of FulltextCrawl and of LocalRouting, each of its part.
DesktopFairness ==
  /\ \A c \in Clients : WF_allVars(Crawls(EndRead(c)))
  /\ WF_allVars(Crawls(Moves(Tick)))
  /\ WF_allVars(Crawls(Moves(Probe)))
  /\ WF_allVars(Crawls(Moves(Ensure(FALSE))))
  /\ WF_allVars(Routes(Sync))
  /\ WF_allVars(Routes(\E w \in inFlight : NoteCloudWrite(w)))
  /\ WF_allVars(Routes(Probing))
  /\ []<>(part = "routing" => served)
  /\ SF_allVars(Routes(\E r \in Readers : RouteAsks(r)))
  /\ SF_allVars(Routes(\E r \in Readers : RouteAnswered(r)))
  /\ WF_allVars(Routes(\E r \in Readers : RouteDecides(r)))

DesktopFairSpec == DesktopInit /\ [][DesktopNext]_allVars /\ DesktopFairness

\* A queued full-text call is served, and an override whose baseline was measured in time
\* ends once the desktop has synced (lib/semaphore.ts:22, library-router.ts:327).
ReadsGoOn == EveryCallServed /\ MeasuredOverrideEnds
=============================================================================
