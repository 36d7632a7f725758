\* Two operations on two items, fifty-one objects to create; three requests to two hosts with two permits;
\* room for two of three sessions; two calls of two batches and three threads; two cloud calls,
\* one object to a request.  Liveness, so no
\* symmetry.
CONSTANTS
  None = None
  NoKey = NoKey
  NoItem = NoItem
  NoSession = NoSession
  User = User
  Thread = Thread
  Ops = {1, 2}
  Items = {i1, i2}
  Posts = 2
  MaxGrants = 2
  MaxFaults = 1
  Clients = {1, 2, 3}
  Ceilings = {2}
  Origins = {zotero, other}
  MaxConcurrency = 2
  FetchRetries = 1
  Deadline = 3
  Waits = {1, 4}
  FirstDelay = 1
  Sessions = {1, 2, 3}
  Requests = {1, 2, 3}
  Owners = {alice, bob}
  MaxSessions = 2
  IdleMs = 2
  Calls = {1, 2}
  Workers = {3, 4, 5}
  Batches = 2
  Closes = TRUE
  MaxRetries = 2
  MaxWaited = 3
  MaxWait = 2
  Jobs = {1, 2}
  Records = {1, 2}
  Batch = 1
  MaxMishaps = 1
  AnswersAfter = {"create", "trash", "delete", "tag", "append", "replace", "attach"}
  Other = Other
SPECIFICATION Spec
INVARIANTS WritesLandOnce RequestsGetTheirDue NoOrphan
PROPERTY EverythingEnds
CHECK_DEADLOCK FALSE
