\* One consent through both kinds of sign-in, rotations, failed writes and restarts, with
\* room for one client; two accounts with room for one of them and for two of its keys.
CONSTANTS
  None = None
  Clients = {c1, c2}
  Consents = {g1}
  Requests = {q1, q2}
  MaxClients = 1
  MaxAttempts = 2
  MaxPairs = 3
  MaxQueued = 3
  MaxLapses = 1
  MaxFaults = 2
  ua = ua
  ub = ub
  k1 = k1
  k2 = k2
  k3 = k3
  k4 = k4
  Users = {ua, ub}
  Keys = {k1, k2, k3, k4}
  Calls = {call1, call2}
  MaxEntries = 1
  KeysPerAccount = 2
  RecheckAfter = 1
  MaxRegistries = 3
  MaxRevoked = 1
SPECIFICATION AccountsSpec
SYMMETRY Symmetry
CHECK_DEADLOCK FALSE
INVARIANTS ConsentGrantsOnce FileSettles AccountIndexes
PROPERTIES FileMovesForward GoInTime
