SPECIFICATION MCSpec
CONSTANTS
  p1 = p1
  c1 = c1
  c2 = c2
  Procs = {p1}
  Clients = {c1, c2}
  Buffer = 1
  MaxChunks = 2
  MaxReexecs = 1
  Requests <- MCRequests
  Events <- MCEvents
INVARIANTS StreamFaithful HubSound NothingVanishes EndIsLast
  RequestUnderstood EventReadable
CHECK_DEADLOCK FALSE
PROPERTY ExitReachesEveryone
