SPECIFICATION MCSpec
CONSTANTS
  p1 = p1
  c1 = c1
  c2 = c2
  Procs = {p1}
  Clients = {c1}
  Buffer = 2
  MaxChunks = 2
  MaxReexecs = 0
  Requests = {}
  Events = {}
INVARIANT AllOutputDelivered
CHECK_DEADLOCK FALSE
