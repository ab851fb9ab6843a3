SPECIFICATION FairSpec
CONSTANTS
  Calls = {m1, m2, r}
  Mutations = {m1, m2}
  WorkerCount = 2
  Backlog = 1
  MaxStops = 2
PROPERTIES RemoteCallHolds Served
CHECK_DEADLOCK FALSE
