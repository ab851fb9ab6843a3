SPECIFICATION FairSpec
CONSTANTS
  None = None
  Workers = {w1, w2}
  Targets = {a}
  Offered = {"DIRECT", "LOCK", "STATUS"}
PROPERTIES
  RequestsAnswered
  LockReleased
