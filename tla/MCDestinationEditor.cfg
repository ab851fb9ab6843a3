SPECIFICATION FairSpec
CONSTANTS
  None = None
  New = New
  a = a
  b = b
  p = p
  q = q
  Aliases = {a, b}
  Contexts = {p, q}
  Tried <- Uneven
  Values = {x}
  MaxTargets = 2
  MaxStale = 1
INVARIANT
  CleanupRemovesReported
PROPERTIES
  KeepsSession
  BusyEnds
