SPECIFICATION FairSpec
CONSTANTS
  None = None
  New = New
  a = a
  b = b
  p = p
  q = q
  Aliases = {a, b}
  Contexts = {p}
  Tried <- Even
  Values = {x}
  MaxTargets = 2
  MaxStale = 0
PROPERTY
  FlaggedIsHandled
