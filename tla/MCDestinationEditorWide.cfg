SPECIFICATION Spec
CONSTANTS
  None = None
  New = New
  a = a
  b = b
  p = p
  q = q
  Aliases = {a, b}
  Contexts = {p, q}
  Tried <- Even
  Values = {x}
  MaxTargets = 2
  MaxStale = 1
SYMMETRY Symmetry
INVARIANT
  CleanupRemovesReported
