SPECIFICATION Spec
SYMMETRY Symmetry
CONSTANTS
  None = None
  s = s
  t = t
  x = x
  plain = plain
  odd = odd
  tangled = tangled
  ServerKeys = {k1, k2}
  ClientKeys = {c, d}
  Setups = {s, t, x}
  Unusable = {x}
  HandWritten = {plain, odd, tangled}
  Reading <- Readings
  MaxBackups = 2
  MaxUpsets = 3
INVARIANTS
  RestoreRestores
  PreparedKeepsGateway
PROPERTIES
  NeverLockedOut
  ServerKeyNeverRotated
