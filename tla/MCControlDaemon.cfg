SPECIFICATION Spec
CONSTANTS
  None = None
  Workers = {w1, w2}
  Targets = {a, b}
  Offered = {"CONNECT", "DISCONNECT", "PROTECTED", "LOCK", "DIRECT", "REPLACE", "STATUS"}
SYMMETRY Symmetry
INVARIANTS
  ConfirmedModeHolds
  TunnelReleasedProtected
  DirectErrorRestores
  NoFalseComfort
  LabelNamesExit
PROPERTY
  ImplementsPolicy
