SPECIFICATION Spec
CONSTANTS
  None = None
  Clients = {c1, c2}
  Browsers = {c1}
  Workers = {w1, w2}
  Targets = {a, b}
  Reserved = {}
  MaxRevision = 2
SYMMETRY Symmetry
INVARIANTS
  EditorsHoldCommitted
  SnapshotCurrent
PROPERTIES
  NoLostUpdate
  NoStepBack
  KeepsSessions
