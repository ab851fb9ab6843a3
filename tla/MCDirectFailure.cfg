SPECIFICATION Spec
CONSTANTS
  None = None
  Workers = {w1}
  Targets = {a}
  Offered = {"DIRECT"}
INVARIANT
  DirectFailureRestores
