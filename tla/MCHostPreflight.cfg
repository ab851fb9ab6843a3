SPECIFICATION HostSpec
CONSTANTS
  Policies = {p, q}
  None = None
  Documents <- SomeDocuments
  Networks <- SomeNetworks
  Wrong <- Anything
  MaxChanges = 1
SYMMETRY Symmetry
INVARIANTS ErrorHasCause PassedMeansHeld DashboardStaysPrivate
PROPERTIES KillSwitchGuarded VerifiedIsComplete
