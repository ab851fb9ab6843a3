SPECIFICATION FairDnsSpec
CONSTANTS
  Tokens = {t1}
  Faults = {"command", "kill", "reboot"}
  Hosts <- SomeHosts
  MaxEdits = 1
INVARIANTS
  DecisionStillHolds
  RollbackRestores
  RollbackForgetsSaved
  CleanupConverges
  ResolverRestored
PROPERTIES
  AdministratorKept
  NotForgotten
