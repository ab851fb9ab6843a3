SPECIFICATION Spec
CONSTANTS
  Tokens = {t1}
  Faults = {}
INVARIANT
  TimerRestores
