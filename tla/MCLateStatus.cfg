SPECIFICATION PanelFairSpec
CONSTANTS
  Targets = {a}
  NoTarget = NoTarget
  MaxPolls = 1
  MaxChanges = 1
  MaxFaults = 0
PROPERTY WarnedWhileDirect
