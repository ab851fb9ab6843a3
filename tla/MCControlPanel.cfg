SPECIFICATION PanelFairSpec
CONSTANTS
  Targets = {a, b}
  NoTarget = NoTarget
  MaxPolls = 1
  MaxChanges = 1
  MaxFaults = 1
PROPERTIES ButtonsInSync DisplaySettles OperationEnds
