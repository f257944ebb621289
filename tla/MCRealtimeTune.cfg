CONSTANTS
  isolcpus = isolcpus
  irqaffinity = irqaffinity
  old = old
  new = new
  Kernels = {old, new}
  Params = {isolcpus, irqaffinity}
  NoParam = NoParam
  Bare = Bare
  Range = Range
  Other = Other
  MaxCalls = 6
  MaxFaults = 2
  MaxEdits = 1
SPECIFICATION Spec
SYMMETRY Symmetry
INVARIANTS ListedWhileInstalled RollbackRestores InEffectAfterReboot
CHECK_DEADLOCK FALSE
