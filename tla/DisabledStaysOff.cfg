CONSTANTS
  isolcpus = isolcpus
  irqaffinity = irqaffinity
  old = old
  new = new
  Kernels = {old, new}
  Params = {isolcpus, irqaffinity}
  NoParam = NoParam
  Bare = Bare
  Range = Range
  Other = Other
  MaxCalls = 7
  MaxFaults = 1
  MaxEdits = 0
SPECIFICATION Spec
SYMMETRY Symmetry
INVARIANT DisabledStaysOff
CHECK_DEADLOCK FALSE
