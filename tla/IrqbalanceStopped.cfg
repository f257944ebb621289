CONSTANTS
  Tuners <- IrqTuners
  Originals <- MCOriginals
  NoValue = NoValue
  MaxJobs = 4
  MaxFaults = 1
SPECIFICATION Spec
INVARIANT IrqbalanceStopped
CHECK_DEADLOCK FALSE
