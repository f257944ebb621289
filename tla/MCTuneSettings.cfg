CONSTANTS
  Tuners <- MCTuners
  Originals <- MCOriginals
  NoValue = NoValue
  MaxJobs = 4
  MaxFaults = 1
SPECIFICATION Spec
INVARIANTS RestoredInOrder FailedEnableLeavesNoTrace TunedWhileEnabled
CHECK_DEADLOCK FALSE
