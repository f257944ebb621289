CONSTANTS
  MaxOpens = 4
  MaxLines = 2
SPECIFICATION FairSpec
INVARIANTS NoTerminate ClosedIsQuiet OpenRuns NewsIsSeen
PROPERTIES NoneHangs
CHECK_DEADLOCK FALSE
