CONSTANTS
  Prefix = 2
  Header = 1
  Bodies = {1, 2, 5, 9}
  maxBuffSize = 7
  MaxRecv = 8
  Chunk = 12
  Garbled = {0, 4}
  MaxFrames = 4
SPECIFICATION Spec
INVARIANT NeverLost
CHECK_DEADLOCK FALSE
