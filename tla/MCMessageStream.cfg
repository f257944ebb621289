CONSTANTS
  Prefix = 2
  Header = 1
  Bodies = {1, 2, 5, 9}
  maxBuffSize = 7
  MaxRecv = 8
  Chunk = 6
  Garbled = {0, 4}
  MaxFrames = 3
SPECIFICATION Spec
INVARIANTS Intact NothingRepeated LostNeedsCrowd
PROPERTIES EveryMessageArrives
CHECK_DEADLOCK FALSE
