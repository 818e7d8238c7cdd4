CONSTANTS
  P = 4
  MaxInterval = 7
  MinCount = 3
  Slack = 3
  Run = 3
  Keep = 9
  Least = 8
  HeadLimit = 28
  N = 10
  Shapes <- AllShapes
  Streams <- FaultyInputs
  Chunks = {6, 26, 35, 40}
SPECIFICATION Spec
INVARIANTS TypeOK UnitRight BufferRight NothingLost
PROPERTIES PacketsInOrder Finishes
CHECK_DEADLOCK FALSE
