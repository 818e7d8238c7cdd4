CONSTANTS
  P = 4
  MaxInterval = 7
  MinCount = 3
  Slack = 3
  Run = 3
  Keep = 9
  Least = 8
  HeadLimit = 28
  N = 10
  Shapes <- Stamped
  Streams <- FaultlessInputs
  Chunks = {6, 26, 40}
SPECIFICATION Spec
INVARIANTS FlushReturns
CHECK_DEADLOCK FALSE
