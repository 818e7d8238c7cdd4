CONSTANTS
  Progs = {"g1"}
  ECMs = {"k1", "k2"}
  Contracted = {"k1", "k2"}
  MaxFailures = 0
  Strip = TRUE
  HeadLimit = 6
  Wrap = 3
  None = None
  Events = {"pmt"}
  PATs = {{"g1"}}
  FirstECM <- OwnECM
  MaxBuffer = 6
  Chunk = 2
  MaxPeriods = 2
SPECIFICATION BSpec
INVARIANTS NotLeftScrambled
CHECK_DEADLOCK FALSE
