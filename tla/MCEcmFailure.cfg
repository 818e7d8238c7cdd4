CONSTANTS
  Progs = {"g1"}
  ECMs = {"k1"}
  Contracted = {"k1"}
  MaxFailures = 1
  Strip = TRUE
  HeadLimit = 6
  Wrap = 3
  None = None
  Events = {}
  PATs = {{"g1"}}
  FirstECM <- OneECM
  MaxBuffer = 6
  Chunk = 2
  MaxPeriods = 2
SPECIFICATION BSpec
INVARIANTS NoKeyNoFailure
CHECK_DEADLOCK FALSE
