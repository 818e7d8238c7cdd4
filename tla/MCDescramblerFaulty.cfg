CONSTANTS
  Progs = {"g1"}
  ECMs = {"k1", "k2"}
  Contracted = {}
  MaxFailures = 2
  Strip = TRUE
  HeadLimit = 3
  Wrap = 3
  None = None
  Events = {"flush", "pmt"}
  PATs = {{"g1"}}
  FirstECM <- OneECM
  MaxBuffer = 3
  Chunk = 2
  MaxPeriods = 1
SPECIFICATION BSpec
INVARIANTS RepeatsBounded
PROPERTIES InOrder RefusedUntouched
CHECK_DEADLOCK FALSE
