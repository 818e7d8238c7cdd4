CONSTANTS
  Progs = {"g1", "g2"}
  ECMs = {"k1"}
  Contracted = {"k1"}
  MaxFailures = 0
  Strip = TRUE
  HeadLimit = 3
  Wrap = 3
  None = None
  Events = {"pat", "error", "padding"}
  PATs = {{"g1"}, {"g1", "g2"}}
  FirstECM <- OneECM
  MaxBuffer = 5
  Chunk = 2
  MaxPeriods = 2
SPECIFICATION BSpec
INVARIANTS TypeOK RightKey NotLeftScrambled
PROPERTIES InOrder
CHECK_DEADLOCK FALSE
