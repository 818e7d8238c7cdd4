CONSTANTS
  Elems = {e1, e2, e3}
  Units <- MCUnits
  Pad <- MCPad
  SecLen <- MCSecLen
  Valid <- MCValid
  Pids = {"p"}
  Packets <- MCPackets
  Null = Null
  Content <- MCContent
  Capacity = 3
  MaxFaults = 3
SPECIFICATION BSpec
INVARIANTS BTypeOK
PROPERTIES Converges NeverStale
