CONSTANTS
  Elems = {e1, e2, e3, e4}
  Units <- MCUnits
  Pad <- MCPad
  SecLen <- MCSecLen
  Valid <- MCValid
  Pids = {"p", "q"}
  Packets <- MCPackets
  Null = Null
  PacketUnits = 2
SYMMETRY Symmetry
SPECIFICATION Spec
INVARIANTS TypeOK OnePlace RefExact OnlyValid
PROPERTIES LoanUntouched ImplementsFeed
