CONSTANTS
  Progs = {"g1", "g2"}
  PIDs = {"g1", "g2", "s1", "s2", "s3", "k1", "k2", "e1"}
  ECMs = {"k1", "k2"}
  Tables <- MCTables
  EMMs = {"e1"}
  CATs <- MCCATs
  Decs = {d1, d2, d3}
  None = None
  Unscrambled = "clear"
SYMMETRY Symmetry
SPECIFICATION Spec
INVARIANTS OneEcmOneDecryptor
