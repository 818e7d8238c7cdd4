CONSTANTS
  NReaders = 1
  Cards = {c1}
  Foreign = None
  None = None
  EcmRetries = 0
  EmmRetries = 1
  MaxSwaps = 1
  ECMs = {"k1", "k2"}
  Paid = {"k1"}
  Own = c1
  Other = c2
  Sent <- Sections
SPECIFICATION ASpec
INVARIANTS ATypeOK KeysOfLastEcm
PROPERTIES ContractTakesEffect
CHECK_DEADLOCK FALSE
