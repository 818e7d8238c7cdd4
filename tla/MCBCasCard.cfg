CONSTANTS
  NReaders = 2
  Cards = {c1, c2}
  Foreign = foreign
  None = None
  EcmRetries = 3
  EmmRetries = 2
  MaxSwaps = 4
SPECIFICATION Spec
INVARIANTS TypeOK AnswerFromKnownCard
PROPERTIES CallsReturn
