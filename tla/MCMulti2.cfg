CONSTANTS
  SystemKeys = {s1, s2}
  IVs = {v1}
  DataKeys = {k1, k2}
  Rounds = {4}
  MaxRef = 2
  None = None
  Sizes = {1, 7, 8, 31, 32, 33, 56, 63, 64, 65, 95, 96, 119, 120, 121, 151, 152, 183, 184}
  PlainSizes = {7, 39}
  Payloads <- CipherTexts
  PlainPayloads <- PlainTexts
SPECIFICATION Spec
INVARIANTS TypeOK
PROPERTIES ImplementsPromise RoundTrip
CHECK_DEADLOCK FALSE
