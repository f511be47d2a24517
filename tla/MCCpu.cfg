SPECIFICATION Spec
CONSTANTS
  ByteBase = 4
  MaxSize = 8
  RegisterCount = 3
  CountModulus = 3
  RamSize = 8
  Decode <- MCDecode
  AluResult <- MCAluResult
  Setups <- MCSetups
  WriteValues <- MCWriteValues
CONSTRAINT RetirementBound
INVARIANTS
  TypeOK
  KeepsContract
  JumpsStayAligned
  AttemptExplained
