SPECIFICATION Spec
CONSTANTS
  ByteBase = 2
  MaxSize = 8
  CountModulus = 3
  r0 = r0
  r1 = r1
  Null = Null
  Registers <- MCRegisters
  Values <- MCValues
  Pcs <- MCPcs
  Rams <- MCRams
  Programs <- MCPrograms
  Limits <- MCLimits
INVARIANTS
  TypeOK
  LoadedIsRunnable
  ExitConsistent
  RunsAccounted
PROPERTIES
  LimitIsExact
  ResetIsReload
