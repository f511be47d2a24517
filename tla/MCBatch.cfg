SPECIFICATION MonitorSpec
CONSTANTS
  ByteBase = 2
  MaxSize = 8
  CountModulus = 3
  MaxSignals = 2
  r0 = r0
  line = line
  Null = Null
  NoLine = NoLine
  Registers <- MCRegisters
  Values <- MCExitValues
  Pcs <- MCPcs
  Rams <- MCRams
  Programs <- MCPrograms
  Limits <- MCBatchLimits
  Location <- MCLocation
  Modes <- MCBatch
INVARIANTS
  MonitorTypeOK
  BatchStatusTruthful
  StopsAtNextBoundary
PROPERTY
  BatchTerminates
