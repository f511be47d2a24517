SPECIFICATION MonitorSpec
CONSTANTS
  ByteBase = 2
  MaxSize = 8
  CountModulus = 3
  MaxSignals = 1
  r0 = r0
  line = line
  Null = Null
  NoLine = NoLine
  Registers <- MCRegisters
  Values <- MCValues
  Pcs <- MCPcs
  Rams <- MCRams
  Programs <- MCPrograms
  Limits <- MCLimits
  Location <- MCLocation
  Modes <- MCInteractive
INVARIANTS
  PromptIsCurrent
PROPERTIES
  LabelIsTruthful
  EveryRunReturns
