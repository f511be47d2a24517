SPECIFICATION Spec
CONSTANTS
  RamSize = 6
  ByteModulus = 8
  WordSize = 2
  Contents <- MCContents
  Values <- MCValues
  MaxCommands = 4
INVARIANTS
  CallsAsPromised
  ArtifactsAccounted
