SPECIFICATION Spec
CONSTANTS
  XLEN = 8
  Samples <- MCSamples
INVARIANTS
  BitsAreArithmetic
  DecoderInvertsEncoder
  TextReassembles
