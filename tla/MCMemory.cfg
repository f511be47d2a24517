SPECIFICATION SpecAll
CONSTANTS
  ByteBase = 2
  MaxSize = 8
  o1 = o1
  o2 = o2
  b1 = b1
  b2 = b2
  b3 = b3
  b4 = b4
  b5 = b5
  program = program
  ram = ram
  pristine = pristine
  nextRam = nextRam
  nextPristine = nextPristine
  Null = Null
  Programs <- MCPrograms
  Ram <- ram
  Pristine <- pristine
  NextRam <- nextRam
  NextPristine <- nextPristine
  Owners <- MCOwners
  Blocks <- MCBlocks
  Sizes <- MCSizes
  Addresses <- MCAddresses
  Values <- MCValues
SYMMETRY Symmetric
INVARIANTS
  TypeOK
  HeapSound
  LoadIsAllOrNothing
PROPERTY
  ImplementsValue
