SPECIFICATION Spec
CONSTANTS
  ByteBase = 32
  MaxSize = 12
  Null = Null
  FileSize = 20
  Content <- MCContent
  Chunk = 2
  Limits <- MCLimits
  FileLengths <- MCFileLengths
  Requests <- MCRequests
  Words <- MCWords
  MaxLines = 5
  FileSizes <- MCFileSizes
  RamSizes <- MCRamSizes
  Entries <- MCEntries
  Headers <- MCHeaders
  MaxSegments = 3
  Count = 2
  Numbers <- MCNumbers
INVARIANTS
  FileIsRead
  ReadersDeliver
  ReadersFailCleanly
  ElfImageInPlace
  ElfRefusesExactly
  ParserStaysInside
PROPERTY
  Returns
