SPECIFICATION Spec
CONSTANTS
  RamSize = 3
  Addresses <- MCAddresses
  LineNumbers <- MCLineNumbers
  MaxRows = 4
  First = 1
  MaxRecords = 2
  Top = 4
  MaxRanges = 4
  LookedUp <- MCLookedUp
  Tables <- MCTables
INVARIANTS
  TableOfRows
  FindsLastCovering
  LookupNamesRow
