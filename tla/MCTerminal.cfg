SPECIFICATION Spec
CONSTANTS
  MaxLength = 7
  LineSize = 4
  Typed <- MCTyped
  MaxOptions = 4
  Bad = Bad
  Absent = Absent
  MaxRam = 256
  SizeModulus = 4096
  DefaultLimit = 100
  DefaultRam = 64
  Options <- MCOptions
  Unit <- MCUnit
  Amount <- MCAmount
  Longest = 6
  ReadLimit = 5
  LineLimit = 3
  MaxUnsigned = 11
  FileCount = 2
  Files <- MCFiles
  LineNumbers <- MCLineNumbers
INVARIANTS
  InputIsObeyed
  SetupSound
  ShowsSource
PROPERTY
  LeavesAtEnd
