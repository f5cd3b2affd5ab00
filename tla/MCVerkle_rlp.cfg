SPECIFICATION FairSpec
CONSTANTS
  None = None
  TotalBits = 8
  ChunkBits = 2
  ByteBits = 2
  WordBase = 4
  ValueLen = 1
  Modulus = 5
  Keys <- SomeKeys
  Values <- WordLists
  MaxInserts = 2
  MaxCrashes = 0
PROPERTIES ImplementsDurableMap
CHECK_DEADLOCK FALSE
