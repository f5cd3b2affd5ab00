SPECIFICATION Spec
CONSTANTS
  None = None
  TotalBits = 12
  ChunkBits = 3
  ByteBits = 2
  WordBase = 4
  ValueLen = 1
  Modulus = 5
  Keys <- WideKeys
  Values <- Words
  MaxInserts = 3
  MaxCrashes = 1
INVARIANTS RootIsCanonical GetIsExact
PROPERTIES ImplementsDurableMap
CHECK_DEADLOCK FALSE
