SPECIFICATION Spec
CONSTANTS
  None = None
  TotalBits = 8
  ChunkBits = 2
  ByteBits = 2
  WordBase = 4
  ValueLen = 1
  Modulus = 5
  Keys <- ZeroKeys
  Values <- ZeroWords
  MaxInserts = 4
  MaxCrashes = 0
INVARIANTS StoreClosed CommitmentsMatch
CHECK_DEADLOCK FALSE
