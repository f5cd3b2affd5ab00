SPECIFICATION Spec
CONSTANTS
  None = None
  Raised = Raised
  TotalBits = 8
  ChunkBits = 2
  ByteBits = 2
  WordBase = 4
  ValueLen = 1
  Modulus = 5
  Keys <- SomeKeys
  Values <- Words
  MaxInserts = 3
  MaxCrashes = 0
INVARIANTS HonestProofsVerify VerifiedValuesAreHeld OptimizedAgrees
CHECK_DEADLOCK FALSE
