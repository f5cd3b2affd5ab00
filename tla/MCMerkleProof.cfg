SPECIFICATION Spec
CONSTANTS
  v1 = v1
  v2 = v2
  Nibbles = {0, 1}
  Values = {v1, v2}
  RlpLen <- LongLen
  HashFn = "keccak"
  MaxDigits = 4
  Keys <- PrefixKeys
  MaxInserts = 4
  MaxCrashes = 0
INVARIANTS RootIsCanonical GetIsExact HonestProofsVerify VerifiedValuesAreHeld OptimizedAgrees
CHECK_DEADLOCK FALSE
