SPECIFICATION Spec
CONSTANTS
  v1 = v1
  v2 = v2
  Nibbles = {0, 1}
  Values = {v1, v2}
  RlpLen <- MixedLen
  HashFn = "keccak"
  MaxDigits = 4
  Keys <- FixedKeys
  MaxInserts = 4
  MaxCrashes = 1
INVARIANTS TypeOK StoreClosed StoreCompressed RootsAgree
PROPERTIES ImplementsDurableMap
CHECK_DEADLOCK FALSE
