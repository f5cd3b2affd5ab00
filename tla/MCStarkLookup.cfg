SPECIFICATION Spec
CONSTANTS
  HalfBits = 4
  Lookups <- SomeLookups
  Params <- SomeParams
  MinSecurity = 80
  MinQueries = 1
  FinalBound = 2
  HashValues = {3, 200}
  HashNumbers = {0, 3, 5, 8}
  MaxAttempts = 4
  Nothing = Nothing
INVARIANTS HonestLookupsVerify VerifierFollowsProver ProofIsAsPromised
CHECK_DEADLOCK FALSE
