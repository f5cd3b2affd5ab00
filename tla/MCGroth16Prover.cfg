SPECIFICATION Spec
CONSTANTS
  Prime = 97
  ByteBits = 2
  WordBytes = 2
  ScalarBytes = 5
  DomainSize = 4
  BasePrime = 103
  XiReal = 2
  U = 1
  UBits = 2
  SixUPlus2Naf <- MCNaf
  G1One <- MCG1One
  G2One <- MCG2One
  NThreads = 5
  NLocks = 2
  Circuits <- MCCircuits
  Witnesses <- MCWitnesses
  Alpha = 5
  Beta = 12
  Gamma = 17
  Delta = 29
  Tau = 6
  Blinds = {0, 1, 23}
  Garbage = 7
  Main = Main
  NoCall = NoCall
INVARIANTS LoopsAreRaceFree SumsAreExact TransformsAreExact AcceptedExactlyWhenSatisfied
