SPECIFICATION FairSpec
CONSTANTS
  good = good
  good2 = good2
  rejected = rejected
  badjson = badjson
  empty = empty
  Clients = {p1, p2}
  Workers = {w1, w2}
  Inputs = {good, good2, rejected, badjson, empty}
  Kind <- MCKind
  Circuits = {c1, c2}
  ZKeys = {c1}
  Calculators = {c1, c2}
  None = None
  Empty = Empty
  MaxCancels = 1
  MaxStops = 1
INVARIANTS OneCalculation CancelStaysWithItsRun SuccessProvesAccepted
PROPERTIES GoodInputsAreProved PollingEndsOrDeadlock
CHECK_DEADLOCK FALSE
