SPECIFICATION FairSpec
CONSTANTS
  good = good
  good2 = good2
  rejected = rejected
  badjson = badjson
  empty = empty
  Clients = {p1, p2}
  Workers = {w1, w2}
  Inputs = {good}
  Kind <- MCKind
  Circuits = {c1}
  ZKeys = {c1}
  Calculators = {c1}
  None = None
  Empty = Empty
  MaxCancels = 0
  MaxStops = 0
PROPERTIES PollingEnds
CHECK_DEADLOCK FALSE
