SPECIFICATION FairSpec
CONSTANTS
  NThreads = 3
  ChunksPerThread = 2
  Callers = {c1, c2}
  NoJob = NoJob
  Free = Free
  Ranges <- MCRanges
  MaxCalls = 1
INVARIANTS NumbersDiffer JobsInsideCall UnlockedWritesAlone
PROPERTIES ImplementsParallelCall CallsReturn DestructorEnds
CHECK_DEADLOCK FALSE
