SPECIFICATION FairSpec
CONSTANTS
  Tasks = {s1, a, b}
  Stuck = {s1}
  Sleepers = {a}
  MinThreads = {1,2}
  Late = {a}
  MaxThreadNumber = 2
  Native = Native
  None = None
INVARIANTS Conserved ActiveBound
PROPERTIES EveryTaskRuns
CHECK_DEADLOCK FALSE
