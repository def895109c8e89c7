SPECIFICATION FairSpec
CONSTANTS
  Clients = {c1, c2, h1, h2}
  Threads = {h1, h2}
  MaxCalls = 1
  Dead = Dead
INVARIANTS Exclusion
PROPERTIES CallsReturn
CHECK_DEADLOCK FALSE
