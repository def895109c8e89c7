SPECIFICATION FairSpec
CONSTANTS
  Clients = {c1, c2, c3, c4, c5}
INVARIANTS MutualExclusion
PROPERTIES RefinesMutex
