SPECIFICATION TrySpec
CONSTANTS
  Clients = {c1, c2, c3}
INVARIANTS MutualExclusion
