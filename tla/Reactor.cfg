\* Waiting for descriptors, with closes, reopened numbers and duplicates.
SPECIFICATION FairSpec
CONSTANTS
  Fds = {1, 2}
  Files = {f1, f2}
  Pollers = {p1, p2}
  Plans <- MCPlans
  Start <- MCStart
  None = None
  f1 = f1
  f2 = f2
  p1 = p1
  p2 = p2
INVARIANTS Covered ClosedEmpty
PROPERTIES UntimedHasEvents ReadyWakes
CHECK_DEADLOCK FALSE
