SPECIFICATION FairSpec
CONSTANTS
  Workers = {w1, w2, w3}
  Clients = {w1, w2, w3, r}
  Conns = {n1, n2, n3, n4, n5}
  Options <- MCOptions
  Jobs = {1, 2, 3}
  Points = {1, 2, 3}
  MaxCallbackPoints = 2
  RobinWrap = 2
  None = None
  Nil = Nil
  w1 = w1
  w2 = w2
  w3 = w3
  r = r
INVARIANTS CountExact OneOwner CallbackOnce
PROPERTIES GetReturns CallbacksRun
CHECK_DEADLOCK FALSE
