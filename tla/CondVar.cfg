\* Two coroutines and a native thread wait; timeouts in the second
\* and third scenario, the sweep in all but the first.
SPECIFICATION FairSpec
CONSTANTS
  Coroutines = {c1, c2}
  Threads = {h1}
  Notifiers = {n1, n2}
  Setups <- MCSetups
  None = None
  c1 = c1
  h1 = h1
INVARIANTS OneOutcome SleeperReachable AnsweredAreServed
PROPERTIES ValueAlive RefinesFifoCv CallsEnd
CHECK_DEADLOCK FALSE
