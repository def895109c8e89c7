\* LockedChannelImpl: three pushes and three pops, one of each not waiting, with and
\* without deadlines.  CASChannelImpl, with capacities 0 and 1: four of them.
SPECIFICATION ChanSpec
CONSTANTS
  Pushes = {w1, w2, w3}
  Pops = {r1, r2, r3}
  Waiting = {w1, w2, r1, r2}
  Deadlines = {{}, {w1, r1}}
  Capacities = {0, 1, 2}
  Choices = {0, 2}
  CasCalls = {{w1, w3, r1}, {w1, w2, r1, r3}}
  Closable = TRUE
  Word = 8
  Starts = {0, 6}
  None = None
INVARIANTS SlotsMatch Fifo TrueIsReal NoneStranded AtMostOnce
CHECK_DEADLOCK FALSE
PROPERTIES WaitsEnd
