SPECIFICATION FairSpec
CONSTANTS
  Procs = {p1}
  Tasks = {t1, t2}
  Natives = {n1}
  Wakers = {p1, n1}
  Spurious = TRUE
  Drops = TRUE
  SelfWake = TRUE
  IdMod = 2
  GcLimit = 0
  StealSizes = {}
  Victims = {}
  Receivers = {}
  Stoppable = TRUE
  None = None
CHECK_DEADLOCK FALSE
INVARIANTS TypeOK
PROPERTIES StopTerminates QueuedTaskRuns
