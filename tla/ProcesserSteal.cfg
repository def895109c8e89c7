SPECIFICATION Spec
CONSTANTS
  Procs = {p1, p2}
  Tasks = {t1, t2}
  Natives = {n1}
  Wakers = {n1, p2}
  Spurious = FALSE
  Drops = FALSE
  SelfWake = TRUE
  IdMod = 4
  GcLimit = 0
  StealSizes = {1}
  Victims = {p1}
  Receivers = {p2}
  Stoppable = FALSE
  None = None
SYMMETRY TaskSymmetry
CONSTRAINT FewSuspensions
CHECK_DEADLOCK FALSE
INVARIANTS OnePlace RunsOnce StealErasesLinked EntryValidIffWaiting NoLostWakeup
