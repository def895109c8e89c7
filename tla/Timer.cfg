SPECIFICATION FairSpec
CONSTANTS Elems = {e1,e2}
 Base = 3
 Levels = 3
 Precision = 2
 Durs = {1,7}
 Waits = {7,20}
 Pending = {e2}
 Starts = {5}
 Steps = {2}
 StartBy = 10
 MaxGap = 5
 MaxTime = 40
 None = None
INVARIANTS RefsExact NotLate
PROPERTIES NotEarly AllFire
CHECK_DEADLOCK FALSE
