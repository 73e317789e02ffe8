SPECIFICATION FairSpec
CONSTANTS
  Tasks = {t1, t2}
  Workers = {w1, w2}
  Callers = {c1}
  Starter = starter
  None = none
  WorkerCount = 1
  MaxCalls = 0
  MaxCrashes = 0
  MaxFaults = 0
  Updates = FALSE
  Timeouts = FALSE
  Outcomes = {"completed", "suspending"}
CHECK_DEADLOCK FALSE
INVARIANT NotStranded
PROPERTY EveryTaskEnds
