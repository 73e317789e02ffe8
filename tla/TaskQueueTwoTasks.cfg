SPECIFICATION Spec
CONSTANTS
  Tasks = {t1, t2}
  Workers = {w1, w2, w3}
  Callers = {c1}
  Starter = starter
  None = none
  WorkerCount = 1
  MaxCalls = 1
  MaxCrashes = 0
  MaxFaults = 0
  Updates = FALSE
  Timeouts = FALSE
  Outcomes = {"suspending", "panic"}
CHECK_DEADLOCK FALSE
SYMMETRY Symmetry
INVARIANTS BusyAccounted OneExtraWorker NoLostWakeup WithdrawnNeverRuns
