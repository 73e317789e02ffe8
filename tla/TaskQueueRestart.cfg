SPECIFICATION Spec
CONSTANTS
  Tasks = {t1, t2}
  Workers = {w1, w2}
  Callers = {c1}
  Starter = starter
  None = none
  WorkerCount = 1
  MaxCalls = 0
  MaxCrashes = 1
  MaxFaults = 1
  Updates = FALSE
  Timeouts = TRUE
  Outcomes = {"completed", "suspending", "canceled", "error", "panic"}
CHECK_DEADLOCK FALSE
SYMMETRY Symmetry
PROPERTY Implements
