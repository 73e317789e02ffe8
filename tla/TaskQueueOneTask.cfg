SPECIFICATION Spec
CONSTANTS
  Tasks = {t1}
  Workers = {w1, w2}
  Callers = {c1, c2}
  Starter = starter
  None = none
  WorkerCount = 1
  MaxCalls = 2
  MaxCrashes = 0
  MaxFaults = 0
  Updates = TRUE
  Timeouts = TRUE
  Outcomes = {"completed", "suspending", "canceled", "error", "panic"}
CHECK_DEADLOCK FALSE
SYMMETRY Symmetry
INVARIANTS TypeOK DoExclusive OneCarrier
PROPERTY FinishedNeverStarted
