--------------------------- MODULE TaskLifecycle ---------------------------
(***************************************************************************)
(* What the queue promises about one task to whoever reads the task table  *)
(* and to whatever Do touches, with no goroutine, registry or waiting list *)
(* in sight: the row moves along the status machine of pkg/queue/task.go,  *)
(* Do runs only for a row that says "processing" and never twice at once,  *)
(* a row says "completed" or "suspending" only after Do has returned, and  *)
(* a row that has reached its end keeps it. TaskQueue implements this as   *)
(* long as nobody cancels or updates a task from outside.                  *)
(***************************************************************************)
CONSTANT Tasks

VARIABLES
  row,      \* status column, per task
  running   \* tasks whose Do is executing

vars == <<row, running>>

Init == row = [t \in Tasks |-> "new"] /\ running = {}

Write(t, s) == row' = [row EXCEPT ![t] = s] /\ UNCHANGED running

Accept(t) == row[t] = "new" /\ Write(t, "queued")

Begin(t) == row[t] \in {"queued", "suspending"} /\ Write(t, "processing")

Run(t) ==
  /\ row[t] = "processing" /\ t \notin running
  /\ running' = running \cup {t} /\ UNCHANGED row

Return(t) == t \in running /\ running' = running \ {t} /\ UNCHANGED row

Settle(t) ==
  /\ row[t] = "processing" /\ t \notin running
  /\ \E s \in {"suspending", "completed"} : Write(t, s)

\* a timeout leaves Do behind; a row write that failed leaves the row behind
Abandon(t) ==
  /\ row[t] \in {"queued", "processing", "suspending"}
  /\ \E s \in {"error", "canceled"} : Write(t, s)

\* the process ends; the next one queues again what was processing
Lose == running' = {} /\ UNCHANGED row
Requeue(t) == row[t] = "processing" /\ t \notin running /\ Write(t, "queued")

Next ==
  \/ \E t \in Tasks : \/ Accept(t) \/ Begin(t) \/ Run(t) \/ Return(t)
                      \/ Settle(t) \/ Abandon(t) \/ Requeue(t)
  \/ Lose

Spec == Init /\ [][Next]_vars
=============================================================================
