----------------------------- MODULE TaskQueue -----------------------------
(***************************************************************************)
(* The background task queue of pkg/queue: its start loop, its waiting     *)
(* list (scheduler.go), its worker goroutines, the status machine of a     *)
(* task (task.go) and the task table it persists to (inventory/task.go).   *)
(*                                                                         *)
(* A step is what one goroutine does between two points where another one  *)
(* can interfere: reading a status, writing it in memory and writing it to *)
(* the database are three steps, as they are in transitStatus, because     *)
(* nothing in the code makes them one.                                     *)
(*                                                                         *)
(* Agents: one worker goroutine per element of Workers (a slot is reused   *)
(* once its goroutine is gone), one HTTP handler per element of Callers,   *)
(* and Starter, the goroutine of Start that resumes tasks from the         *)
(* database and then hands tasks to workers.                               *)
(***************************************************************************)
EXTENDS Integers, Sequences, FiniteSets

CONSTANTS
  Tasks,        \* task ids
  Workers,      \* goroutines that run queue.work
  Callers,      \* goroutines that call QueueTask, CancelTask, UpdateTask
  Starter,      \* the goroutine of queue.Start
  None,         \* no task, no worker
  WorkerCount,  \* options.workerCount
  MaxCalls,     \* bound: calls of CancelTask and UpdateTask
  MaxCrashes,   \* bound: restarts of the process
  MaxFaults,    \* bound: failed database writes
  Updates,      \* are there calls of UpdateTask
  Outcomes,     \* what a run of Do may come to
  Timeouts      \* may a run of Do outlast maxTaskExecution

ASSUME QueueAssumption ==
  /\ WorkerCount \in Nat \ {0}
  /\ MaxCalls \in Nat /\ MaxCrashes \in Nat /\ MaxFaults \in Nat
  /\ Updates \in BOOLEAN /\ Timeouts \in BOOLEAN
  /\ Outcomes \subseteq {"completed", "suspending", "canceled", "error", "panic"}
  /\ IsFiniteSet(Workers)
  /\ Workers \cap Callers = {} /\ Starter \notin Workers \cup Callers
  /\ None \notin Tasks \cup Workers

Agents == Workers \cup Callers \cup {Starter}

\* task.Status; "new" is the empty status of a task that has no row yet
Active == {"queued", "processing", "suspending"}
Terminal == {"completed", "error", "canceled"}
Status == {"new"} \cup Active \cup Terminal

\* stateTransitions: the pairs with an entry
Transitions ==
  {<<"new", "queued">>}
  \cup ({"queued"} \X {"queued", "processing", "error", "canceled"})
  \cup ({"processing"} \X (Status \ {"new"}))
  \cup ({"suspending"} \X {"processing", "error", "canceled"})

\* the transitions that drop the task from the registry before persisting
Deregisters(from, to) ==
  \/ from = "processing" /\ to \in Terminal
  \/ from \in {"queued", "suspending"} /\ to = "canceled"

VARIABLES
  status,         \* Task.Status of the task object in memory
  db,             \* status column of the task's row
  due,            \* tasks whose ResumeTime has passed
  stack,          \* fifoScheduler.taskQueue without its two nil entries
  registry,       \* ids in the taskRegistry
  activeCancels,  \* queue.activeCancels: task -> worker whose context it cancels
  activeCanceled, \* queue.activeCanceled
  dead,           \* workers whose context was cancelled
  executing,      \* workers whose Do has not returned
  busy,           \* metric.busyWorkers
  ready,          \* the token in queue.ready
  stopped,        \* queue.stopFlag, scheduler.stopFlag, quit closed
  toResume,       \* rows read by GetPendingTasks and not yet queued
  pc, frame,      \* where each agent is and what it is working on
  withdrawn,      \* history: CancelTask returned nil for a waiting task
  aborted,        \* history: CancelTask returned nil for a processing task
  calls, crashes, faults

memory == <<status, due, registry>>
control == <<activeCancels, activeCanceled, dead>>
loop == <<busy, ready>>
history == <<withdrawn, aborted>>
bounds == <<calls, crashes, faults>>
vars == <<status, db, due, stack, registry, activeCancels, activeCanceled,
          dead, executing, busy, ready, stopped, toResume, pc, frame,
          withdrawn, aborted, calls, crashes, faults>>

PCs == {"idle", "lookup", "assign", "exec", "enqueue", "push", "set",
        "register", "iterate", "run", "check", "done", "panicked",
        "schedule", "unregister", "drain", "signal", "remove", "update",
        "resume", "loop", "wait", "request", "locked", "dispatch"}
Returns == {"none", "iterate", "enqueue", "push", "done", "schedule",
            "withdrawn", "aborted", "updated"}
Frame == [task : Tasks \cup {None}, to : Status, ret : Returns]

NoFrame == [task |-> None, to |-> "new", ret |-> "none"]

\* Every variable has its type. What could go wrong is busyWorkers, an
\* unsigned counter that DecBusyWorker must never take below zero.
TypeOK ==
  /\ status \in [Tasks -> Status] /\ db \in [Tasks -> Status]
  /\ due \subseteq Tasks /\ registry \subseteq Tasks
  /\ stack \in Seq(Tasks)
  /\ activeCancels \in [Tasks -> Workers \cup {None}]
  /\ activeCanceled \subseteq Tasks
  /\ dead \subseteq Workers /\ executing \subseteq Workers
  /\ busy \in Nat /\ ready \in BOOLEAN /\ stopped \in BOOLEAN
  /\ toResume \subseteq Tasks
  /\ pc \in [Agents -> PCs] /\ frame \in [Agents -> Frame]
  /\ withdrawn \subseteq Tasks /\ aborted \subseteq Tasks
  /\ calls \in Nat /\ crashes \in Nat /\ faults \in Nat

(***************************************************************************)
(* A process that has just started: no task object, the rows of the        *)
(* pending tasks to be resumed.                                            *)
(***************************************************************************)
Pending(rows) == {t \in Tasks : rows[t] \in Active}

Init ==
  /\ status = [t \in Tasks |-> "new"] /\ db = [t \in Tasks |-> "new"]
  /\ due = Tasks /\ stack = <<>> /\ registry = {}
  /\ activeCancels = [t \in Tasks |-> None] /\ activeCanceled = {}
  /\ dead = {} /\ executing = {} /\ busy = 0 /\ ready = FALSE
  /\ stopped = FALSE /\ toResume = {}
  /\ pc = [a \in Agents |-> IF a = Starter THEN "resume" ELSE "idle"]
  /\ frame = [a \in Agents |-> NoFrame]
  /\ withdrawn = {} /\ aborted = {}
  /\ calls = 0 /\ crashes = 0 /\ faults = 0

Resting == {"idle", "resume"}

Goto(a, p) ==
  /\ pc' = [pc EXCEPT ![a] = p]
  /\ frame' = IF p \in Resting THEN [frame EXCEPT ![a] = NoFrame] ELSE frame

\* a starts transitStatus(t, to) and goes on at r
Transit(a, t, to, r) ==
  /\ frame' = [frame EXCEPT ![a] = [task |-> t, to |-> to, ret |-> r]]
  /\ pc' = [pc EXCEPT ![a] = "lookup"]

\* where an agent is when its call has returned
Home(a) == IF a \in Workers THEN "done"
           ELSE IF a = Starter THEN "resume" ELSE "idle"

\* where transitStatus returns to: a failure of the transition to processing
\* panics, a failure before scheduler.Queue returns from QueueTask, every
\* other failure is ignored by the caller
Continue(a, ok) ==
  CASE frame[a].ret = "iterate"  -> IF ok THEN "iterate" ELSE "panicked"
    [] frame[a].ret = "enqueue"  -> IF ok THEN "enqueue" ELSE Home(a)
    [] frame[a].ret = "push"     -> IF ok THEN "push" ELSE Home(a)
    [] frame[a].ret = "schedule" -> "schedule"
    [] OTHER                     -> Home(a)

(***************************************************************************)
(* transitStatus, one step per point where another agent can come between. *)
(***************************************************************************)

\* read the status, look the transition up, run its cleanup
Lookup(a) ==
  LET t == frame[a].task  to == frame[a].to IN
  /\ pc[a] = "lookup"
  /\ \/ /\ <<status[t], to>> \notin Transitions
        /\ Goto(a, Continue(a, FALSE))
        /\ UNCHANGED registry
     \/ /\ status[t] = "queued" /\ to = "queued"
        /\ Goto(a, Continue(a, TRUE))
        /\ UNCHANGED registry
     \/ /\ <<status[t], to>> \in Transitions \ {<<"queued", "queued">>}
        /\ registry' = IF Deregisters(status[t], to)
                       THEN registry \ {t} ELSE registry
        /\ Goto(a, "assign")
  /\ UNCHANGED <<status, db, due, stack, control, executing, loop, stopped,
                 toResume, history, bounds>>

\* taskClient.Update writes the task object before it executes the statement
Assign(a) ==
  /\ pc[a] = "assign"
  /\ status' = [status EXCEPT ![frame[a].task] = frame[a].to]
  /\ Goto(a, "exec")
  /\ UNCHANGED <<db, due, stack, registry, control, executing, loop, stopped,
                 toResume, history, bounds>>

\* the context a goroutine hands to the database: a worker's is cancelled by
\* CancelTask and, with rootCtx, by Shutdown
ContextDone(a) == a \in Workers /\ (a \in dead \/ stopped)

Exec(a) ==
  LET t == frame[a].task IN
  /\ pc[a] = "exec"
  /\ \/ /\ ~ContextDone(a)
        /\ db' = [db EXCEPT ![t] = frame[a].to]
        /\ withdrawn' = IF frame[a].ret = "withdrawn"
                        THEN withdrawn \cup {t} ELSE withdrawn
        /\ aborted' = IF frame[a].ret = "aborted"
                      THEN aborted \cup {t} ELSE aborted
        /\ Goto(a, Continue(a, TRUE))
        /\ UNCHANGED faults
     \/ /\ ContextDone(a) \/ faults < MaxFaults
        /\ faults' = IF ContextDone(a) THEN faults ELSE faults + 1
        /\ Goto(a, Continue(a, FALSE))
        /\ UNCHANGED <<db, history>>
  /\ UNCHANGED <<memory, stack, control, executing, loop, stopped, toResume,
                 calls, crashes>>

(***************************************************************************)
(* QueueTask for a task that has a row; Submit is the call for a new one.  *)
(***************************************************************************)
Enqueue(a) ==
  /\ pc[a] = "enqueue"
  /\ \/ stopped /\ Goto(a, Home(a))
     \/ ~stopped /\ status[frame[a].task] = "suspending" /\ Goto(a, "push")
     \/ /\ ~stopped /\ status[frame[a].task] # "suspending"
        /\ Transit(a, frame[a].task, "queued", "push")
  /\ UNCHANGED <<memory, db, stack, control, executing, loop, stopped,
                 toResume, history, bounds>>

\* scheduler.Queue
Push(a) ==
  /\ pc[a] = "push"
  /\ \/ stopped /\ Goto(a, Home(a)) /\ UNCHANGED stack
     \/ ~stopped /\ Goto(a, "set") /\ stack' = Append(stack, frame[a].task)
  /\ UNCHANGED <<memory, db, control, executing, loop, stopped, toResume,
                 history, bounds>>

\* registry.Set, after the task has become visible to the start loop
SetRegistry(a) ==
  /\ pc[a] = "set"
  /\ registry' = registry \cup {frame[a].task}
  /\ Goto(a, Home(a))
  /\ UNCHANGED <<status, db, due, stack, control, executing, loop, stopped,
                 toResume, history, bounds>>

Submit(c, t) ==
  /\ pc[c] = "idle" /\ db[t] = "new" /\ ~stopped
  /\ status' = [status EXCEPT ![t] = "queued"]
  /\ db' = [db EXCEPT ![t] = "queued"]
  /\ frame' = [frame EXCEPT ![c] = [task |-> t, to |-> "queued", ret |-> "push"]]
  /\ pc' = [pc EXCEPT ![c] = "push"]
  /\ UNCHANGED <<due, stack, registry, control, executing, loop, stopped,
                 toResume, history, bounds>>

(***************************************************************************)
(* CancelTask and UpdateTask of an HTTP handler that found t in the        *)
(* registry. Calls that return an error at once change nothing.            *)
(***************************************************************************)
Cancel(c, t) ==
  /\ pc[c] = "idle" /\ t \in registry /\ calls < MaxCalls
  /\ status[t] \in Active
  /\ pc' = [pc EXCEPT ![c] = IF status[t] = "processing"
                             THEN "signal" ELSE "remove"]
  /\ frame' = [frame EXCEPT ![c] = [NoFrame EXCEPT !.task = t]]
  /\ calls' = calls + 1
  /\ UNCHANGED <<memory, db, stack, control, executing, loop, stopped,
                 toResume, history, crashes, faults>>

\* cancelActiveWorker
Signal(c) ==
  LET t == frame[c].task IN
  /\ pc[c] = "signal"
  /\ \/ activeCancels[t] = None /\ UNCHANGED control
     \/ /\ activeCancels[t] # None
        /\ activeCanceled' = activeCanceled \cup {t}
        /\ dead' = dead \cup {activeCancels[t]}
        /\ UNCHANGED activeCancels
  /\ Transit(c, t, "canceled", "aborted")
  /\ UNCHANGED <<memory, db, stack, executing, loop, stopped, toResume,
                 history, bounds>>

Waiting(t) == \E i \in DOMAIN stack : stack[i] = t

\* s without its element i
Without(s, i) ==
  [j \in 1 .. Len(s) - 1 |-> IF j < i THEN s[j] ELSE s[j + 1]]

\* Mutant: Remove reports the task as removed and leaves it waiting.
RemoveLeavesTask(c) ==
  LET t == frame[c].task IN
  /\ pc[c] = "remove"
  /\ \/ ~stopped /\ Waiting(t) /\ Transit(c, t, "canceled", "withdrawn")
     \/ (stopped \/ ~Waiting(t)) /\ Goto(c, "idle")
  /\ UNCHANGED <<memory, db, stack, control, executing, loop, stopped,
                 toResume, history, bounds>>

\* scheduler.Remove, searching from the top
Remove(c) ==
  LET t == frame[c].task IN
  /\ pc[c] = "remove"
  /\ \/ /\ ~stopped
        /\ \E i \in DOMAIN stack :
             /\ stack[i] = t /\ \A j \in DOMAIN stack : j > i => stack[j] # t
             /\ stack' = Without(stack, i)
        /\ Transit(c, t, "canceled", "withdrawn")
     \/ (stopped \/ ~Waiting(t)) /\ Goto(c, "idle") /\ UNCHANGED stack
  /\ UNCHANGED <<memory, db, control, executing, loop, stopped, toResume,
                 history, bounds>>

\* getOwnedActiveDownloadTask: the task must be processing or suspending. One
\* that the registry does not have is loaded into an object of its own, which
\* no other goroutine changes.
Update(c, t) ==
  /\ Updates /\ pc[c] = "idle" /\ calls < MaxCalls
  /\ \/ /\ t \in registry /\ status[t] \in {"processing", "suspending"}
        /\ pc' = [pc EXCEPT ![c] = "update"]
        /\ frame' = [frame EXCEPT ![c] = [NoFrame EXCEPT !.task = t]]
     \/ /\ t \notin registry /\ db[t] \in {"processing", "suspending"}
        /\ pc' = [pc EXCEPT ![c] = "exec"]
        /\ frame' = [frame EXCEPT ![c] =
                       [task |-> t, to |-> db[t], ret |-> "updated"]]
  /\ calls' = calls + 1
  /\ UNCHANGED <<memory, db, stack, control, executing, loop, stopped,
                 toResume, history, crashes, faults>>

\* UpdateTask of the shared object: the status to persist is read again, apart
\* from the check of the handler, and written later
ReadStatus(c) ==
  LET t == frame[c].task IN
  /\ pc[c] = "update"
  /\ frame' = [frame EXCEPT ![c] =
                  [task |-> t, to |-> status[t], ret |-> "updated"]]
  /\ pc' = [pc EXCEPT ![c] = "assign"]
  /\ UNCHANGED <<memory, db, stack, control, executing, loop, stopped,
                 toResume, history, bounds>>

(***************************************************************************)
(* The start loop and its requester goroutine, of which there is one at a  *)
(* time because the loop waits for its task.                               *)
(***************************************************************************)
Resume(t) ==
  /\ pc[Starter] = "resume" /\ t \in toResume
  /\ toResume' = toResume \ {t}
  /\ status' = [status EXCEPT ![t] = db[t]]
  /\ frame' = [frame EXCEPT ![Starter] = [NoFrame EXCEPT !.task = t]]
  /\ pc' = [pc EXCEPT ![Starter] = "enqueue"]
  /\ UNCHANGED <<db, due, stack, registry, control, executing, loop, stopped,
                 history, bounds>>

EnterLoop ==
  /\ pc[Starter] = "resume" /\ toResume = {}
  /\ Goto(Starter, "loop")
  /\ UNCHANGED <<memory, db, stack, control, executing, loop, stopped,
                 toResume, history, bounds>>

\* Mutant: the token is put whatever the number of busy workers.
PutReadyAlways == ready' = TRUE

\* queue.schedule, called under the queue's lock by the loop and by workers
PutReady == ready' = (ready \/ busy < WorkerCount)

LoopSchedule ==
  /\ pc[Starter] = "loop"
  /\ PutReady
  /\ Goto(Starter, "wait")
  /\ UNCHANGED <<memory, db, stack, control, executing, busy, stopped,
                 toResume, history, bounds>>

LoopWait ==
  /\ pc[Starter] = "wait"
  /\ \/ ready /\ ready' = FALSE /\ Goto(Starter, "request")
     \/ stopped /\ Goto(Starter, "idle") /\ UNCHANGED ready
  /\ UNCHANGED <<memory, db, stack, control, executing, busy, stopped,
                 toResume, history, bounds>>

\* Request up to its lock: the count is read without it. With an empty
\* stack the requester sleeps and tries again, which is no step here.
Request ==
  /\ pc[Starter] = "request"
  /\ \/ stopped /\ Goto(Starter, "idle")
     \/ ~stopped /\ stack # <<>> /\ Goto(Starter, "locked")
  /\ UNCHANGED <<memory, db, stack, control, executing, loop, stopped,
                 toResume, history, bounds>>

Top == stack[Len(stack)]

\* Mutant: Request hands the top task out and leaves it on the stack.
PopKeepsTask ==
  /\ pc[Starter] = "locked" /\ stack # <<>>
  /\ \/ Top \notin due /\ Goto(Starter, "request")
     \/ /\ Top \in due
        /\ pc' = [pc EXCEPT ![Starter] = "dispatch"]
        /\ frame' = [frame EXCEPT ![Starter] = [NoFrame EXCEPT !.task = Top]]
  /\ UNCHANGED <<memory, db, stack, control, executing, loop, stopped,
                 toResume, history, bounds>>

\* Request from its lock: only the last task queued is looked at
Pop ==
  /\ pc[Starter] = "locked" /\ stack # <<>>
  /\ \/ Top \notin due /\ Goto(Starter, "request") /\ UNCHANGED stack
     \/ /\ Top \in due
        /\ stack' = SubSeq(stack, 1, Len(stack) - 1)
        /\ pc' = [pc EXCEPT ![Starter] = "dispatch"]
        /\ frame' = [frame EXCEPT ![Starter] = [NoFrame EXCEPT !.task = Top]]
  /\ UNCHANGED <<memory, db, control, executing, loop, stopped, toResume,
                 history, bounds>>

\* Mutant: the loop starts the goroutine and forgets IncBusyWorker.
DispatchUncounted(w) ==
  /\ pc[Starter] = "dispatch" /\ pc[w] = "idle"
  /\ pc' = [pc EXCEPT ![Starter] = "loop", ![w] = "register"]
  /\ frame' = [frame EXCEPT ![Starter] = NoFrame, ![w] = frame[Starter]]
  /\ UNCHANGED <<memory, db, stack, control, executing, loop, stopped,
                 toResume, history, bounds>>

Dispatch(w) ==
  /\ pc[Starter] = "dispatch" /\ pc[w] = "idle"
  /\ busy' = busy + 1
  /\ pc' = [pc EXCEPT ![Starter] = "loop", ![w] = "register"]
  /\ frame' = [frame EXCEPT ![Starter] = NoFrame, ![w] = frame[Starter]]
  /\ UNCHANGED <<memory, db, stack, control, executing, ready, stopped,
                 toResume, history, bounds>>

(***************************************************************************)
(* queue.work and queue.run of the goroutine in slot w.                    *)
(***************************************************************************)
Register(w) ==
  LET t == frame[w].task IN
  /\ pc[w] = "register"
  /\ activeCancels' = [activeCancels EXCEPT ![t] = w]
  /\ activeCanceled' = activeCanceled \ {t}
  /\ Transit(w, t, "processing", "iterate")
  /\ UNCHANGED <<memory, db, stack, dead, executing, loop, stopped, toResume,
                 history, bounds>>

StartDo(w) ==
  /\ pc[w] = "iterate"
  /\ executing' = executing \cup {w}
  /\ Goto(w, "run")
  /\ UNCHANGED <<memory, db, stack, control, loop, stopped, toResume,
                 history, bounds>>

\* Do returns while run waits for it. A failure that is retried comes out as
\* "suspending", any other as "error": which of the two is left open
\* (maxRetry - Retried). A suspended task may be due at once or later.
DoReturns(w, next, later) ==
  LET t == frame[w].task IN
  /\ pc[w] = "run" /\ w \in executing
  /\ later => next = "suspending"
  /\ executing' = executing \ {w}
  /\ due' = IF later THEN due \ {t} ELSE due
  /\ frame' = [frame EXCEPT ![w].to = next]
  /\ pc' = [pc EXCEPT ![w] = "check"]
  /\ UNCHANGED <<status, db, stack, registry, control, loop, stopped,
                 toResume, history, bounds>>

DoPanics(w) ==
  /\ pc[w] = "run" /\ w \in executing /\ "panic" \in Outcomes
  /\ executing' = executing \ {w}
  /\ Goto(w, "panicked")
  /\ UNCHANGED <<memory, db, stack, control, loop, stopped, toResume,
                 history, bounds>>

\* Mutant: a run that is out of time is put off like a failed one.
ContextEndsRetried(w) ==
  /\ pc[w] = "run"
  /\ ContextDone(w) \/ Timeouts
  /\ frame' = [frame EXCEPT ![w].to = "suspending"]
  /\ pc' = [pc EXCEPT ![w] = "check"]
  /\ UNCHANGED <<memory, db, stack, control, executing, loop, stopped,
                 toResume, history, bounds>>

\* run gives up on the context: cancelled, shut down or out of time. The
\* goroutine of Do is left behind.
ContextEnds(w) ==
  LET t == frame[w].task IN
  /\ pc[w] = "run"
  /\ ContextDone(w) \/ Timeouts
  /\ frame' = [frame EXCEPT ![w].to = IF t \in activeCanceled
                                      THEN "canceled" ELSE "error"]
  /\ pc' = [pc EXCEPT ![w] = "check"]
  /\ UNCHANGED <<memory, db, stack, control, executing, loop, stopped,
                 toResume, history, bounds>>

DoEndsLate(w) ==
  /\ w \in executing /\ pc[w] # "run"
  /\ executing' = executing \ {w}
  /\ Goto(w, IF pc[w] = "drain" THEN "idle" ELSE pc[w])
  /\ UNCHANGED <<memory, db, stack, control, loop, stopped, toResume,
                 history, bounds>>

\* Mutant: a suspended task is persisted and not queued again.
CheckCanceledNoRequeue(w) ==
  LET t == frame[w].task IN
  /\ pc[w] = "check"
  /\ \/ /\ t \in activeCanceled \/ status[t] = "canceled"
        /\ Goto(w, "done")
     \/ /\ t \notin activeCanceled /\ status[t] # "canceled"
        /\ Transit(w, t, frame[w].to, "done")
  /\ UNCHANGED <<memory, db, stack, control, executing, loop, stopped,
                 toResume, history, bounds>>

\* work after run: a cancelled task is left to the caller of CancelTask. No
\* Do of the repository asks for another iteration at once, so the loop of
\* work ends here.
CheckCanceled(w) ==
  LET t == frame[w].task  next == frame[w].to IN
  /\ pc[w] = "check"
  /\ \/ /\ t \in activeCanceled \/ status[t] = "canceled"
        /\ Goto(w, "done")
     \/ /\ t \notin activeCanceled /\ status[t] # "canceled"
        /\ Transit(w, t, next, IF next = "suspending"
                               THEN "enqueue" ELSE "done")
  /\ UNCHANGED <<memory, db, stack, control, executing, loop, stopped,
                 toResume, history, bounds>>

\* the deferred calls of work, the last one first
Done(w) ==
  /\ pc[w] = "done"
  /\ busy' = busy - 1
  /\ Goto(w, "schedule")
  /\ UNCHANGED <<memory, db, stack, control, executing, ready, stopped,
                 toResume, history, bounds>>

\* Mutant: a goroutine that panicked is not taken off the busy ones.
RecoverCounted(w) ==
  /\ pc[w] = "panicked"
  /\ Transit(w, frame[w].task, "error", "schedule")
  /\ UNCHANGED <<memory, db, stack, control, executing, loop, stopped,
                 toResume, history, bounds>>

Recover(w) ==
  /\ pc[w] = "panicked"
  /\ busy' = busy - 1
  /\ Transit(w, frame[w].task, "error", "schedule")
  /\ UNCHANGED <<memory, db, stack, control, executing, ready, stopped,
                 toResume, history, bounds>>

\* Mutant: a worker ends without telling the start loop.
RescheduleSilently(w) ==
  /\ pc[w] = "schedule"
  /\ Goto(w, "unregister")
  /\ UNCHANGED <<memory, db, stack, control, executing, loop, stopped,
                 toResume, history, bounds>>

Reschedule(w) ==
  /\ pc[w] = "schedule"
  /\ PutReady
  /\ Goto(w, "unregister")
  /\ UNCHANGED <<memory, db, stack, control, executing, busy, stopped,
                 toResume, history, bounds>>

Unregister(w) ==
  LET t == frame[w].task IN
  /\ pc[w] = "unregister"
  /\ activeCancels' = [activeCancels EXCEPT ![t] = None]
  /\ activeCanceled' = activeCanceled \ {t}
  /\ dead' = dead \ {w}
  /\ Goto(w, IF w \in executing THEN "drain" ELSE "idle")
  /\ UNCHANGED <<memory, db, stack, executing, loop, stopped, toResume,
                 history, bounds>>

(***************************************************************************)
(* Time, and the life of the process.                                      *)
(***************************************************************************)
ResumeTimePasses(t) ==
  /\ t \notin due
  /\ due' = due \cup {t}
  /\ UNCHANGED <<status, db, stack, registry, control, executing, loop,
                 stopped, toResume, pc, frame, history, bounds>>

Shutdown ==
  /\ ~stopped /\ crashes < MaxCrashes
  /\ stopped' = TRUE
  /\ UNCHANGED <<memory, db, stack, control, executing, loop, toResume, pc,
                 frame, history, bounds>>

\* the memory of the process is gone, the rows and their resume times stay
Reboot ==
  /\ status' = [t \in Tasks |-> "new"]
  /\ due' = due \cup {t \in Tasks : db[t] # "suspending"}
  /\ stack' = <<>> /\ registry' = {}
  /\ activeCancels' = [t \in Tasks |-> None] /\ activeCanceled' = {}
  /\ dead' = {} /\ executing' = {} /\ busy' = 0 /\ ready' = FALSE
  /\ stopped' = FALSE /\ toResume' = Pending(db)
  /\ pc' = [a \in Agents |-> IF a = Starter THEN "resume" ELSE "idle"]
  /\ frame' = [a \in Agents |-> NoFrame]
  /\ UNCHANGED <<db, history, calls, faults>>

\* the process ends, after Shutdown or without it, and is started again
Restart == crashes < MaxCrashes /\ crashes' = crashes + 1 /\ Reboot

\* Request takes the nil entry below the tasks for a task: the panic is
\* recovered nowhere and ends the process
NilTask == pc[Starter] = "locked" /\ stack = <<>> /\ UNCHANGED crashes /\ Reboot

TransitStep(a) ==
  Lookup(a) \/ Assign(a) \/ Exec(a) \/ Enqueue(a) \/ Push(a) \/ SetRegistry(a)

HandlerStep(c) ==
  TransitStep(c) \/ Signal(c) \/ Remove(c) \/ ReadStatus(c)

StarterStep ==
  \/ TransitStep(Starter)
  \/ \E t \in Tasks : Resume(t)
  \/ EnterLoop \/ LoopSchedule \/ LoopWait \/ Request \/ Pop
  \/ \E w \in Workers : Dispatch(w)

WorkerStep(w) ==
  \/ TransitStep(w)
  \/ Register(w) \/ StartDo(w) \/ CheckCanceled(w) \/ Done(w)
  \/ Recover(w) \/ Reschedule(w) \/ Unregister(w) \/ DoEndsLate(w)

DoStep(w) ==
  \/ \E next \in Outcomes \ {"panic"}, later \in BOOLEAN : DoReturns(w, next, later)
  \/ DoPanics(w) \/ ContextEnds(w)

Next ==
  \/ \E c \in Callers : HandlerStep(c)
  \/ \E c \in Callers, t \in Tasks : Submit(c, t) \/ Cancel(c, t) \/ Update(c, t)
  \/ StarterStep
  \/ \E w \in Workers : WorkerStep(w) \/ DoStep(w)
  \/ \E t \in Tasks : ResumeTimePasses(t)
  \/ Shutdown \/ Restart \/ NilTask

Spec == Init /\ [][Next]_vars

(***************************************************************************)
(* Fairness: every goroutine that can go on does, clocks advance, a task   *)
(* that is run again and again does not suspend itself for ever, and a     *)
(* process that was shut down is started again (restart: unless-stopped).  *)
(* Nothing is assumed of the callers beyond the calls they have begun.     *)
(***************************************************************************)
Completes(t) ==
  \E w \in Workers : frame[w].task = t /\ DoReturns(w, "completed", FALSE)

Fairness ==
  /\ WF_vars(StarterStep)
  /\ \A c \in Callers : WF_vars(HandlerStep(c))
  /\ \A w \in Workers : WF_vars(WorkerStep(w)) /\ WF_vars(DoStep(w))
  /\ \A t \in Tasks : WF_vars(ResumeTimePasses(t)) /\ SF_vars(Completes(t))
  /\ WF_vars(stopped /\ Restart)

FairSpec == Spec /\ Fairness

-----------------------------------------------------------------------------
(***************************************************************************)
(* Workers and wake-ups.                                                   *)
(***************************************************************************)

\* the worker has panicked and undone its count, and has yet to schedule
Unwinding(w) ==
  \/ pc[w] = "schedule"
  \/ pc[w] \in {"lookup", "assign", "exec"} /\ frame[w].ret = "schedule"

\* between the loop's IncBusyWorker and the worker's DecBusyWorker
Occupied(w) ==
  \/ pc[w] \in {"register", "iterate", "run", "check", "done", "panicked",
                "enqueue", "push", "set"}
  \/ pc[w] \in {"lookup", "assign", "exec"} /\ frame[w].ret # "schedule"

\* The busy count is the number of goroutines at work, whichever way they
\* end: a panic in Do or in a transition gives its place back exactly once,
\* and the unsigned counter never passes below zero.
BusyAccounted == busy = Cardinality({w \in Workers : Occupied(w)})

\* The check of schedule and the increment of the start loop are apart, and
\* a worker that ends may put a second token after the loop has taken one.
\* However the steps fall, at most one worker beyond WorkerCount is started
\* (that one is: the bound WorkerCount itself does not hold).
OneExtraWorker == busy <= WorkerCount + 1

\* While the start loop sleeps without a token although a worker is free,
\* some worker that has just ended is about to put the token: the loop never
\* sleeps for good next to a free worker.
NoLostWakeup ==
  pc[Starter] = "wait" /\ ~ready /\ busy < WorkerCount
    => \E w \in Workers : Unwinding(w)

\* Request, once it holds the lock, finds a task on the stack. The count is
\* read before the lock is taken, so a Remove in between breaks it.
RequestFindsTask == pc[Starter] = "locked" => stack # <<>>

(***************************************************************************)
(* Who runs a task.                                                        *)
(***************************************************************************)

\* a can still run the task it works on, or put it on the stack
Carries(a) ==
  \/ pc[a] \in {"register", "iterate", "run", "enqueue", "push", "dispatch"}
  \/ pc[a] \in {"lookup", "assign", "exec"}
       /\ frame[a].ret \in {"iterate", "enqueue", "push"}
  \/ pc[a] = "check" /\ frame[a].to = "suspending"

\* A task is in one place: once on the stack, or in the hands of the one
\* goroutine that may run or requeue it, through suspensions, retries,
\* cancellations, failed writes and restarts.
OneCarrier ==
  /\ \A i, j \in DOMAIN stack : stack[i] = stack[j] => i = j
  /\ \A a, b \in Agents : Carries(a) /\ Carries(b)
        /\ frame[a].task = frame[b].task => a = b
  /\ \A a \in Agents, i \in DOMAIN stack :
        Carries(a) => frame[a].task # stack[i]

\* Do never runs twice at once for one task, the runs abandoned by a timeout
\* or a cancellation included.
DoExclusive ==
  \A v, w \in executing : frame[v].task = frame[w].task => v = w

\* Do is never started for a task whose row says that it completed or failed.
FinishedNeverStarted ==
  [][\A w \in Workers : w \in executing' \ executing
       => db[frame[w].task] \notin {"completed", "error"}]_vars

(***************************************************************************)
(* Cancellation, updates and the task table.                               *)
(***************************************************************************)

\* A waiting task that CancelTask took off the stack stays cancelled in the
\* table and is never run, whatever other goroutines were doing with it.
WithdrawnNeverRuns ==
  \A t \in withdrawn :
    db[t] = "canceled" /\ \A w \in executing : frame[w].task # t

\* "CancelTask persists cancellation for queued, suspended, or processing
\* tasks": the row of a running task whose cancellation was reported as done
\* says "canceled". The code does not keep it.
CancelPersists == \A t \in aborted : db[t] = "canceled"

\* UpdateTask writes the row "without changing the task lifecycle status".
\* The code does not keep it: the status it writes was read earlier.
UpdateKeepsStatus ==
  [][\A c \in Callers :
       pc[c] = "exec" /\ frame[c].ret = "updated" /\ pc'[c] = "idle"
         => db' = db]_vars

\* nothing in the process knows the task any more
Unattended(t) ==
  /\ ~Waiting(t) /\ t \notin toResume
  /\ \A a \in Agents : frame[a].task # t

\* As long as the database answers, a task whose row is not at its end is on
\* the stack, being worked on or about to be resumed: none is forgotten
\* between a suspension and its requeueing or by a panic.
NotStranded == stopped \/ \A t \in Tasks : db[t] \in Active => ~Unattended(t)

\* Every accepted task comes to an end, although the stack gives the last
\* one queued first and a task that is not due holds up the ones below it.
EveryTaskEnds == \A t \in Tasks : db[t] \in Active ~> db[t] \in Terminal

(***************************************************************************)
(* The queue implements the lifecycle of TaskLifecycle.                    *)
(***************************************************************************)
Lifecycle == INSTANCE TaskLifecycle
  WITH row <- db, running <- {frame[w].task : w \in executing}

\* Seen from the table and from Do, with failed writes, timeouts, panics,
\* shutdowns and restarts, the goroutines do what TaskLifecycle allows.
Implements == Lifecycle!Spec
=============================================================================
