-------------------------- MODULE TaskQueue_proofs --------------------------
(***************************************************************************)
(* Proofs about the task queue, for any number of tasks, goroutines,       *)
(* calls, restarts and failed writes.                                      *)
(***************************************************************************)
EXTENDS TaskQueue, FiniteSetTheorems, SequenceTheorems, TLAPS

(***************************************************************************)
(* Types. The busy count is only known to be an integer here: that it      *)
(* never passes below zero takes BusyAccounted.                            *)
(***************************************************************************)
Tasked == PCs \ {"idle", "resume", "loop", "wait", "request", "locked"}

\* every agent is somewhere, and one that works on a task has one; only a
\* call of UpdateTask is about to read a status
Placed ==
  /\ pc \in [Agents -> PCs] /\ frame \in [Agents -> Frame]
  /\ \A a \in Agents : pc[a] = "update" => Updates
  /\ \A a \in Agents : pc[a] \in Tasked => frame[a].task \in Tasks

Stored ==
  /\ status \in [Tasks -> Status] /\ db \in [Tasks -> Status]
  /\ due \subseteq Tasks /\ registry \subseteq Tasks
  /\ stack \in Seq(Tasks)
  /\ activeCancels \in [Tasks -> Workers \cup {None}]
  /\ activeCanceled \subseteq Tasks
  /\ dead \subseteq Workers /\ executing \subseteq Workers
  /\ busy \in Int /\ ready \in BOOLEAN /\ stopped \in BOOLEAN
  /\ toResume \subseteq Tasks
  /\ withdrawn \subseteq Tasks /\ aborted \subseteq Tasks
  /\ calls \in Nat /\ crashes \in Nat /\ faults \in Nat

LEMMA AgentKinds ==
  /\ Workers \subseteq Agents /\ Callers \subseteq Agents /\ Starter \in Agents
  /\ Workers \cap Callers = {} /\ Starter \notin Workers /\ Starter \notin Callers
  /\ None \notin Tasks /\ None \notin Workers
BY QueueAssumption DEF QueueAssumption, Agents

LEMMA HomePlace ==
  ASSUME NEW a \in Agents
  PROVE  /\ Home(a) \in {"done", "resume", "idle"}
         /\ a \in Workers => Home(a) = "done"
         /\ a = Starter => Home(a) = "resume"
BY AgentKinds DEF Home

\* where transitStatus may return to
LEMMA ContinuePlace ==
  ASSUME NEW a \in Agents, NEW ok \in BOOLEAN
  PROVE  /\ Continue(a, ok) \in {"iterate", "panicked", "enqueue", "push",
                                 "schedule", Home(a)}
         /\ frame[a].ret = "schedule" => Continue(a, ok) = "schedule"
         /\ frame[a].ret # "schedule" => Continue(a, ok) # "schedule"
BY HomePlace DEF Continue

LEMMA GotoPlaced ==
  ASSUME Placed, NEW a \in Agents, NEW p \in PCs, Goto(a, p),
         p \in Tasked => frame[a].task \in Tasks, p = "update" => Updates
  PROVE  Placed'
<1>1. NoFrame \in Frame
  BY DEF NoFrame, Frame, Status, Returns
<1>2. pc' = [pc EXCEPT ![a] = p] /\ pc' \in [Agents -> PCs]
  BY DEF Goto, Placed
<1>3. frame' \in [Agents -> Frame]
  BY <1>1 DEF Goto, Placed
<1>4. ASSUME NEW b \in Agents, pc'[b] \in Tasked
      PROVE  frame'[b].task \in Tasks
  <2>1. p \notin Resting \/ b # a
    BY <1>2, <1>4 DEF Resting, Tasked, Placed
  <2>2. frame'[b] = frame[b]
    BY <2>1 DEF Goto, Placed
  <2>. QED  BY <1>2, <1>4, <2>2 DEF Placed
<1>5. ASSUME NEW b \in Agents, pc'[b] = "update"
      PROVE  Updates
  BY <1>2, <1>5 DEF Placed
<1>. QED  BY <1>2, <1>3, <1>4, <1>5 DEF Placed

LEMMA TransitPlaced ==
  ASSUME Placed, NEW a \in Agents, NEW t \in Tasks, NEW to \in Status,
         NEW r \in Returns, Transit(a, t, to, r)
  PROVE  Placed'
<1>1. [task |-> t, to |-> to, ret |-> r] \in Frame
  BY DEF Frame
<1>2. frame' = [frame EXCEPT ![a] = [task |-> t, to |-> to, ret |-> r]]
      /\ pc' = [pc EXCEPT ![a] = "lookup"]
  BY DEF Transit
<1>3. pc' \in [Agents -> PCs] /\ frame' \in [Agents -> Frame]
  BY <1>1, <1>2 DEF Placed, PCs
<1>4. ASSUME NEW b \in Agents
      PROVE  /\ pc'[b] \in Tasked => frame'[b].task \in Tasks
             /\ pc'[b] = "update" => Updates
  BY <1>2, <1>4 DEF Placed
<1>. QED  BY <1>3, <1>4 DEF Placed

LEMMA PlacedStep ==
  ASSUME Placed, Stored, [Next]_vars
  PROVE  Placed'
<1>. USE AgentKinds
<1>1. ASSUME NEW a \in Agents, TransitStep(a)  PROVE Placed'
  <2>1. \A ok \in BOOLEAN : Continue(a, ok) \in PCs \ {"update"}
    BY ContinuePlace, HomePlace DEF PCs
  <2>2. Home(a) \in PCs \ {"update"}
    BY HomePlace DEF PCs
  <2>3. pc[a] \in {"lookup", "assign", "exec", "enqueue", "push", "set"}
        => frame[a].task \in Tasks
    BY DEF Placed, Tasked, PCs
  <2>4. CASE Lookup(a)
    BY <2>1, <2>3, <2>4, GotoPlaced DEF Lookup, PCs
  <2>5. CASE Assign(a)
    BY <2>3, <2>5, GotoPlaced DEF Assign, PCs
  <2>6. CASE Exec(a)
    BY <2>1, <2>3, <2>6, GotoPlaced DEF Exec
  <2>7. CASE Enqueue(a)
    BY <2>2, <2>3, <2>7, GotoPlaced, TransitPlaced
       DEF Enqueue, PCs, Status, Active, Returns
  <2>8. CASE Push(a)
    BY <2>2, <2>3, <2>8, GotoPlaced DEF Push, PCs
  <2>9. CASE SetRegistry(a)
    BY <2>2, <2>3, <2>9, GotoPlaced DEF SetRegistry
  <2>. QED  BY <1>1, <2>4, <2>5, <2>6, <2>7, <2>8, <2>9 DEF TransitStep
<1>2. ASSUME NEW c \in Callers, Signal(c) \/ Remove(c) \/ ReadStatus(c)
      PROVE  Placed'
  <2>. c \in Agents
    OBVIOUS
  <2>1. pc[c] \in {"signal", "remove", "update"} => frame[c].task \in Tasks
    BY DEF Placed, Tasked, PCs
  <2>2. CASE Signal(c)
    BY <2>1, <2>2, TransitPlaced DEF Signal, Status, Terminal, Returns
  <2>3. CASE Remove(c)
    BY <2>1, <2>3, TransitPlaced, GotoPlaced
       DEF Remove, PCs, Tasked, Status, Terminal, Returns
  <2>4. CASE ReadStatus(c)
    <3>1. status[frame[c].task] \in Status
      BY <2>1, <2>4 DEF ReadStatus, Stored
    <3>. QED  BY <2>1, <2>4, <3>1 DEF ReadStatus, Placed, PCs, Frame, Returns
  <2>. QED  BY <1>2, <2>2, <2>3, <2>4
<1>3. ASSUME NEW c \in Callers, NEW t \in Tasks,
             Submit(c, t) \/ Cancel(c, t) \/ Update(c, t)
      PROVE  Placed'
  <2>. c \in Agents
    OBVIOUS
  <2>1. ASSUME NEW p \in PCs, NEW s \in Status, NEW r \in Returns,
               p = "update" => Updates,
               pc' = [pc EXCEPT ![c] = p],
               frame' = [frame EXCEPT ![c] = [task |-> t, to |-> s, ret |-> r]]
        PROVE  Placed'
    BY <2>1 DEF Placed, Frame
  <2>2. CASE Submit(c, t)
    BY <2>1, <2>2 DEF Submit, PCs, Status, Active, Returns
  <2>3. CASE Cancel(c, t)
    <3>1. [NoFrame EXCEPT !.task = t] = [task |-> t, to |-> "new", ret |-> "none"]
      BY DEF NoFrame
    <3>. QED  BY <2>1, <2>3, <3>1 DEF Cancel, PCs, Status, Returns
  <2>4. CASE Update(c, t)
    <3>1. status[t] \in Status /\ db[t] \in Status
      BY DEF Stored
    <3>2. [NoFrame EXCEPT !.task = t] = [task |-> t, to |-> "new", ret |-> "none"]
      BY DEF NoFrame
    <3>. QED  BY <2>1, <2>4, <3>1, <3>2 DEF Update, PCs, Status, Returns
  <2>. QED  BY <1>3, <2>2, <2>3, <2>4
<1>4. ASSUME NEW t \in Tasks, Resume(t)  PROVE Placed'
  BY <1>4 DEF Resume, NoFrame, Placed, PCs, Frame, Status, Returns
<1>5. CASE EnterLoop \/ LoopSchedule \/ LoopWait \/ Request
  BY <1>5, GotoPlaced
     DEF EnterLoop, LoopSchedule, LoopWait, Request, PCs, Tasked
<1>6. CASE Pop
  <2>1. Top \in Tasks
    BY <1>6 DEF Pop, Top, Stored
  <2>2. [NoFrame EXCEPT !.task = Top] \in Frame
    BY <2>1 DEF NoFrame, Frame, Status, Returns
  <2>3. CASE Goto(Starter, "request")
    BY <2>3, GotoPlaced DEF PCs, Tasked
  <2>4. CASE /\ pc' = [pc EXCEPT ![Starter] = "dispatch"]
             /\ frame' = [frame EXCEPT ![Starter] = [NoFrame EXCEPT !.task = Top]]
    BY <2>1, <2>2, <2>4 DEF Placed, PCs, NoFrame
  <2>. QED  BY <1>6, <2>3, <2>4 DEF Pop
<1>7. ASSUME NEW w \in Workers, Dispatch(w)  PROVE Placed'
  BY <1>7 DEF Dispatch, Placed, PCs, Tasked, NoFrame, Frame, Status, Returns
<1>8. ASSUME NEW w \in Workers, Register(w) \/ Recover(w) \/ CheckCanceled(w)
      PROVE  Placed'
  <2>. w \in Agents
    OBVIOUS
  <2>1. pc[w] \in {"register", "panicked", "check"} => frame[w].task \in Tasks
    BY DEF Placed, Tasked, PCs
  <2>2. CASE Register(w)
    BY <2>1, <2>2, TransitPlaced DEF Register, Status, Active, Returns
  <2>3. CASE Recover(w)
    BY <2>1, <2>3, TransitPlaced DEF Recover, Status, Terminal, Returns
  <2>4. frame[w].to \in Status
    BY DEF Placed, Frame
  <2>5. CASE CheckCanceled(w) /\ Goto(w, "done")
    BY <2>1, <2>5, GotoPlaced DEF CheckCanceled, PCs
  <2>6. CASE CheckCanceled(w) /\ ~Goto(w, "done")
    <3>1. \/ Transit(w, frame[w].task, frame[w].to, "enqueue")
          \/ Transit(w, frame[w].task, frame[w].to, "done")
      BY <2>6 DEF CheckCanceled
    <3>. QED  BY <2>1, <2>4, <2>6, <3>1, TransitPlaced DEF CheckCanceled, Returns
  <2>. QED  BY <1>8, <2>2, <2>3, <2>5, <2>6
<1>9. ASSUME NEW w \in Workers,
             StartDo(w) \/ Done(w) \/ Reschedule(w) \/ Unregister(w) \/ DoPanics(w)
      PROVE  Placed'
  <2>. w \in Agents
    OBVIOUS
  <2>1. pc[w] \in {"iterate", "done", "schedule", "unregister", "run"}
        => frame[w].task \in Tasks
    BY DEF Placed, Tasked, PCs
  <2>. QED  BY <1>9, <2>1, GotoPlaced
            DEF StartDo, Done, Reschedule, Unregister, DoPanics, PCs
<1>10. ASSUME NEW w \in Workers, DoEndsLate(w)  PROVE Placed'
  <2>. w \in Agents
    OBVIOUS
  <2>1. /\ pc[w] \in PCs /\ (pc[w] \in Tasked => frame[w].task \in Tasks)
        /\ pc[w] = "update" => Updates
    BY DEF Placed
  <2>. QED  BY <1>10, <2>1, GotoPlaced DEF DoEndsLate, PCs, Tasked
<1>11. ASSUME NEW w \in Workers, NEW s \in Status,
              pc[w] = "run", frame' = [frame EXCEPT ![w].to = s],
              pc' = [pc EXCEPT ![w] = "check"]
       PROVE  Placed'
  BY <1>11 DEF Placed, PCs, Tasked, Frame
<1>12. ASSUME NEW w \in Workers, NEW next \in Outcomes \ {"panic"},
              NEW later \in BOOLEAN, DoReturns(w, next, later)
       PROVE  Placed'
  <2>1. next \in Status
    BY QueueAssumption DEF QueueAssumption, Status, Active, Terminal
  <2>. QED  BY <1>11, <1>12, <2>1 DEF DoReturns
<1>13. ASSUME NEW w \in Workers, ContextEnds(w)  PROVE Placed'
  <2>1. PICK s \in Status : /\ pc[w] = "run"
                            /\ frame' = [frame EXCEPT ![w].to = s]
                            /\ pc' = [pc EXCEPT ![w] = "check"]
    BY <1>13 DEF ContextEnds, Status, Terminal
  <2>. QED  BY <1>11, <2>1
<1>14. CASE Restart \/ NilTask
  BY <1>14 DEF Restart, NilTask, Reboot, Placed, PCs, Tasked, NoFrame, Frame,
               Status, Returns
<1>15. CASE UNCHANGED <<pc, frame>>
  BY <1>15 DEF Placed
<1>. QED
  BY <1>1, <1>2, <1>3, <1>4, <1>5, <1>6, <1>7, <1>8, <1>9, <1>10, <1>12,
     <1>13, <1>14, <1>15
     DEF Next, HandlerStep, StarterStep, WorkerStep, DoStep, ResumeTimePasses,
         Shutdown, vars

LEMMA WithoutSeq ==
  ASSUME NEW S, NEW s \in Seq(S), NEW i \in DOMAIN s
  PROVE  Without(s, i) \in Seq(S)
<1>1. Len(s) - 1 \in Nat
  OBVIOUS
<1>2. \A j \in 1 .. Len(s) - 1 : (IF j < i THEN s[j] ELSE s[j + 1]) \in S
  OBVIOUS
<1>. QED  BY <1>1, <1>2 DEF Without

LEMMA StoredStep ==
  ASSUME Placed, Stored, [Next]_vars
  PROVE  Stored'
<1>. USE AgentKinds
<1>1. ASSUME NEW a \in Agents, TransitStep(a)  PROVE Stored'
  <2>1. pc[a] \in {"lookup", "assign", "exec", "enqueue", "push", "set"}
        => frame[a].task \in Tasks
    BY DEF Placed, Tasked, PCs
  <2>2. frame[a].to \in Status
    BY DEF Placed, Frame
  <2>3. CASE Lookup(a)
    <3>1. registry' \subseteq registry
      BY <2>3 DEF Lookup
    <3>2. UNCHANGED <<status, db, due, stack, control, executing, loop, stopped,
                      toResume, history, bounds>>
      BY <2>3 DEF Lookup
    <3>. QED  BY <3>1, <3>2 DEF Stored, control, loop, history, bounds
  <2>4. CASE Assign(a)
    BY <2>1, <2>2, <2>4 DEF Assign, Stored, control, loop, history, bounds
  <2>5. CASE Exec(a)
    <3>1. /\ db' \in [Tasks -> Status]
          /\ withdrawn' \subseteq Tasks /\ aborted' \subseteq Tasks
      BY <2>1, <2>2, <2>5 DEF Exec, Stored, history
    <3>. faults' = faults \/ faults' = faults + 1
      BY <2>5, Zenon DEF Exec
    <3>2. faults' \in Nat
      BY DEF Stored
    <3>3. UNCHANGED <<memory, stack, control, executing, loop, stopped,
                      toResume, calls, crashes>>
      BY <2>5 DEF Exec
    <3>. QED  BY <3>1, <3>2, <3>3 DEF Stored, memory, control, loop
  <2>6. CASE Enqueue(a)
    BY <2>6 DEF Enqueue, Stored, memory, control, loop, history, bounds
  <2>7. CASE Push(a)
    <3>1. stack' \in Seq(Tasks)
      BY <2>1, <2>7 DEF Push, Stored
    <3>2. UNCHANGED <<memory, db, control, executing, loop, stopped, toResume,
                      history, bounds>>
      BY <2>7 DEF Push
    <3>. QED  BY <3>1, <3>2 DEF Stored, memory, control, loop, history, bounds
  <2>8. CASE SetRegistry(a)
    BY <2>1, <2>8 DEF SetRegistry, Stored, control, loop, history, bounds
  <2>. QED  BY <1>1, <2>3, <2>4, <2>5, <2>6, <2>7, <2>8 DEF TransitStep
<1>2. ASSUME NEW c \in Callers, Signal(c)  PROVE Stored'
  <2>1. frame[c].task \in Tasks
    BY <1>2 DEF Signal, Placed, Tasked, PCs
  <2>2. /\ activeCanceled' \in {activeCanceled, activeCanceled \cup {frame[c].task}}
        /\ dead' \in {dead, dead \cup {activeCancels[frame[c].task]}}
        /\ activeCancels[frame[c].task] = None => dead' = dead
        /\ UNCHANGED <<activeCancels, memory, db, stack, executing, loop, stopped, toResume,
                       history, bounds>>
    BY <1>2 DEF Signal, control
  <2>3. activeCanceled' \subseteq Tasks /\ dead' \subseteq Workers
    BY <2>1, <2>2 DEF Stored
  <2>. QED
    BY <2>2, <2>3 DEF Stored, memory, loop, history, bounds
<1>3. ASSUME NEW c \in Callers, Remove(c) \/ ReadStatus(c)  PROVE Stored'
  BY <1>3, WithoutSeq
     DEF Remove, ReadStatus, Stored, memory, control, loop, history, bounds
<1>4. ASSUME NEW c \in Callers, NEW t \in Tasks,
             Submit(c, t) \/ Cancel(c, t) \/ Update(c, t)
      PROVE  Stored'
  <2>1. /\ status' \in [Tasks -> Status] /\ db' \in [Tasks -> Status]
        /\ calls' \in Nat
    BY <1>4 DEF Submit, Cancel, Update, Stored, memory, bounds, Status, Active
  <2>2. UNCHANGED <<due, stack, registry, control, executing, loop, stopped,
                    toResume, history, crashes, faults>>
    BY <1>4 DEF Submit, Cancel, Update, memory, bounds
  <2>. QED  BY <2>1, <2>2 DEF Stored, control, loop, history
<1>5. ASSUME NEW t \in Tasks, Resume(t) \/ ResumeTimePasses(t)  PROVE Stored'
  BY <1>5 DEF Resume, ResumeTimePasses, Stored, memory, control, loop, history,
              bounds
<1>6. CASE EnterLoop \/ LoopSchedule \/ LoopWait \/ Request
  BY <1>6 DEF EnterLoop, LoopSchedule, LoopWait, Request, PutReady, Stored,
              memory, control, loop, history, bounds
<1>7. CASE Pop
  <2>1. stack # <<>> => SubSeq(stack, 1, Len(stack) - 1) \in Seq(Tasks)
    <3>. SUFFICES ASSUME stack # <<>>
                  PROVE  SubSeq(stack, 1, Len(stack) - 1) \in Seq(Tasks)
      OBVIOUS
    <3>1. stack \in Seq(Tasks) /\ Len(stack) \in Nat
      BY DEF Stored
    <3>2. \A i \in 1 .. Len(stack) - 1 : i \in 1 .. Len(stack)
      BY <3>1
    <3>. QED  BY <3>1, <3>2, SubSeqProperties
  <2>. QED  BY <1>7, <2>1 DEF Pop, Stored, memory, control, loop, history, bounds
<1>8. ASSUME NEW w \in Workers, Dispatch(w) \/ Done(w) \/ Recover(w) \/ Reschedule(w)
      PROVE  Stored'
  <2>. busy' = busy \/ busy' = busy + 1 \/ busy' = busy - 1
    BY <1>8, Zenon DEF Dispatch, Done, Recover, Reschedule
  <2>. ready' \in BOOLEAN
    BY <1>8, Zenon DEF Dispatch, Done, Recover, Reschedule, PutReady, Stored
  <2>1. busy' \in Int /\ ready' \in BOOLEAN
    BY DEF Stored
  <2>2. UNCHANGED <<memory, db, stack, control, executing, stopped, toResume,
                    history, bounds>>
    BY <1>8 DEF Dispatch, Done, Recover, Reschedule
  <2>. QED  BY <2>1, <2>2 DEF Stored, memory, control, history, bounds
<1>9. ASSUME NEW w \in Workers, Register(w) \/ Unregister(w)  PROVE Stored'
  BY <1>9 DEF Register, Unregister, Stored, memory, control, loop, history, bounds
<1>10. ASSUME NEW w \in Workers,
              StartDo(w) \/ DoEndsLate(w) \/ CheckCanceled(w)
                \/ DoPanics(w) \/ ContextEnds(w)
       PROVE  Stored'
  BY <1>10 DEF StartDo, DoEndsLate, CheckCanceled, DoPanics, ContextEnds, Stored,
               memory, control, loop, history, bounds
<1>11. ASSUME NEW w \in Workers, NEW next \in Outcomes \ {"panic"},
              NEW later \in BOOLEAN, DoReturns(w, next, later)
       PROVE  Stored'
  BY <1>11 DEF DoReturns, Stored, control, loop, history, bounds
<1>12. CASE Shutdown
  BY <1>12 DEF Shutdown, Stored, memory, control, loop, history, bounds
<1>13. CASE Restart \/ NilTask
  <2>1. Pending(db) \subseteq Tasks
    BY DEF Pending
  <2>2. crashes' \in Nat
    BY <1>13 DEF Restart, NilTask, Stored
  <2>3. Reboot
    BY <1>13 DEF Restart, NilTask
  <2>4. /\ ready' \in BOOLEAN /\ stopped' \in BOOLEAN /\ toResume' \subseteq Tasks
        /\ status' \in [Tasks -> Status]
        /\ activeCancels' \in [Tasks -> Workers \cup {None}]
    BY <2>1, <2>3 DEF Reboot, Status
  <2>5. /\ due' \subseteq Tasks /\ stack' \in Seq(Tasks) /\ registry' = {}
        /\ activeCanceled' = {} /\ dead' = {} /\ executing' = {} /\ busy' = 0
        /\ UNCHANGED <<db, withdrawn, aborted, calls, faults>>
    BY <2>3 DEF Reboot, Stored, history
  <2>. QED  BY <2>2, <2>4, <2>5 DEF Stored
<1>14. CASE UNCHANGED vars
  BY <1>14 DEF vars, Stored
<1>. QED
  BY <1>1, <1>2, <1>3, <1>4, <1>5, <1>6, <1>7, <1>8, <1>9, <1>10, <1>11,
     <1>12, <1>13, <1>14
     DEF Next, HandlerStep, StarterStep, WorkerStep, DoStep

(***************************************************************************)
(* Steps are local: they move one agent, or the start loop and the worker  *)
(* it starts.                                                              *)
(***************************************************************************)
Only(A) == \A b \in Agents \ A : pc'[b] = pc[b] /\ frame'[b] = frame[b]

LEMMA GotoEffect ==
  ASSUME Placed, NEW a \in Agents, NEW p, Goto(a, p)
  PROVE  /\ Only({a}) /\ pc'[a] = p
         /\ p \notin Resting => frame' = frame
BY DEF Placed, Goto, Only

LEMMA ReadStatusEffect ==
  ASSUME Placed, NEW c \in Callers, ReadStatus(c)
  PROVE  /\ Only({c}) /\ pc[c] = "update" /\ pc'[c] = "assign"
         /\ frame'[c] = [task |-> frame[c].task, to |-> status[frame[c].task],
                         ret |-> "updated"]
         /\ status' = status /\ UNCHANGED <<db, stack, executing, toResume>>
         /\ frame[c].task \in Tasks /\ Updates
BY AgentKinds DEF ReadStatus, Placed, Only, memory, Tasked, PCs

LEMMA TransitEffect ==
  ASSUME Placed, NEW a \in Agents, NEW t, NEW to, NEW r, Transit(a, t, to, r)
  PROVE  /\ Only({a}) /\ pc'[a] = "lookup"
         /\ frame'[a] = [task |-> t, to |-> to, ret |-> r]
         /\ frame'[a].task = t /\ frame'[a].to = to /\ frame'[a].ret = r
BY DEF Placed, Transit, Only

\* transitStatus and QueueTask move their own agent along
LEMMA TransitStepEffect ==
  ASSUME Placed, NEW a \in Agents, TransitStep(a)
  PROVE  /\ Only({a})
         /\ pc[a] \in {"lookup", "assign", "exec", "enqueue", "push", "set"}
         /\ \/ /\ pc'[a] \in {"assign", "exec", "set", "push"}
               /\ frame'[a] = frame[a]
               /\ pc[a] \in {"lookup", "assign", "enqueue", "push"}
               /\ pc'[a] \in {"assign", "exec"} <=> pc[a] \in {"lookup", "assign"}
            \/ /\ pc[a] \in {"lookup", "exec"}
               /\ \E ok \in BOOLEAN : Goto(a, Continue(a, ok))
            \/ /\ pc[a] \in {"enqueue", "push", "set"}
               /\ Goto(a, Home(a))
            \/ /\ pc[a] = "enqueue" /\ pc'[a] = "lookup"
               /\ frame'[a] = [task |-> frame[a].task, to |-> "queued",
                               ret |-> "push"]
<1>1. CASE Lookup(a)
  <2>1. CASE \E ok \in BOOLEAN : Goto(a, Continue(a, ok))
    BY <1>1, <2>1, GotoEffect DEF Lookup
  <2>2. CASE Goto(a, "assign")
    BY <1>1, <2>2, GotoEffect DEF Lookup, Resting
  <2>. QED  BY <1>1, <2>1, <2>2 DEF Lookup
<1>2. CASE Assign(a)
  BY <1>2, GotoEffect DEF Assign, Resting
<1>3. CASE Exec(a)
  <2>1. \E ok \in BOOLEAN : Goto(a, Continue(a, ok))
    BY <1>3 DEF Exec
  <2>. QED  BY <1>3, <2>1, GotoEffect DEF Exec
<1>4. CASE Enqueue(a)
  <2>1. CASE Goto(a, Home(a))
    BY <1>4, <2>1, GotoEffect DEF Enqueue
  <2>2. CASE Goto(a, "push")
    BY <1>4, <2>2, GotoEffect DEF Enqueue, Resting
  <2>3. CASE Transit(a, frame[a].task, "queued", "push")
    BY <1>4, <2>3, TransitEffect DEF Enqueue
  <2>. QED  BY <1>4, <2>1, <2>2, <2>3 DEF Enqueue
<1>5. CASE Push(a)
  BY <1>5, GotoEffect DEF Push, Resting
<1>6. CASE SetRegistry(a)
  BY <1>6, GotoEffect DEF SetRegistry
<1>. QED
  BY <1>1, <1>2, <1>3, <1>4, <1>5, <1>6 DEF TransitStep

(***************************************************************************)
(* The busy count.                                                         *)
(***************************************************************************)
LEMMA BusyKept ==
  ASSUME BusyAccounted, busy' = busy,
         \A w \in Workers : Occupied(w)' <=> Occupied(w)
  PROVE  BusyAccounted'
<1>1. {w \in Workers : Occupied(w)}' = {w \in Workers : Occupied(w)}
  OBVIOUS
<1>. QED  BY <1>1 DEF BusyAccounted

LEMMA BusyAdded ==
  ASSUME Stored, BusyAccounted, NEW v \in Workers, busy' = busy + 1,
         ~Occupied(v), Occupied(v)',
         \A w \in Workers \ {v} : Occupied(w)' <=> Occupied(w)
  PROVE  BusyAccounted'
<1>. DEFINE S == {w \in Workers : Occupied(w)}
<1>1. S' = S \cup {v} /\ v \notin S
  OBVIOUS
<1>2. IsFiniteSet(S)
  BY QueueAssumption, FS_Subset DEF QueueAssumption
<1>3. Cardinality(S \cup {v}) = Cardinality(S) + 1
  <2>. HIDE DEF S
  <2>. QED  BY <1>1, <1>2, FS_AddElement
<1>. QED  BY <1>1, <1>3 DEF BusyAccounted

LEMMA BusyDropped ==
  ASSUME Stored, BusyAccounted, NEW v \in Workers, busy' = busy - 1,
         Occupied(v), ~Occupied(v)',
         \A w \in Workers \ {v} : Occupied(w)' <=> Occupied(w)
  PROVE  BusyAccounted'
<1>. DEFINE S == {w \in Workers : Occupied(w)}
<1>1. S' = S \ {v} /\ v \in S
  OBVIOUS
<1>2. IsFiniteSet(S)
  BY QueueAssumption, FS_Subset DEF QueueAssumption
<1>3. Cardinality(S \ {v}) = Cardinality(S) - 1
  <2>. HIDE DEF S
  <2>. QED  BY <1>1, <1>2, FS_RemoveElement
<1>. QED  BY <1>1, <1>3 DEF BusyAccounted

\* a worker that no step moves stays at work, or not
LEMMA OccupiedElsewhere ==
  ASSUME NEW A \in SUBSET Agents, Only(A)
  PROVE  \A w \in Workers \ A : Occupied(w)' <=> Occupied(w)
BY AgentKinds DEF Only, Occupied

LEMMA BusyStep ==
  ASSUME Placed, Stored, BusyAccounted, [Next]_vars
  PROVE  BusyAccounted'
<1>. USE AgentKinds
<1>1. ASSUME NEW a \in Agents, TransitStep(a)  PROVE BusyAccounted'
  <2>1. busy' = busy
    BY <1>1 DEF TransitStep, Lookup, Assign, Exec, Enqueue, Push, SetRegistry, loop
  <2>2. ASSUME a \in Workers
        PROVE  Occupied(a)' <=> Occupied(a)
    <3>1. CASE /\ pc'[a] \in {"assign", "exec", "set", "push"}
               /\ frame'[a] = frame[a]
               /\ pc[a] \in {"lookup", "assign", "enqueue", "push"}
               /\ pc'[a] \in {"assign", "exec"} <=> pc[a] \in {"lookup", "assign"}
      BY <3>1 DEF Occupied
    <3>2. CASE pc[a] \in {"lookup", "exec"} /\ \E ok \in BOOLEAN : Goto(a, Continue(a, ok))
      <4>1. PICK ok \in BOOLEAN : Goto(a, Continue(a, ok))
        BY <3>2
      <4>2. pc'[a] = Continue(a, ok)
        BY <4>1, GotoEffect
      <4>. QED  BY <2>2, <3>2, <4>2, ContinuePlace, HomePlace DEF Occupied
    <3>3. CASE pc[a] \in {"enqueue", "push", "set"} /\ Goto(a, Home(a))
      BY <2>2, <3>3, GotoEffect, HomePlace DEF Occupied
    <3>4. CASE /\ pc[a] = "enqueue" /\ pc'[a] = "lookup"
               /\ frame'[a] = [task |-> frame[a].task, to |-> "queued",
                               ret |-> "push"]
      BY <3>4 DEF Occupied
    <3>5. \/ /\ pc'[a] \in {"assign", "exec", "set", "push"}
             /\ frame'[a] = frame[a]
             /\ pc[a] \in {"lookup", "assign", "enqueue", "push"}
             /\ pc'[a] \in {"assign", "exec"} <=> pc[a] \in {"lookup", "assign"}
          \/ pc[a] \in {"lookup", "exec"} /\ \E ok \in BOOLEAN : Goto(a, Continue(a, ok))
          \/ pc[a] \in {"enqueue", "push", "set"} /\ Goto(a, Home(a))
          \/ /\ pc[a] = "enqueue" /\ pc'[a] = "lookup"
             /\ frame'[a] = [task |-> frame[a].task, to |-> "queued", ret |-> "push"]
      BY <1>1, TransitStepEffect
    <3>. QED  BY <3>1, <3>2, <3>3, <3>4, <3>5
  <2>3. Only({a})
    BY <1>1, TransitStepEffect
  <2>4. \A w \in Workers : Occupied(w)' <=> Occupied(w)
    BY <2>2, <2>3, OccupiedElsewhere
  <2>. QED  BY <2>1, <2>4, BusyKept
<1>2. ASSUME NEW c \in Callers \cup {Starter}, Only({c}), busy' = busy
      PROVE  BusyAccounted'
  BY <1>2, OccupiedElsewhere, BusyKept
<1>3. ASSUME NEW c \in Callers, Signal(c) \/ Remove(c) \/ ReadStatus(c)
      PROVE  BusyAccounted'
  <2>1. busy' = busy
    BY <1>3 DEF Signal, Remove, ReadStatus, loop
  <2>2. Only({c})
    BY <1>3, TransitEffect, GotoEffect, ReadStatusEffect DEF Signal, Remove
  <2>. QED  BY <1>2, <2>1, <2>2
<1>4. ASSUME NEW c \in Callers, NEW t \in Tasks,
             Submit(c, t) \/ Cancel(c, t) \/ Update(c, t)
      PROVE  BusyAccounted'
  <2>1. Only({c}) /\ busy' = busy
    BY <1>4 DEF Submit, Cancel, Update, Only, Placed, loop
  <2>. QED  BY <1>2, <2>1
<1>5. ASSUME NEW t \in Tasks, Resume(t)  PROVE BusyAccounted'
  <2>1. Only({Starter}) /\ busy' = busy
    BY <1>5 DEF Resume, Only, Placed, loop
  <2>. QED  BY <1>2, <2>1
<1>6. CASE EnterLoop \/ LoopSchedule \/ LoopWait \/ Request \/ Pop
  <2>1. busy' = busy
    BY <1>6 DEF EnterLoop, LoopSchedule, LoopWait, Request, Pop, loop
  <2>2. Only({Starter})
    BY <1>6 DEF EnterLoop, LoopSchedule, LoopWait, Request, Pop, Goto, Only, Placed
  <2>. QED  BY <1>2, <2>1, <2>2
<1>7. ASSUME NEW w \in Workers, Dispatch(w)  PROVE BusyAccounted'
  <2>1. Only({Starter, w}) /\ pc[w] = "idle" /\ pc'[w] = "register"
        /\ busy' = busy + 1
    BY <1>7 DEF Dispatch, Only, Placed
  <2>. QED  BY <2>1, OccupiedElsewhere, BusyAdded DEF Occupied
<1>8. ASSUME NEW w \in Workers, Done(w) \/ Recover(w)  PROVE BusyAccounted'
  <2>1. Only({w}) /\ busy' = busy - 1 /\ pc[w] \in {"done", "panicked"}
    BY <1>8, GotoEffect, TransitEffect DEF Done, Recover
  <2>2. pc'[w] = "schedule" \/ (pc'[w] = "lookup" /\ frame'[w].ret = "schedule")
    <3>1. CASE Done(w)
      BY <3>1, GotoEffect DEF Done
    <3>2. CASE Recover(w)
      <4>1. Transit(w, frame[w].task, "error", "schedule")
        BY <3>2 DEF Recover
      <4>. w \in Agents
        OBVIOUS
      <4>. QED  BY <4>1 DEF Transit, Placed, Only
    <3>. QED  BY <1>8, <3>1, <3>2
  <2>. QED  BY <2>1, <2>2, OccupiedElsewhere, BusyDropped DEF Occupied
<1>9. ASSUME NEW w \in Workers, Only({w}), busy' = busy, Occupied(w)' <=> Occupied(w)
      PROVE  BusyAccounted'
  BY <1>9, OccupiedElsewhere, BusyKept
<1>10. ASSUME NEW w \in Workers, Register(w) \/ CheckCanceled(w)
       PROVE  BusyAccounted'
  <2>1. pc[w] \in {"register", "check"}
    BY <1>10 DEF Register, CheckCanceled
  <2>2. \/ Goto(w, "done")
        \/ Transit(w, frame[w].task, "processing", "iterate")
        \/ Transit(w, frame[w].task, frame[w].to, "enqueue")
        \/ Transit(w, frame[w].task, frame[w].to, "done")
    BY <1>10 DEF Register, CheckCanceled
  <2>4. /\ Only({w})
        /\ \/ pc'[w] = "done"
           \/ pc'[w] = "lookup" /\ frame'[w].ret \in {"iterate", "enqueue", "done"}
    <3>. w \in Agents
      OBVIOUS
    <3>1. CASE Goto(w, "done")
      BY <3>1, GotoEffect
    <3>2. CASE Transit(w, frame[w].task, "processing", "iterate")
      BY <3>2 DEF Transit, Placed, Only
    <3>3. CASE Transit(w, frame[w].task, frame[w].to, "enqueue")
      BY <3>3 DEF Transit, Placed, Only
    <3>4. CASE Transit(w, frame[w].task, frame[w].to, "done")
      BY <3>4 DEF Transit, Placed, Only
    <3>. QED  BY <2>2, <3>1, <3>2, <3>3, <3>4
  <2>3. busy' = busy
    BY <1>10 DEF Register, CheckCanceled, loop
  <2>. QED  BY <1>9, <2>1, <2>3, <2>4 DEF Occupied
<1>11. ASSUME NEW w \in Workers,
              StartDo(w) \/ Reschedule(w) \/ Unregister(w) \/ DoPanics(w)
       PROVE  BusyAccounted'
  <2>1. busy' = busy
    BY <1>11 DEF StartDo, Reschedule, Unregister, DoPanics, loop
  <2>2. /\ Only({w})
        /\ \/ pc[w] = "iterate" /\ pc'[w] = "run"
           \/ pc[w] = "schedule" /\ pc'[w] = "unregister"
           \/ pc[w] = "unregister" /\ pc'[w] \in {"drain", "idle"}
           \/ pc[w] = "run" /\ pc'[w] = "panicked"
    BY <1>11, GotoEffect DEF StartDo, Reschedule, Unregister, DoPanics
  <2>. QED  BY <1>9, <2>1, <2>2 DEF Occupied
<1>12. ASSUME NEW w \in Workers, DoEndsLate(w)  PROVE BusyAccounted'
  <2>1. busy' = busy
    BY <1>12 DEF DoEndsLate, loop
  <2>2. /\ Only({w})
        /\ \/ pc[w] = "drain" /\ pc'[w] = "idle"
           \/ pc'[w] = pc[w] /\ (pc[w] \in Resting \/ frame' = frame)
    BY <1>12, GotoEffect DEF DoEndsLate
  <2>. QED  BY <1>9, <2>1, <2>2 DEF Occupied, Resting
<1>13. ASSUME NEW w \in Workers, NEW next \in Outcomes \ {"panic"},
              NEW later \in BOOLEAN, DoReturns(w, next, later)
       PROVE  BusyAccounted'
  <2>1. Only({w}) /\ pc[w] = "run" /\ pc'[w] = "check" /\ busy' = busy
    BY <1>13 DEF DoReturns, Only, Placed, loop
  <2>. QED  BY <1>9, <2>1 DEF Occupied
<1>14. ASSUME NEW w \in Workers, ContextEnds(w)  PROVE BusyAccounted'
  <2>1. Only({w}) /\ pc[w] = "run" /\ pc'[w] = "check" /\ busy' = busy
    BY <1>14 DEF ContextEnds, Only, Placed, loop
  <2>. QED  BY <1>9, <2>1 DEF Occupied
<1>15. CASE Restart \/ NilTask
  <2>1. \A w \in Workers : pc'[w] = "idle"
    BY <1>15 DEF Restart, NilTask, Reboot
  <2>2. {w \in Workers : Occupied(w)}' = {}
    BY <2>1 DEF Occupied
  <2>3. busy' = 0
    BY <1>15 DEF Restart, NilTask, Reboot
  <2>. QED  BY <2>2, <2>3, FS_EmptySet DEF BusyAccounted
<1>16. CASE UNCHANGED <<pc, frame, busy>>
  BY <1>16, BusyKept DEF Occupied
<1>. QED
  BY <1>1, <1>3, <1>4, <1>5, <1>6, <1>7, <1>8, <1>10, <1>11, <1>12, <1>13,
     <1>14, <1>15, <1>16
     DEF Next, HandlerStep, StarterStep, WorkerStep, DoStep, ResumeTimePasses,
         Shutdown, vars, loop

(***************************************************************************)
(* Tokens. A token put by schedule is in the channel or in the hands of    *)
(* the start loop until it has become a busy worker. Counting it as one    *)
(* makes both bounds inductive: schedule puts a token only below           *)
(* WorkerCount, when the loop may already hold one.                        *)
(***************************************************************************)
InHand == pc[Starter] \in {"request", "locked", "dispatch"}

Claimed == busy + (IF ready THEN 1 ELSE 0) + (IF InHand THEN 1 ELSE 0)

Wakes == Claimed <= WorkerCount + 1 /\ NoLostWakeup

LEMMA WakesKept ==
  ASSUME Stored, Wakes, busy' = busy, ready' = ready, InHand' => InHand,
         pc'[Starter] = "wait" => pc[Starter] = "wait",
         \A w \in Workers : Unwinding(w) => Unwinding(w)'
  PROVE  Wakes'
<1>. WorkerCount \in Nat
  BY QueueAssumption DEF QueueAssumption
<1>1. Claimed' <= WorkerCount + 1
  <2>. busy \in Int /\ ready \in BOOLEAN /\ InHand \in BOOLEAN
    BY DEF Stored, InHand
  <2>. HIDE DEF InHand
  <2>. QED  BY DEF Wakes, Claimed
<1>2. NoLostWakeup'
  BY DEF Wakes, NoLostWakeup
<1>. QED  BY <1>1, <1>2 DEF Wakes

LEMMA UnwindingElsewhere ==
  ASSUME NEW A \in SUBSET Agents, Only(A)
  PROVE  \A w \in Workers \ A : Unwinding(w) => Unwinding(w)'
BY AgentKinds DEF Only, Unwinding

LEMMA StarterElsewhere ==
  ASSUME NEW A \in SUBSET (Agents \ {Starter}), Only(A)
  PROVE  pc'[Starter] = pc[Starter] /\ (InHand' <=> InHand)
BY AgentKinds DEF Only, InHand

LEMMA WakesTransit ==
  ASSUME Placed, Stored, Wakes, NEW a \in Agents, TransitStep(a)
  PROVE  Wakes'
<1>. USE AgentKinds
<1>1. busy' = busy /\ ready' = ready
  BY DEF TransitStep, Lookup, Assign, Exec, Enqueue, Push, SetRegistry, loop
<1>2. Only({a})
  BY TransitStepEffect
<1>3. ASSUME a = Starter
      PROVE  pc'[a] \notin {"request", "locked", "dispatch", "wait"}
  <2>1. \A ok \in BOOLEAN : Goto(a, Continue(a, ok)) => pc'[a] = Continue(a, ok)
    BY GotoEffect
  <2>2. Goto(a, Home(a)) => pc'[a] = Home(a)
    BY GotoEffect
  <2>. QED  BY <1>3, <2>1, <2>2, TransitStepEffect, ContinuePlace, HomePlace
<1>4. ASSUME a \in Workers, Unwinding(a)
      PROVE  Unwinding(a)'
  <2>1. pc[a] \in {"lookup", "assign", "exec"} /\ frame[a].ret = "schedule"
    BY <1>4, TransitStepEffect DEF Unwinding
  <2>2. \A ok \in BOOLEAN : Goto(a, Continue(a, ok)) => pc'[a] = "schedule"
    BY <2>1, GotoEffect, ContinuePlace
  <2>. QED  BY <2>1, <2>2, TransitStepEffect DEF Unwinding
<1>5. CASE a = Starter
  BY <1>1, <1>2, <1>3, <1>5, UnwindingElsewhere, WakesKept DEF InHand
<1>6. CASE a # Starter
  <2>1. pc'[Starter] = pc[Starter] /\ (InHand' <=> InHand)
    BY <1>2, <1>6, StarterElsewhere
  <2>2. \A w \in Workers : Unwinding(w) => Unwinding(w)'
    BY <1>2, <1>4, UnwindingElsewhere
  <2>. QED  BY <1>1, <2>1, <2>2, WakesKept
<1>. QED  BY <1>5, <1>6

\* what a worker or its Do does by itself
LEMMA WorkerOnly ==
  ASSUME Placed, NEW w \in Workers, WorkerStep(w) \/ DoStep(w)
  PROVE  Only({w})
<1>. w \in Agents
  BY AgentKinds
<1>1. CASE TransitStep(w)
  BY <1>1, TransitStepEffect
<1>2. CASE StartDo(w) \/ Done(w) \/ Reschedule(w) \/ Unregister(w)
           \/ DoEndsLate(w) \/ DoPanics(w)
  BY <1>2, GotoEffect
     DEF StartDo, Done, Reschedule, Unregister, DoEndsLate, DoPanics
<1>3. CASE Register(w) \/ CheckCanceled(w) \/ Recover(w)
  BY <1>3 DEF Register, CheckCanceled, Recover, Transit, Goto, Only, Placed
<1>4. CASE \/ ContextEnds(w)
           \/ \E next \in Outcomes \ {"panic"}, later \in BOOLEAN :
                 DoReturns(w, next, later)
  BY <1>4 DEF ContextEnds, DoReturns, Only, Placed
<1>. QED  BY <1>1, <1>2, <1>3, <1>4 DEF WorkerStep, DoStep

LEMMA WakesStep ==
  ASSUME Placed, Stored, Stored', Wakes, [Next]_vars
  PROVE  Wakes'
<1>. USE AgentKinds
<1>. WorkerCount \in Nat
  BY QueueAssumption DEF QueueAssumption
<1>. busy \in Int /\ ready \in BOOLEAN /\ busy' \in Int /\ ready' \in BOOLEAN
  BY DEF Stored
<1>1. ASSUME NEW c \in Callers, Only({c}), busy' = busy, ready' = ready
      PROVE  Wakes'
  BY <1>1, UnwindingElsewhere, StarterElsewhere, WakesKept
<1>2. ASSUME NEW c \in Callers, Signal(c) \/ Remove(c) \/ ReadStatus(c)
      PROVE  Wakes'
  <2>1. busy' = busy /\ ready' = ready
    BY <1>2 DEF Signal, Remove, ReadStatus, loop
  <2>2. Only({c})
    BY <1>2, TransitEffect, GotoEffect, ReadStatusEffect DEF Signal, Remove
  <2>. QED  BY <1>1, <2>1, <2>2
<1>3. ASSUME NEW c \in Callers, NEW t \in Tasks,
             Submit(c, t) \/ Cancel(c, t) \/ Update(c, t)
      PROVE  Wakes'
  <2>1. Only({c}) /\ busy' = busy /\ ready' = ready
    BY <1>3 DEF Submit, Cancel, Update, Only, Placed, loop
  <2>. QED  BY <1>1, <2>1
<1>4. ASSUME \/ \E t \in Tasks : Resume(t)
             \/ EnterLoop \/ Request \/ Pop
      PROVE  Wakes'
  <2>1. busy' = busy /\ ready' = ready
    BY <1>4 DEF EnterLoop, Request, Pop, Resume, loop
  <2>2. Only({Starter})
    BY <1>4 DEF EnterLoop, Request, Pop, Resume, Goto, Only, Placed
  <2>3. pc'[Starter] # "wait" /\ (InHand' => InHand)
    BY <1>4 DEF EnterLoop, Request, Pop, Resume, Goto, Placed, InHand
  <2>. QED  BY <2>1, <2>2, <2>3, UnwindingElsewhere, WakesKept
<1>5. CASE LoopSchedule
  <2>1. pc[Starter] = "loop" /\ pc'[Starter] = "wait" /\ busy' = busy
    BY <1>5, GotoEffect DEF LoopSchedule
  <2>2. ready' = (ready \/ busy < WorkerCount)
    BY <1>5 DEF LoopSchedule, PutReady
  <2>3. Claimed' <= WorkerCount + 1
    BY <2>1, <2>2 DEF Wakes, Claimed, InHand
  <2>. QED  BY <2>1, <2>2, <2>3 DEF Wakes, NoLostWakeup
<1>6. CASE LoopWait
  <2>. pc[Starter] = "wait" /\ busy' = busy
    BY <1>6 DEF LoopWait
  <2>1. CASE ready /\ ready' = FALSE /\ Goto(Starter, "request")
    <3>1. pc'[Starter] = "request"
      BY <2>1, GotoEffect
    <3>. QED  BY <2>1, <3>1 DEF Wakes, Claimed, InHand, NoLostWakeup
  <2>2. CASE Goto(Starter, "idle") /\ ready' = ready
    <3>1. pc'[Starter] = "idle"
      BY <2>2, GotoEffect
    <3>. QED  BY <2>2, <3>1 DEF Wakes, Claimed, InHand, NoLostWakeup
  <2>. QED  BY <1>6, <2>1, <2>2 DEF LoopWait
<1>7. ASSUME NEW w \in Workers, Dispatch(w)  PROVE Wakes'
  <2>1. /\ pc[Starter] = "dispatch" /\ pc'[Starter] = "loop"
        /\ busy' = busy + 1 /\ ready' = ready
    BY <1>7 DEF Dispatch, Placed
  <2>2. Claimed' <= WorkerCount + 1
    BY <2>1 DEF Wakes, Claimed, InHand
  <2>. QED  BY <2>1, <2>2 DEF Wakes, NoLostWakeup
<1>8. ASSUME NEW w \in Workers, WorkerStep(w) \/ DoStep(w)
      PROVE  Wakes'
  <2>. w \in Agents
    OBVIOUS
  <2>1. Only({w})
    BY <1>8, WorkerOnly
  <2>2. /\ pc'[Starter] = pc[Starter] /\ (InHand' <=> InHand)
        /\ \A v \in Workers \ {w} : Unwinding(v) => Unwinding(v)'
    BY <2>1, StarterElsewhere, UnwindingElsewhere
  <2>3. CASE TransitStep(w)
    BY <2>3, WakesTransit
  <2>4. CASE Done(w) \/ Recover(w)
    <3>1. busy' = busy - 1 /\ ready' = ready
      BY <2>4 DEF Done, Recover
    <3>2. Unwinding(w)'
      BY <2>4 DEF Done, Recover, Goto, Transit, Placed, Unwinding, Resting
    <3>3. Claimed' <= WorkerCount + 1
      BY <2>2, <3>1 DEF Wakes, Claimed
    <3>. QED  BY <3>2, <3>3 DEF Wakes, NoLostWakeup
  <2>5. CASE Reschedule(w)
    <3>1. busy' = busy /\ ready' = (ready \/ busy < WorkerCount)
      BY <2>5 DEF Reschedule, PutReady
    <3>2. Claimed' <= WorkerCount + 1
      BY <2>2, <3>1 DEF Wakes, Claimed
    <3>. QED  BY <3>1, <3>2 DEF Wakes, NoLostWakeup
  <2>6. CASE DoEndsLate(w)
    <3>1. \/ pc[w] = "drain" /\ pc'[w] = "idle"
          \/ pc'[w] = pc[w] /\ (pc[w] \in Resting \/ frame' = frame)
      BY <2>6, GotoEffect DEF DoEndsLate
    <3>2. Unwinding(w) => Unwinding(w)'
      BY <3>1 DEF Unwinding, Resting
    <3>3. busy' = busy /\ ready' = ready
      BY <2>6 DEF DoEndsLate, loop
    <3>. QED  BY <2>2, <3>2, <3>3, WakesKept
  <2>7. CASE Register(w) \/ StartDo(w) \/ CheckCanceled(w) \/ Unregister(w)
             \/ DoStep(w)
    <3>1. busy' = busy /\ ready' = ready
      BY <2>7 DEF Register, StartDo, CheckCanceled, Unregister, DoStep, DoReturns,
                  DoPanics, ContextEnds, loop
    <3>2. pc[w] \in {"register", "iterate", "check", "unregister", "run"}
      BY <2>7 DEF Register, StartDo, CheckCanceled, Unregister, DoStep, DoReturns,
                  DoPanics, ContextEnds
    <3>3. ~Unwinding(w)
      BY <3>2 DEF Unwinding
    <3>. QED  BY <2>2, <3>1, <3>3, WakesKept
  <2>. QED  BY <1>8, <2>3, <2>4, <2>5, <2>6, <2>7 DEF WorkerStep
<1>9. CASE Restart \/ NilTask
  <2>1. busy' = 0 /\ ready' = FALSE /\ pc'[Starter] = "resume"
    BY <1>9 DEF Restart, NilTask, Reboot
  <2>. QED  BY <2>1 DEF Wakes, Claimed, InHand, NoLostWakeup
<1>10. CASE UNCHANGED <<pc, frame, busy, ready>>
  BY <1>10, WakesKept DEF InHand, Unwinding
<1>. QED
  BY <1>2, <1>3, <1>4, <1>5, <1>6, <1>7, <1>8, <1>9, <1>10, WakesTransit
     DEF Next, HandlerStep, StarterStep, ResumeTimePasses, Shutdown, vars, loop

-----------------------------------------------------------------------------
(***************************************************************************)
(* The theorems.                                                           *)
(***************************************************************************)
QueueInv == Placed /\ Stored /\ BusyAccounted /\ Wakes

LEMMA QueueInit == Init => QueueInv
<1>. SUFFICES ASSUME Init  PROVE QueueInv
  OBVIOUS
<1>. USE AgentKinds
<1>1. Placed
  BY DEF Init, Placed, PCs, Tasked, NoFrame, Frame, Status, Returns
<1>2. Stored
  <2>1. /\ status \in [Tasks -> Status] /\ db \in [Tasks -> Status]
        /\ activeCancels \in [Tasks -> Workers \cup {None}]
    BY DEF Init, Status
  <2>2. /\ due \subseteq Tasks /\ registry = {} /\ stack \in Seq(Tasks)
        /\ activeCanceled = {} /\ dead = {} /\ executing = {} /\ busy = 0
        /\ toResume = {} /\ withdrawn = {} /\ aborted = {}
        /\ calls = 0 /\ crashes = 0 /\ faults = 0
    BY DEF Init
  <2>3. ready \in BOOLEAN /\ stopped \in BOOLEAN
    BY DEF Init
  <2>. QED  BY <2>1, <2>2, <2>3 DEF Stored
<1>3. BusyAccounted
  <2>1. {w \in Workers : Occupied(w)} = {}
    BY DEF Init, Occupied
  <2>. QED  BY <2>1, FS_EmptySet DEF Init, BusyAccounted
<1>4. Wakes
  BY QueueAssumption
     DEF Init, Wakes, Claimed, InHand, NoLostWakeup, QueueAssumption
<1>. QED  BY <1>1, <1>2, <1>3, <1>4 DEF QueueInv

LEMMA QueueInvariant == Spec => []QueueInv
<1>1. QueueInv /\ [Next]_vars => QueueInv'
  BY PlacedStep, StoredStep, BusyStep, WakesStep DEF QueueInv
<1>. QED  BY <1>1, QueueInit, PTL DEF Spec

\* Every variable keeps its type. The busy count is a natural number because
\* it counts goroutines (BusyAccounted), so the unsigned busyWorkers of
\* metric.go never wraps below zero.
THEOREM TypeCorrect == Spec => []TypeOK
<1>1. QueueInv => TypeOK
  <2>. SUFFICES ASSUME QueueInv  PROVE TypeOK
    OBVIOUS
  <2>1. IsFiniteSet({w \in Workers : Occupied(w)})
    BY QueueAssumption, FS_Subset DEF QueueAssumption
  <2>2. busy \in Nat
    BY <2>1, FS_CardinalityType DEF QueueInv, BusyAccounted
  <2>. QED  BY <2>2 DEF QueueInv, Placed, Stored, TypeOK
<1>. QED  BY <1>1, QueueInvariant, PTL

\* busyWorkers is the number of goroutines between IncBusyWorker and
\* DecBusyWorker, through panics, timeouts, shutdowns and restarts.
THEOREM BusyCountsWorkers == Spec => []BusyAccounted
BY QueueInvariant, PTL DEF QueueInv

\* However schedule, the start loop and ending workers interleave, at most
\* one worker beyond WorkerCount is started.
THEOREM AtMostOneExtra == Spec => []OneExtraWorker
<1>1. QueueInv => OneExtraWorker
  <2>. SUFFICES ASSUME QueueInv  PROVE OneExtraWorker
    OBVIOUS
  <2>1. WorkerCount \in Nat /\ busy \in Int
    BY QueueAssumption DEF QueueAssumption, QueueInv, Stored
  <2>. QED  BY <2>1 DEF QueueInv, Wakes, Claimed, OneExtraWorker
<1>. QED  BY <1>1, QueueInvariant, PTL

\* The start loop never sleeps for good next to a free worker.
THEOREM WakeupsReachTheLoop == Spec => []NoLostWakeup
<1>1. QueueInv => NoLostWakeup
  BY DEF QueueInv, Wakes
<1>. QED  BY <1>1, QueueInvariant, PTL

-----------------------------------------------------------------------------
(***************************************************************************)
(* Proofs of what the queue promises to a Do: it is never started twice    *)
(* for one task, nor for a task that has come to its end.                  *)
(*                                                                         *)
(* The argument: a task has at most one claim. A claim is held by the      *)
(* agent that may still run the task, queue it or persist the result of    *)
(* its run, and by the goroutine of a Do that was left behind. A task that *)
(* is claimed is not on the stack, a task on the stack is there once, and  *)
(* the start loop, QueueTask and the resumption at start-up hand the claim *)
(* over and never copy it.                                                 *)
(***************************************************************************)

Writing == {"lookup", "assign", "exec"}

\* transitStatus called from CancelTask, and persistTask from UpdateTask
Outside == {"withdrawn", "aborted", "updated"}

Holds(a) ==
  \/ pc[a] \in {"register", "iterate", "run", "check", "panicked", "enqueue",
                "push", "dispatch"}
  \/ pc[a] \in Writing /\ frame[a].ret \notin Outside

Claims(a) == Holds(a) \/ a \in executing

Untouched(t) ==
  /\ ~Waiting(t)
  /\ \A a \in Agents : Claims(a) => frame[a].task # t

OneClaim ==
  /\ \A i, j \in DOMAIN stack : stack[i] = stack[j] => i = j
  /\ \A a, b \in Agents :
       Claims(a) /\ Claims(b) /\ frame[a].task = frame[b].task => a = b
  /\ \A a \in Agents : Claims(a) => ~Waiting(frame[a].task)
  /\ \A t \in toResume : Untouched(t)
  /\ \A t \in Tasks : db[t] = "new" => Untouched(t) /\ t \notin toResume

\* where a worker may be whose Do has not returned
Leftover(w) ==
  \/ pc[w] \in {"run", "done", "schedule", "unregister", "drain"}
  \/ pc[w] = "check" /\ frame[w].to # "suspending"
  \/ pc[w] \in Writing /\ frame[w].ret = "done"

LeftBehind == \A w \in executing : Leftover(w)

\* no status is ever set back to the empty one
Written ==
  \A a \in Agents :
    /\ pc[a] \in Writing \cup {"check"} => frame[a].to # "new"
    /\ pc[a] \in Writing /\ frame[a].ret = "iterate"
         => frame[a].to = "processing"

\* nobody can run t any more: what is left to be done for it is to persist
\* the result of its run
Finishing(a) == pc[a] \in Writing /\ frame[a].ret \in {"done", "schedule"}

Settled(t) ==
  /\ ~Waiting(t) /\ t \notin toResume /\ db[t] # "new"
  /\ \A a \in Agents : Holds(a) /\ frame[a].task = t => Finishing(a)

\* Whoever writes that a task completed or failed, UpdateTask with a status it
\* has read included, does so when nobody can run the task any more.
Settling ==
  /\ \A t \in toResume : db[t] \notin {"completed", "error"}
  /\ \A t \in Tasks : status[t] \in {"completed", "error"} => Settled(t)
  /\ \A a \in Agents :
       /\ pc[a] \in Writing /\ frame[a].to \in {"completed", "error"}
            => Settled(frame[a].task)
       /\ pc[a] = "update" => status[frame[a].task] # "new"

Unfinished ==
  \A w \in Workers : pc[w] = "iterate"
    => db[frame[w].task] \notin {"completed", "error"}

Exclusive == OneClaim /\ LeftBehind /\ Written /\ Settling /\ Unfinished

(***************************************************************************)
(* LeftBehind and Written.                                                 *)
(***************************************************************************)
LEMMA LeftElsewhere ==
  ASSUME LeftBehind, NEW A \in SUBSET Agents, Only(A),
         NEW w \in executing, w \in Agents \ A
  PROVE  Leftover(w)'
BY DEF LeftBehind, Leftover, Only

LEMMA WrittenElsewhere ==
  ASSUME Written, NEW A \in SUBSET Agents, Only(A), NEW a \in Agents \ A
  PROVE  /\ pc'[a] \in Writing \cup {"check"} => frame'[a].to # "new"
         /\ pc'[a] \in Writing /\ frame'[a].ret = "iterate"
              => frame'[a].to = "processing"
BY DEF Written, Only

LEMMA WrittenStep ==
  ASSUME Placed, Stored, Written, Settling, [Next]_vars
  PROVE  Written'
<1>. USE AgentKinds
<1>1. ASSUME NEW a \in Agents, Only({a}), pc'[a] \notin Writing \cup {"check"}
      PROVE  Written'
  BY <1>1, WrittenElsewhere DEF Written
<1>2. ASSUME NEW a \in Agents, NEW t, NEW to \in Status \ {"new"},
             NEW r, Only({a}), frame'[a] = [task |-> t, to |-> to, ret |-> r],
             r = "iterate" => to = "processing"
      PROVE  Written'
  BY <1>2, WrittenElsewhere DEF Written
<1>3. ASSUME NEW a \in Agents, TransitStep(a)  PROVE Written'
  <2>1. Only({a})
    BY <1>3, TransitStepEffect
  <2>2. CASE pc'[a] \notin Writing
    <3>1. pc'[a] # "check"
      <4>1. \A ok \in BOOLEAN : Goto(a, Continue(a, ok)) => pc'[a] = Continue(a, ok)
        BY GotoEffect
      <4>2. Goto(a, Home(a)) => pc'[a] = Home(a)
        BY GotoEffect
      <4>. QED  BY <1>3, <4>1, <4>2, TransitStepEffect, ContinuePlace, HomePlace
    <3>. QED  BY <1>1, <2>1, <2>2, <3>1 DEF Writing
  <2>3. CASE pc'[a] \in {"assign", "exec"} /\ pc[a] \in {"lookup", "assign"}
             /\ frame'[a] = frame[a]
    BY <2>1, <2>3, WrittenElsewhere DEF Written, Writing
  <2>4. CASE frame'[a] = [task |-> frame[a].task, to |-> "queued", ret |-> "push"]
    BY <1>2, <2>1, <2>4 DEF Status, Active
  <2>5. \/ pc'[a] \notin Writing
        \/ pc'[a] \in {"assign", "exec"} /\ pc[a] \in {"lookup", "assign"}
             /\ frame'[a] = frame[a]
        \/ frame'[a] = [task |-> frame[a].task, to |-> "queued", ret |-> "push"]
    <3>1. ASSUME NEW ok \in BOOLEAN, Goto(a, Continue(a, ok))
          PROVE  pc'[a] \notin Writing
      <4>1. pc'[a] = Continue(a, ok)
        BY <3>1, GotoEffect
      <4>. QED  BY <4>1, ContinuePlace, HomePlace DEF Writing
    <3>2. Goto(a, Home(a)) => pc'[a] \notin Writing
      BY GotoEffect, HomePlace DEF Writing
    <3>3. \/ /\ pc'[a] \in {"assign", "exec", "set", "push"}
             /\ frame'[a] = frame[a]
             /\ pc'[a] \in {"assign", "exec"} <=> pc[a] \in {"lookup", "assign"}
          \/ \E ok \in BOOLEAN : Goto(a, Continue(a, ok))
          \/ Goto(a, Home(a))
          \/ frame'[a] = [task |-> frame[a].task, to |-> "queued", ret |-> "push"]
      BY <1>3, TransitStepEffect
    <3>. QED  BY <3>1, <3>2, <3>3 DEF Writing
  <2>. QED  BY <2>2, <2>3, <2>4, <2>5
<1>4. ASSUME NEW c \in Callers, Signal(c) \/ Remove(c) \/ ReadStatus(c)
      PROVE  Written'
  <2>1. CASE Goto(c, "idle")
    <3>1. Only({c}) /\ pc'[c] = "idle"
      BY <2>1, GotoEffect
    <3>. QED  BY <1>1, <3>1 DEF Writing
  <2>2. ASSUME NEW r \in {"aborted", "withdrawn"},
               Transit(c, frame[c].task, "canceled", r)
        PROVE  Written'
    <3>1. Only({c}) /\ frame'[c] = [task |-> frame[c].task, to |-> "canceled", ret |-> r]
      BY <2>2 DEF Transit, Placed, Only
    <3>. QED  BY <1>2, <2>2, <3>1 DEF Status, Terminal
  <2>3. CASE ReadStatus(c)
    <3>1. status[frame[c].task] \in Status \ {"new"}
      BY <2>3, ReadStatusEffect DEF Settling, Stored
    <3>2. /\ Only({c})
          /\ frame'[c] = [task |-> frame[c].task, to |-> status[frame[c].task],
                          ret |-> "updated"]
      BY <2>3, ReadStatusEffect
    <3>. QED  BY <1>2, <3>1, <3>2
  <2>. QED  BY <1>4, <2>1, <2>2, <2>3 DEF Signal, Remove
<1>5. ASSUME NEW c \in Callers, NEW t \in Tasks, Submit(c, t) \/ Cancel(c, t)
      PROVE  Written'
  <2>1. Only({c}) /\ pc'[c] \in {"push", "signal", "remove"}
    BY <1>5 DEF Submit, Cancel, Only, Placed
  <2>. QED  BY <1>1, <2>1 DEF Writing
<1>6. ASSUME NEW c \in Callers, NEW t \in Tasks, Update(c, t)  PROVE Written'
  <2>1. CASE pc' = [pc EXCEPT ![c] = "update"]
    <3>1. Only({c}) /\ pc'[c] = "update"
      BY <1>6, <2>1 DEF Update, Only, Placed
    <3>. QED  BY <1>1, <3>1 DEF Writing
  <2>2. ASSUME NEW s \in {"processing", "suspending"}, frame' =
                 [frame EXCEPT ![c] = [task |-> t, to |-> s, ret |-> "updated"]]
        PROVE  Written'
    <3>1. Only({c}) /\ frame'[c] = [task |-> t, to |-> s, ret |-> "updated"]
      BY <1>6, <2>2 DEF Update, Only, Placed
    <3>. QED  BY <1>2, <2>2, <3>1 DEF Status, Active
  <2>. QED  BY <1>6, <2>1, <2>2 DEF Update
<1>7. CASE \/ \E t \in Tasks : Resume(t)
           \/ EnterLoop \/ LoopSchedule \/ LoopWait \/ Request \/ Pop
  <2>1. /\ Only({Starter})
        /\ pc'[Starter] \in {"enqueue", "loop", "wait", "request", "idle", "locked",
                             "dispatch"}
    BY <1>7 DEF Resume, EnterLoop, LoopSchedule, LoopWait, Request, Pop, Goto,
                Only, Placed
  <2>. QED  BY <1>1, <2>1 DEF Writing
<1>8. ASSUME NEW w \in Workers, Dispatch(w)  PROVE Written'
  <2>1. Only({Starter, w}) /\ pc'[Starter] = "loop" /\ pc'[w] = "register"
    BY <1>8 DEF Dispatch, Only, Placed
  <2>. QED  BY <2>1, WrittenElsewhere DEF Written, Writing
<1>9. ASSUME NEW w \in Workers, Register(w) \/ CheckCanceled(w) \/ Recover(w)
      PROVE  Written'
  <2>1. CASE Goto(w, "done")
    <3>1. Only({w}) /\ pc'[w] = "done"
      BY <2>1, GotoEffect
    <3>. QED  BY <1>1, <3>1 DEF Writing
  <2>2. ASSUME NEW to \in Status \ {"new"}, NEW r \in {"iterate", "schedule",
                                                       "enqueue", "done"},
               r = "iterate" => to = "processing",
               Transit(w, frame[w].task, to, r)
        PROVE  Written'
    <3>1. Only({w}) /\ frame'[w] = [task |-> frame[w].task, to |-> to, ret |-> r]
      BY <2>2 DEF Transit, Placed, Only
    <3>. QED  BY <1>2, <2>2, <3>1
  <2>3. CASE Register(w)
    BY <2>2, <2>3 DEF Register, Status, Active
  <2>4. CASE Recover(w)
    BY <2>2, <2>4 DEF Recover, Status, Terminal
  <2>5. CASE CheckCanceled(w)
    <3>1. frame[w].to \in Status \ {"new"}
      BY <2>5 DEF CheckCanceled, Written, Placed, Frame
    <3>2. \/ Goto(w, "done")
          \/ Transit(w, frame[w].task, frame[w].to, "enqueue")
          \/ Transit(w, frame[w].task, frame[w].to, "done")
      BY <2>5 DEF CheckCanceled
    <3>. QED  BY <2>1, <2>2, <3>1, <3>2
  <2>. QED  BY <1>9, <2>3, <2>4, <2>5
<1>10. ASSUME NEW w \in Workers,
              StartDo(w) \/ Done(w) \/ Reschedule(w) \/ Unregister(w) \/ DoPanics(w)
       PROVE  Written'
  <2>1. /\ Only({w})
        /\ pc'[w] \in {"run", "schedule", "unregister", "drain", "idle", "panicked"}
    BY <1>10, GotoEffect DEF StartDo, Done, Reschedule, Unregister, DoPanics
  <2>. QED  BY <1>1, <2>1 DEF Writing
<1>11. ASSUME NEW w \in Workers, DoEndsLate(w)  PROVE Written'
  <2>1. /\ Only({w})
        /\ \/ pc'[w] = "idle"
           \/ pc'[w] = pc[w] /\ (pc[w] \in Resting \/ frame' = frame)
    BY <1>11, GotoEffect DEF DoEndsLate
  <2>2. CASE pc'[w] \in Resting \cup {"idle"}
    BY <1>1, <2>1, <2>2 DEF Writing, Resting
  <2>3. CASE pc'[w] = pc[w] /\ frame' = frame
    BY <2>1, <2>3, WrittenElsewhere DEF Written
  <2>. QED  BY <2>1, <2>2, <2>3
<1>12. ASSUME NEW w \in Workers, NEW s \in Status \ {"new"}, pc[w] = "run",
              frame' = [frame EXCEPT ![w].to = s],
              pc' = [pc EXCEPT ![w] = "check"]
       PROVE  Written'
  <2>1. Only({w}) /\ pc'[w] = "check" /\ frame'[w].to = s
    BY <1>12 DEF Only, Placed, Frame
  <2>. QED  BY <1>12, <2>1, WrittenElsewhere DEF Written, Writing
<1>13. ASSUME NEW w \in Workers, NEW next \in Outcomes \ {"panic"},
              NEW later \in BOOLEAN, DoReturns(w, next, later)
       PROVE  Written'
  <2>1. next \in Status \ {"new"}
    BY QueueAssumption DEF QueueAssumption, Status, Active, Terminal
  <2>. QED  BY <1>12, <1>13, <2>1 DEF DoReturns
<1>14. ASSUME NEW w \in Workers, ContextEnds(w)  PROVE Written'
  <2>1. PICK s \in {"canceled", "error"} : frame' = [frame EXCEPT ![w].to = s]
    BY <1>14 DEF ContextEnds
  <2>. QED  BY <1>12, <1>14, <2>1 DEF ContextEnds, Status, Terminal
<1>15. CASE Restart \/ NilTask
  <2>1. \A a \in Agents : pc'[a] \in {"resume", "idle"}
    BY <1>15 DEF Restart, NilTask, Reboot
  <2>. QED  BY <2>1 DEF Written, Writing
<1>16. CASE UNCHANGED <<pc, frame>>
  BY <1>16 DEF Written
<1>. QED
  BY <1>3, <1>4, <1>5, <1>6, <1>7, <1>8, <1>9, <1>10, <1>11, <1>13, <1>14,
     <1>15, <1>16
     DEF Next, HandlerStep, StarterStep, WorkerStep, DoStep, ResumeTimePasses,
         Shutdown, vars

\* where transitStatus goes on, exactly
LEMMA ContinueCases ==
  ASSUME NEW a \in Agents, NEW ok \in BOOLEAN
  PROVE  /\ frame[a].ret = "iterate" => Continue(a, ok) \in {"iterate", "panicked"}
         /\ frame[a].ret = "enqueue" => Continue(a, ok) \in {"enqueue", Home(a)}
         /\ frame[a].ret = "push" => Continue(a, ok) \in {"push", Home(a)}
         /\ frame[a].ret \notin {"iterate", "enqueue", "push", "schedule"}
              => Continue(a, ok) = Home(a)
         /\ Continue(a, ok) = "iterate" => frame[a].ret = "iterate" /\ ok
BY HomePlace DEF Continue

LEMMA LeftBehindStep ==
  ASSUME Placed, Stored, LeftBehind, [Next]_vars
  PROVE  LeftBehind'
<1>. USE AgentKinds
<1>. executing \subseteq Workers
  BY DEF Stored
<1>1. ASSUME NEW a \in Agents, Only({a}), executing' \subseteq executing \cup {a},
             a \in executing' => Leftover(a)'
      PROVE  LeftBehind'
  BY <1>1, LeftElsewhere DEF LeftBehind
<1>2. ASSUME NEW a \in Agents, TransitStep(a)  PROVE LeftBehind'
  <2>1. Only({a}) /\ executing' = executing
    BY <1>2, TransitStepEffect
       DEF TransitStep, Lookup, Assign, Exec, Enqueue, Push, SetRegistry
  <2>2. ASSUME a \in executing  PROVE Leftover(a)'
    <3>1. pc[a] \in Writing /\ frame[a].ret = "done" /\ a \in Workers
      BY <1>2, <2>2, TransitStepEffect DEF LeftBehind, Leftover, Writing
    <3>2. ASSUME NEW ok \in BOOLEAN, Goto(a, Continue(a, ok))
          PROVE  pc'[a] = "done"
      <4>1. pc'[a] = Continue(a, ok)
        BY <3>2, GotoEffect
      <4>. QED  BY <3>1, <4>1, ContinueCases, HomePlace
    <3>3. pc'[a] = "done" \/ (pc'[a] \in {"assign", "exec"} /\ frame'[a] = frame[a])
      BY <1>2, <3>1, <3>2, TransitStepEffect DEF Writing
    <3>. QED  BY <3>1, <3>3 DEF Leftover, Writing
  <2>. QED  BY <1>1, <2>1, <2>2
<1>3. ASSUME NEW c \in Callers \cup {Starter}, Only({c}), executing' = executing
      PROVE  LeftBehind'
  BY <1>1, <1>3
<1>4. ASSUME NEW c \in Callers, Signal(c) \/ Remove(c) \/ ReadStatus(c)
      PROVE  LeftBehind'
  <2>1. Only({c}) /\ executing' = executing
    BY <1>4, TransitEffect, GotoEffect, ReadStatusEffect DEF Signal, Remove
  <2>. QED  BY <1>3, <2>1
<1>5. ASSUME NEW c \in Callers, NEW t \in Tasks,
             Submit(c, t) \/ Cancel(c, t) \/ Update(c, t)
      PROVE  LeftBehind'
  <2>1. Only({c}) /\ executing' = executing
    BY <1>5 DEF Submit, Cancel, Update, Only, Placed
  <2>. QED  BY <1>3, <2>1
<1>6. CASE \/ \E t \in Tasks : Resume(t)
           \/ EnterLoop \/ LoopSchedule \/ LoopWait \/ Request \/ Pop
  <2>1. Only({Starter}) /\ executing' = executing
    BY <1>6 DEF Resume, EnterLoop, LoopSchedule, LoopWait, Request, Pop, Goto,
                Only, Placed
  <2>. QED  BY <1>3, <2>1
<1>7. ASSUME NEW w \in Workers, Dispatch(w)  PROVE LeftBehind'
  <2>1. Only({Starter, w}) /\ executing' = executing /\ pc[w] = "idle"
    BY <1>7 DEF Dispatch, Only, Placed
  <2>2. w \notin executing
    BY <2>1 DEF LeftBehind, Leftover, Writing
  <2>. QED  BY <2>1, <2>2, LeftElsewhere DEF LeftBehind
<1>8. ASSUME NEW w \in Workers, WorkerStep(w) \/ DoStep(w)  PROVE LeftBehind'
  <2>. w \in Agents
    OBVIOUS
  <2>1. Only({w})
    BY <1>8, WorkerOnly
  <2>2. CASE TransitStep(w)
    BY <1>2, <2>2
  <2>3. CASE Register(w) \/ Recover(w)
    <3>1. pc[w] \in {"register", "panicked"} /\ executing' = executing
      BY <2>3 DEF Register, Recover
    <3>2. w \notin executing
      BY <3>1 DEF LeftBehind, Leftover, Writing
    <3>. QED  BY <1>1, <2>1, <3>1, <3>2
  <2>4. CASE StartDo(w)
    <3>1. executing' = executing \cup {w} /\ pc'[w] = "run"
      BY <2>4, GotoEffect DEF StartDo
    <3>. QED  BY <1>1, <2>1, <3>1 DEF Leftover
  <2>5. CASE CheckCanceled(w)
    <3>1. executing' = executing /\ pc[w] = "check"
      BY <2>5 DEF CheckCanceled
    <3>2. ASSUME w \in executing  PROVE Leftover(w)'
      <4>1. frame[w].to # "suspending"
        BY <3>1, <3>2 DEF LeftBehind, Leftover, Writing
      <4>2. Goto(w, "done") \/ Transit(w, frame[w].task, frame[w].to, "done")
        BY <2>5, <4>1 DEF CheckCanceled
      <4>3. CASE Goto(w, "done")
        BY <4>3, GotoEffect DEF Leftover
      <4>4. CASE Transit(w, frame[w].task, frame[w].to, "done")
        <5>1. pc'[w] = "lookup" /\ frame'[w].ret = "done"
          BY <4>4 DEF Transit, Placed
        <5>. QED  BY <5>1 DEF Leftover, Writing
      <4>. QED  BY <4>2, <4>3, <4>4
    <3>. QED  BY <1>1, <2>1, <3>1, <3>2
  <2>6. CASE Done(w) \/ Reschedule(w)
    <3>1. executing' = executing /\ pc'[w] \in {"schedule", "unregister"}
      BY <2>6, GotoEffect DEF Done, Reschedule
    <3>. QED  BY <1>1, <2>1, <3>1 DEF Leftover
  <2>7. CASE Unregister(w)
    <3>1. executing' = executing /\ (w \in executing => pc'[w] = "drain")
      BY <2>7, GotoEffect DEF Unregister
    <3>. QED  BY <1>1, <2>1, <3>1 DEF Leftover
  <2>8. CASE \/ DoEndsLate(w) \/ DoPanics(w)
             \/ \E next \in Outcomes \ {"panic"}, later \in BOOLEAN :
                   DoReturns(w, next, later)
    <3>1. executing' = executing \ {w}
      BY <2>8 DEF DoEndsLate, DoPanics, DoReturns
    <3>. QED  BY <1>1, <2>1, <3>1
  <2>9. CASE ContextEnds(w)
    <3>1. executing' = executing /\ pc'[w] = "check" /\ frame'[w].to # "suspending"
      BY <2>9 DEF ContextEnds, Placed, Frame
    <3>. QED  BY <1>1, <2>1, <3>1 DEF Leftover
  <2>. QED
    BY <1>8, <2>2, <2>3, <2>4, <2>5, <2>6, <2>7, <2>8, <2>9
       DEF WorkerStep, DoStep
<1>9. CASE Restart \/ NilTask
  <2>1. executing' = {}
    BY <1>9 DEF Restart, NilTask, Reboot
  <2>. QED  BY <2>1 DEF LeftBehind
<1>10. CASE UNCHANGED <<pc, frame, executing>>
  BY <1>10 DEF LeftBehind, Leftover
<1>. QED
  BY <1>2, <1>4, <1>5, <1>6, <1>7, <1>8, <1>9, <1>10
     DEF Next, HandlerStep, StarterStep, ResumeTimePasses, Shutdown, vars

(***************************************************************************)
(* OneClaim.                                                               *)
(***************************************************************************)
Distinct == \A i, j \in DOMAIN stack : stack[i] = stack[j] => i = j

\* nobody gets a claim
LEMMA ClaimsKept ==
  ASSUME OneClaim, Distinct', \A t : Waiting(t)' => Waiting(t),
         toResume' \subseteq toResume,
         \A t \in Tasks : db'[t] = "new" => db[t] = "new",
         \A a \in Agents : Claims(a)' => Claims(a) /\ frame'[a].task = frame[a].task
  PROVE  OneClaim'
BY DEF OneClaim, Distinct, Untouched

\* v gets the claim of t, which nobody else keeps
LEMMA ClaimMoves ==
  ASSUME OneClaim, Distinct', NEW v \in Agents, NEW t, frame'[v].task = t,
         \A u : Waiting(u)' => Waiting(u) /\ u # t,
         toResume' \subseteq toResume \ {t},
         \A u \in Tasks : db'[u] = "new" => db[u] = "new" /\ u # t,
         \A a \in Agents \ {v} : Claims(a)' =>
           Claims(a) /\ frame'[a].task = frame[a].task /\ frame[a].task # t
  PROVE  OneClaim'
BY DEF OneClaim, Distinct, Untouched

LEMMA ClaimsElsewhere ==
  ASSUME NEW A \in SUBSET Agents, Only(A), executing' \subseteq executing \cup A
  PROVE  \A a \in Agents \ A :
           Claims(a)' => Claims(a) /\ frame'[a].task = frame[a].task
BY DEF Claims, Holds, Only

\* transitStatus and QueueTask never claim a task anew
LEMMA TransitClaims ==
  ASSUME Placed, Stored, NEW a \in Agents, TransitStep(a), executing' = executing
  PROVE  \A b \in Agents : Claims(b)' => Claims(b) /\ frame'[b].task = frame[b].task
<1>. USE AgentKinds
<1>. executing \subseteq Workers
  BY DEF Stored
<1>1. Only({a})
  BY TransitStepEffect
<1>2. Claims(a)' => Claims(a) /\ frame'[a].task = frame[a].task
  <2>1. CASE /\ pc'[a] \in {"assign", "exec", "set", "push"}
             /\ frame'[a] = frame[a]
             /\ pc[a] \in {"lookup", "assign", "enqueue", "push"}
             /\ pc'[a] \in {"assign", "exec"} <=> pc[a] \in {"lookup", "assign"}
    BY <2>1 DEF Claims, Holds, Writing
  <2>2. ASSUME NEW p, Goto(a, p), p \notin Resting,
               pc[a] \in Writing \cup {"enqueue", "push", "set"},
               p \in {"iterate", "panicked", "enqueue", "push"} => Holds(a),
               p \in {"iterate", "panicked", "enqueue", "push", "schedule", "done"}
        PROVE  Claims(a)' => Claims(a) /\ frame'[a].task = frame[a].task
    <3>1. pc'[a] = p /\ frame' = frame
      BY <2>2, GotoEffect
    <3>. QED  BY <2>2, <3>1 DEF Claims, Holds, Writing
  <2>3. ASSUME Goto(a, Home(a)), pc[a] \in Writing \cup {"enqueue", "push", "set"}
        PROVE  Claims(a)' => Claims(a) /\ frame'[a].task = frame[a].task
    <3>1. CASE a \in Workers
      BY <2>2, <2>3, <3>1, HomePlace DEF Resting
    <3>2. CASE a \notin Workers
      <4>1. Home(a) \in Resting
        BY <3>2 DEF Home, Resting
      <4>2. pc'[a] \in Resting
        BY <2>3, <4>1, GotoEffect
      <4>. QED  BY <3>2, <4>2 DEF Claims, Holds, Resting, Writing
    <3>. QED  BY <3>1, <3>2
  <2>4. ASSUME NEW ok \in BOOLEAN, pc[a] \in {"lookup", "exec"},
               Goto(a, Continue(a, ok))
        PROVE  Claims(a)' => Claims(a) /\ frame'[a].task = frame[a].task
    <3>. pc[a] \in Writing
      BY <2>4 DEF Writing
    <3>1. CASE Continue(a, ok) = Home(a)
      BY <2>3, <2>4, <3>1
    <3>2. CASE Continue(a, ok) # Home(a)
      <4>1. Continue(a, ok) \in {"iterate", "panicked", "enqueue", "push", "schedule"}
        BY <3>2, ContinuePlace
      <4>2. frame[a].ret \in {"iterate", "enqueue", "push", "schedule"}
        BY <3>2, ContinueCases
      <4>3. Holds(a)
        BY <4>2 DEF Holds, Outside
      <4>. QED  BY <2>2, <2>4, <4>1, <4>3 DEF Resting
    <3>. QED  BY <3>1, <3>2
  <2>5. CASE /\ pc[a] = "enqueue" /\ pc'[a] = "lookup"
             /\ frame'[a] = [task |-> frame[a].task, to |-> "queued", ret |-> "push"]
    BY <2>5 DEF Claims, Holds
  <2>6. CASE pc[a] \in {"enqueue", "push", "set"} /\ Goto(a, Home(a))
    BY <2>3, <2>6
  <2>. QED  BY <2>1, <2>4, <2>5, <2>6, TransitStepEffect
<1>. QED  BY <1>1, <1>2, ClaimsElsewhere

LEMMA PushClaims ==
  ASSUME Placed, Stored, OneClaim, LeftBehind, NEW a \in Agents,
         pc[a] = "push", Goto(a, "set"), executing' = executing,
         stack' = Append(stack, frame[a].task), UNCHANGED <<db, toResume>>
  PROVE  OneClaim'
<1>. DEFINE t == frame[a].task
<1>. t \in Tasks /\ stack \in Seq(Tasks)
  BY DEF Placed, Stored, Tasked, PCs
<1>1. Only({a}) /\ pc'[a] = "set"
  BY GotoEffect
<1>2. Claims(a) /\ a \notin executing
  BY DEF Claims, Holds, LeftBehind, Leftover, Writing
<1>3. ~Claims(a)'
  BY <1>1, <1>2 DEF Claims, Holds, Writing
<1>4. \A b \in Agents : Claims(b)' => b # a /\ Claims(b) /\ frame'[b].task = frame[b].task
  BY <1>1, <1>3, ClaimsElsewhere
<1>5. ~Waiting(t)
  BY <1>2 DEF OneClaim
<1>6. /\ Len(stack') = Len(stack) + 1 /\ stack'[Len(stack) + 1] = t
      /\ DOMAIN stack' = 1 .. Len(stack) + 1 /\ DOMAIN stack = 1 .. Len(stack)
      /\ \A i \in 1 .. Len(stack) : stack'[i] = stack[i]
  OBVIOUS
<1>7. \A u : Waiting(u)' => Waiting(u) \/ u = t
  BY <1>6 DEF Waiting
<1>8. Distinct'
  <2>1. \A i, j \in 1 .. Len(stack) : stack[i] = stack[j] => i = j
    BY <1>6 DEF OneClaim
  <2>2. \A i \in 1 .. Len(stack) : stack[i] # t
    BY <1>5, <1>6 DEF Waiting
  <2>. QED  BY <1>6, <2>1, <2>2 DEF Distinct
<1>. HIDE DEF t
<1>9. \A u \in Tasks : Untouched(u) => u # t /\ Untouched(u)'
  BY <1>2, <1>4, <1>7 DEF Untouched, t
<1>10. \A b \in Agents : Claims(b)' => ~Waiting(frame[b].task)'
  <2>. SUFFICES ASSUME NEW b \in Agents, Claims(b)'
                PROVE  ~Waiting(frame[b].task)'
    OBVIOUS
  <2>1. b # a /\ Claims(b) /\ frame'[b].task = frame[b].task
    BY <1>4
  <2>2. frame[b].task # t /\ ~Waiting(frame[b].task)
    BY <1>2, <2>1 DEF OneClaim, t
  <2>. QED  BY <1>7, <2>1, <2>2
<1>. QED
  BY <1>4, <1>8, <1>9, <1>10 DEF OneClaim, Distinct, Stored

LEMMA RemoveStack ==
  ASSUME Stored, Distinct, NEW k \in DOMAIN stack, stack' = Without(stack, k)
  PROVE  Distinct' /\ \A t : Waiting(t)' => Waiting(t) /\ t # stack[k]
<1>. stack \in Seq(Tasks) /\ DOMAIN stack = 1 .. Len(stack) /\ Len(stack) \in Nat
  BY DEF Stored
<1>1. /\ DOMAIN stack' = 1 .. Len(stack) - 1
      /\ \A j \in 1 .. Len(stack) - 1 :
           stack'[j] = stack[IF j < k THEN j ELSE j + 1]
  BY DEF Without
<1>. DEFINE at(j) == IF j < k THEN j ELSE j + 1
<1>2. \A j \in 1 .. Len(stack) - 1 : at(j) \in DOMAIN stack \ {k}
  OBVIOUS
<1>3. \A i, j \in 1 .. Len(stack) - 1 : at(i) = at(j) => i = j
  OBVIOUS
<1>4. \A j \in DOMAIN stack' : stack'[j] = stack[at(j)]
  BY <1>1
<1>. HIDE DEF at
<1>5. Distinct'
  BY <1>1, <1>2, <1>3, <1>4 DEF Distinct
<1>6. ASSUME NEW t, Waiting(t)'
      PROVE  Waiting(t) /\ t # stack[k]
  BY <1>1, <1>2, <1>4, <1>6 DEF Waiting, Distinct
<1>. QED  BY <1>5, <1>6

LEMMA PopStack ==
  ASSUME Stored, Distinct, stack # <<>>,
         stack' = SubSeq(stack, 1, Len(stack) - 1)
  PROVE  /\ Distinct' /\ Waiting(Top) /\ Top \in Tasks
         /\ \A t : Waiting(t)' => Waiting(t) /\ t # Top
<1>. stack \in Seq(Tasks) /\ DOMAIN stack = 1 .. Len(stack) /\ Len(stack) \in Nat \ {0}
  BY DEF Stored
<1>1. DOMAIN stack' = 1 .. Len(stack) - 1
  OBVIOUS
<1>2. \A j \in 1 .. Len(stack) - 1 : stack'[j] = stack[j]
  OBVIOUS
<1>3. Top = stack[Len(stack)] /\ Len(stack) \in DOMAIN stack
  BY DEF Top
<1>. QED  BY <1>1, <1>2, <1>3 DEF Distinct, Waiting

\* the steps of a worker that are no part of transitStatus
WorkStep(w) ==
  \/ Register(w) \/ StartDo(w) \/ CheckCanceled(w) \/ Done(w) \/ Recover(w)
  \/ Reschedule(w) \/ Unregister(w) \/ DoEndsLate(w) \/ DoStep(w)

\* they leave the rows and the waiting list alone and claim nothing
LEMMA WorkClaims ==
  ASSUME Placed, Stored, NEW w \in Workers, WorkStep(w)
  PROVE  /\ UNCHANGED <<db, stack, toResume>>
         /\ executing' \subseteq executing \cup {w}
         /\ Claims(w)' => Claims(w) /\ frame'[w].task = frame[w].task
<1>. USE AgentKinds
<1>. w \in Agents
  OBVIOUS
<1>1. CASE Register(w) \/ CheckCanceled(w) \/ Recover(w)
  <2>1. /\ UNCHANGED <<db, stack, toResume, executing>>
        /\ pc[w] \in {"register", "check", "panicked"}
        /\ frame'[w].task = frame[w].task
    BY <1>1 DEF Register, CheckCanceled, Recover, Transit, Goto, Resting, Placed,
                memory
  <2>2. Claims(w)
    BY <2>1 DEF Claims, Holds
  <2>. QED  BY <2>1, <2>2
<1>2. CASE StartDo(w) \/ DoPanics(w)
  <2>1. /\ UNCHANGED <<db, stack, toResume>> /\ executing' \subseteq executing \cup {w}
        /\ pc[w] \in {"iterate", "run"} /\ frame' = frame
    BY <1>2 DEF StartDo, DoPanics, Goto, Resting, memory
  <2>2. Claims(w)
    BY <2>1 DEF Claims, Holds
  <2>. QED  BY <2>1, <2>2
<1>3. CASE \/ ContextEnds(w)
           \/ \E next \in Outcomes \ {"panic"}, later \in BOOLEAN :
                 DoReturns(w, next, later)
  <2>1. /\ UNCHANGED <<db, stack, toResume>> /\ executing' \subseteq executing
        /\ pc[w] = "run" /\ frame'[w].task = frame[w].task
    BY <1>3 DEF ContextEnds, DoReturns, Placed, Frame, memory
  <2>2. Claims(w)
    BY <2>1 DEF Claims, Holds
  <2>. QED  BY <2>1, <2>2
<1>4. CASE Done(w) \/ Reschedule(w)
  <2>1. /\ UNCHANGED <<db, stack, toResume, executing>> /\ frame' = frame
        /\ pc'[w] \in {"schedule", "unregister"}
    BY <1>4, GotoEffect DEF Done, Reschedule, Resting, memory
  <2>2. Claims(w)' => Claims(w)
    BY <2>1 DEF Claims, Holds, Writing
  <2>. QED  BY <2>1, <2>2
<1>5. CASE Unregister(w)
  <2>1. UNCHANGED <<db, stack, toResume, executing>>
    BY <1>5 DEF Unregister, memory
  <2>2. CASE w \in executing
    <3>1. frame' = frame
      BY <1>5, <2>2 DEF Unregister, Goto, Resting
    <3>. QED  BY <2>1, <2>2, <3>1 DEF Claims
  <2>3. CASE w \notin executing
    <3>1. pc'[w] = "idle"
      BY <1>5, <2>3, GotoEffect DEF Unregister
    <3>2. ~Claims(w)'
      BY <2>1, <2>3, <3>1 DEF Claims, Holds, Writing
    <3>. QED  BY <2>1, <3>2
  <2>. QED  BY <2>2, <2>3
<1>6. CASE DoEndsLate(w)
  <2>1. /\ UNCHANGED <<db, stack, toResume>> /\ executing' = executing \ {w}
        /\ w \in executing
        /\ \/ pc'[w] = "idle"
           \/ pc'[w] = pc[w] /\ (pc[w] \in Resting \/ frame' = frame)
    BY <1>6, GotoEffect DEF DoEndsLate, memory
  <2>2. CASE pc'[w] \in Resting
    <3>1. ~Claims(w)'
      BY <2>1, <2>2 DEF Claims, Holds, Writing, Resting
    <3>. QED  BY <2>1, <3>1
  <2>3. CASE frame' = frame
    BY <2>1, <2>3 DEF Claims
  <2>. QED  BY <2>1, <2>2, <2>3 DEF Resting
<1>. QED  BY <1>1, <1>2, <1>3, <1>4, <1>5, <1>6 DEF WorkStep, DoStep

LEMMA OneClaimStep ==
  ASSUME Placed, Stored, OneClaim, LeftBehind, Written, [Next]_vars
  PROVE  OneClaim'
<1>. USE AgentKinds
<1>. executing \subseteq Workers /\ Distinct
  BY DEF Stored, OneClaim, Distinct
<1>1. ASSUME NEW a \in Agents, TransitStep(a)  PROVE OneClaim'
  <2>1. executing' = executing /\ toResume' = toResume
    BY <1>1 DEF TransitStep, Lookup, Assign, Exec, Enqueue, Push, SetRegistry
  <2>2. CASE stack' = stack
    <3>1. \A t \in Tasks : db'[t] = "new" => db[t] = "new"
      <4>1. CASE Exec(a)
        <5>1. db' = db \/ db' = [db EXCEPT ![frame[a].task] = frame[a].to]
          BY <4>1 DEF Exec
        <5>2. frame[a].to # "new"
          BY <4>1 DEF Exec, Written, Writing
        <5>. QED  BY <5>1, <5>2 DEF Stored
      <4>2. CASE db' = db
        BY <4>2
      <4>. QED  BY <1>1, <4>1, <4>2
                DEF TransitStep, Lookup, Assign, Enqueue, Push, SetRegistry
    <3>2. Distinct' /\ \A t : Waiting(t)' => Waiting(t)
      BY <2>2 DEF Distinct, Waiting
    <3>. QED  BY <1>1, <2>1, <3>1, <3>2, TransitClaims, ClaimsKept
  <2>3. CASE Push(a) /\ stack' # stack
    <3>1. /\ pc[a] = "push" /\ Goto(a, "set") /\ stack' = Append(stack, frame[a].task)
          /\ UNCHANGED <<db, toResume>>
      BY <2>3 DEF Push
    <3>. QED  BY <2>1, <3>1, PushClaims
  <2>4. Push(a) \/ stack' = stack
    BY <1>1 DEF TransitStep, Lookup, Assign, Exec, Enqueue, SetRegistry
  <2>. QED  BY <2>2, <2>3, <2>4
<1>2. ASSUME NEW A \in SUBSET Agents, Only(A), UNCHANGED <<db, stack>>,
             toResume' \subseteq toResume, executing' \subseteq executing \cup A,
             \A a \in A : Claims(a)' => Claims(a) /\ frame'[a].task = frame[a].task
      PROVE  OneClaim'
  <2>1. Distinct' /\ \A t : Waiting(t)' => Waiting(t)
    BY <1>2 DEF Distinct, Waiting
  <2>. QED  BY <1>2, <2>1, ClaimsElsewhere, ClaimsKept
<1>3. ASSUME NEW c \in Callers, Signal(c) \/ ReadStatus(c)  PROVE OneClaim'
  <2>1. /\ Only({c}) /\ UNCHANGED <<db, stack, executing, toResume>>
        /\ \/ pc'[c] = "lookup" /\ frame'[c].ret = "aborted"
           \/ pc'[c] = "assign" /\ frame'[c].ret = "updated"
    <3>1. CASE Signal(c)
      BY <3>1 DEF Signal, Transit, Only, Placed, memory
    <3>2. CASE ReadStatus(c)
      <4>1. Only({c}) /\ pc'[c] = "assign"
        BY <3>2, ReadStatusEffect
      <4>2. frame'[c].ret = "updated"
        BY <3>2 DEF ReadStatus, Placed
      <4>. QED  BY <3>2, <4>1, <4>2 DEF ReadStatus, memory
    <3>. QED  BY <1>3, <3>1, <3>2
  <2>2. ~Claims(c)'
    BY <2>1 DEF Claims, Holds, Outside
  <2>. QED  BY <1>2, <2>1, <2>2
<1>4. ASSUME NEW c \in Callers, Remove(c)  PROVE OneClaim'
  <2>1. /\ Only({c}) /\ UNCHANGED <<db, executing, toResume>>
        /\ \/ pc'[c] = "lookup" /\ frame'[c].ret = "withdrawn"
           \/ pc'[c] = "idle"
    BY <1>4 DEF Remove, Transit, Goto, Only, Placed, memory
  <2>2. ~Claims(c)'
    BY <2>1 DEF Claims, Holds, Outside, Writing
  <2>3. Distinct' /\ \A t : Waiting(t)' => Waiting(t)
    <3>1. CASE stack' = stack
      BY <3>1 DEF Distinct, Waiting
    <3>2. CASE \E i \in DOMAIN stack : stack' = Without(stack, i)
      BY <3>2, RemoveStack
    <3>. QED  BY <1>4, <3>1, <3>2 DEF Remove
  <2>. QED  BY <2>1, <2>2, <2>3, ClaimsElsewhere, ClaimsKept
<1>5. ASSUME NEW c \in Callers, NEW t \in Tasks, Submit(c, t)  PROVE OneClaim'
  <2>1. /\ Only({c}) /\ UNCHANGED <<stack, executing, toResume>>
        /\ frame'[c].task = t /\ db[t] = "new" /\ db' = [db EXCEPT ![t] = "queued"]
    BY <1>5 DEF Submit, Only, Placed
  <2>2. Untouched(t) /\ t \notin toResume
    BY <2>1 DEF OneClaim
  <2>3. Distinct' /\ \A u : Waiting(u)' => Waiting(u) /\ u # t
    BY <2>1, <2>2 DEF Distinct, Waiting, Untouched
  <2>4. \A u \in Tasks : db'[u] = "new" => db[u] = "new" /\ u # t
    BY <2>1 DEF Stored
  <2>5. \A a \in Agents \ {c} : Claims(a)' =>
          Claims(a) /\ frame'[a].task = frame[a].task /\ frame[a].task # t
    BY <2>1, <2>2, ClaimsElsewhere DEF Untouched
  <2>. QED  BY <2>1, <2>2, <2>3, <2>4, <2>5, ClaimMoves
<1>6. ASSUME NEW c \in Callers, NEW t \in Tasks, Cancel(c, t) \/ Update(c, t)
      PROVE  OneClaim'
  <2>1. /\ Only({c}) /\ UNCHANGED <<db, stack, executing, toResume>>
        /\ \/ pc'[c] \in {"signal", "remove", "update"}
           \/ pc'[c] = "exec" /\ frame'[c].ret = "updated"
    BY <1>6 DEF Cancel, Update, Only, Placed, memory
  <2>2. ~Claims(c)'
    BY <2>1 DEF Claims, Holds, Outside, Writing
  <2>. QED  BY <1>2, <2>1, <2>2
<1>7. ASSUME NEW t \in Tasks, Resume(t)  PROVE OneClaim'
  <2>1. /\ Only({Starter}) /\ UNCHANGED <<db, stack, executing>>
        /\ t \in toResume /\ toResume' = toResume \ {t} /\ frame'[Starter].task = t
    BY <1>7 DEF Resume, Only, Placed, NoFrame
  <2>2. Untouched(t)
    BY <2>1 DEF OneClaim
  <2>3. Distinct' /\ \A u : Waiting(u)' => Waiting(u) /\ u # t
    BY <2>1, <2>2 DEF Distinct, Waiting, Untouched
  <2>4. \A u \in Tasks : db'[u] = "new" => db[u] = "new" /\ u # t
    BY <2>1 DEF OneClaim
  <2>5. \A a \in Agents \ {Starter} : Claims(a)' =>
          Claims(a) /\ frame'[a].task = frame[a].task /\ frame[a].task # t
    BY <2>1, <2>2, ClaimsElsewhere DEF Untouched
  <2>. QED  BY <2>1, <2>3, <2>4, <2>5, ClaimMoves
<1>8. ASSUME Only({Starter}), UNCHANGED <<db, stack, executing, toResume>>,
             pc'[Starter] \in {"loop", "wait", "request", "idle", "locked"}
      PROVE  OneClaim'
  <2>1. ~Claims(Starter)'
    BY <1>8 DEF Claims, Holds, Writing
  <2>. QED  BY <1>2, <1>8, <2>1
<1>9. CASE EnterLoop \/ LoopSchedule \/ LoopWait \/ Request
  BY <1>8, <1>9, GotoEffect DEF EnterLoop, LoopSchedule, LoopWait, Request
<1>10. CASE Pop
  <2>1. CASE Goto(Starter, "request") /\ UNCHANGED stack
    BY <1>8, <1>10, <2>1, GotoEffect DEF Pop
  <2>2. CASE /\ stack' = SubSeq(stack, 1, Len(stack) - 1)
             /\ pc' = [pc EXCEPT ![Starter] = "dispatch"]
             /\ frame' = [frame EXCEPT ![Starter] = [NoFrame EXCEPT !.task = Top]]
    <3>1. /\ Distinct' /\ Waiting(Top) /\ Top \in Tasks
          /\ \A t : Waiting(t)' => Waiting(t) /\ t # Top
      BY <1>10, <2>2, PopStack DEF Pop
    <3>2. Only({Starter}) /\ frame'[Starter].task = Top
      BY <2>2 DEF Only, Placed, NoFrame
    <3>3. UNCHANGED <<db, executing, toResume>>
      BY <1>10 DEF Pop
    <3>4. Top \notin toResume /\ db[Top] # "new"
      BY <3>1 DEF OneClaim, Untouched
    <3>5. \A a \in Agents : Claims(a) => frame[a].task # Top
      BY <3>1 DEF OneClaim
    <3>. HIDE DEF Top
    <3>. QED  BY <3>1, <3>2, <3>3, <3>4, <3>5, ClaimsElsewhere, ClaimMoves
  <2>. QED  BY <1>10, <2>1, <2>2 DEF Pop
<1>11. ASSUME NEW w \in Workers, Dispatch(w)  PROVE OneClaim'
  <2>. DEFINE t == frame[Starter].task
  <2>1. /\ Only({Starter, w}) /\ UNCHANGED <<db, stack, executing, toResume>>
        /\ pc[Starter] = "dispatch" /\ pc'[Starter] = "loop" /\ frame'[w].task = t
    BY <1>11 DEF Dispatch, Only, Placed
  <2>2. Claims(Starter) /\ ~Claims(Starter)'
    BY <2>1 DEF Claims, Holds, Writing
  <2>3. t \in Tasks
    BY <2>1 DEF Placed, Tasked, PCs
  <2>4. ~Waiting(t) /\ t \notin toResume /\ db[t] # "new"
    BY <2>2, <2>3 DEF OneClaim, Untouched
  <2>5. \A a \in Agents \ {Starter} : Claims(a) => frame[a].task # t
    BY <2>2 DEF OneClaim
  <2>6. Distinct' /\ \A u : Waiting(u)' => Waiting(u) /\ u # t
    BY <2>1, <2>4 DEF Distinct, Waiting
  <2>. HIDE DEF t
  <2>7. \A a \in Agents \ {w} : Claims(a)' =>
          Claims(a) /\ frame'[a].task = frame[a].task /\ frame[a].task # t
    BY <2>1, <2>2, <2>5, ClaimsElsewhere
  <2>. QED  BY <2>1, <2>4, <2>6, <2>7, ClaimMoves
<1>12. ASSUME NEW w \in Workers, WorkerStep(w) \/ DoStep(w)  PROVE OneClaim'
  <2>1. CASE TransitStep(w)
    BY <1>1, <2>1
  <2>2. CASE WorkStep(w)
    <3>1. Only({w})
      BY <1>12, WorkerOnly
    <3>2. /\ UNCHANGED <<db, stack, toResume>>
          /\ executing' \subseteq executing \cup {w}
          /\ Claims(w)' => Claims(w) /\ frame'[w].task = frame[w].task
      BY <2>2, WorkClaims
    <3>. QED  BY <1>2, <3>1, <3>2
  <2>. QED  BY <1>12, <2>1, <2>2 DEF WorkStep, WorkerStep
<1>13. CASE Restart \/ NilTask
  <2>1. /\ \A a \in Agents : pc'[a] \in {"resume", "idle"}
        /\ executing' = {} /\ stack' = <<>> /\ toResume' = Pending(db) /\ db' = db
    BY <1>13 DEF Restart, NilTask, Reboot
  <2>2. \A a \in Agents : ~Claims(a)'
    BY <2>1 DEF Claims, Holds, Writing
  <2>3. Distinct' /\ \A t : ~Waiting(t)'
    BY <2>1 DEF Distinct, Waiting
  <2>4. \A t \in Pending(db) : db[t] # "new"
    BY DEF Pending, Active
  <2>. QED  BY <2>1, <2>2, <2>3, <2>4 DEF OneClaim, Distinct, Untouched
<1>14. CASE UNCHANGED <<pc, frame, stack, executing, toResume, db>>
  BY <1>14 DEF OneClaim, Claims, Holds, Untouched, Waiting
<1>. QED
  BY <1>1, <1>3, <1>4, <1>5, <1>6, <1>7, <1>9, <1>10, <1>11, <1>12, <1>13, <1>14
     DEF Next, HandlerStep, StarterStep, ResumeTimePasses, Shutdown, vars

(***************************************************************************)
(* Settling.                                                               *)
(***************************************************************************)
LoopStep == EnterLoop \/ LoopSchedule \/ LoopWait \/ Request

LEMMA SettledKept ==
  ASSUME NEW t \in Tasks, Settled(t), ~Waiting(t)', t \notin toResume',
         db'[t] # "new",
         \A a \in Agents : Holds(a)' /\ frame'[a].task = t => Finishing(a)'
  PROVE  Settled(t)'
BY DEF Settled

LEMMA HoldsElsewhere ==
  ASSUME NEW t \in Tasks, Settled(t), NEW A \in SUBSET Agents, Only(A)
  PROVE  \A a \in Agents \ A :
           Holds(a)' /\ frame'[a].task = t => Finishing(a)'
BY DEF Settled, Holds, Finishing, Only

\* transitStatus and QueueTask never make a settled task runnable
LEMMA TransitSettled ==
  ASSUME Placed, NEW a \in Agents, TransitStep(a), NEW t \in Tasks, Settled(t),
         Holds(a)', frame'[a].task = t
  PROVE  Finishing(a)'
<1>1. Holds(a) /\ frame[a].task = t => Finishing(a)
  BY DEF Settled
<1>2. CASE /\ pc'[a] \in {"assign", "exec", "set", "push"}
           /\ frame'[a] = frame[a]
           /\ pc[a] \in {"lookup", "assign", "enqueue", "push"}
           /\ pc'[a] \in {"assign", "exec"} <=> pc[a] \in {"lookup", "assign"}
  BY <1>1, <1>2 DEF Holds, Finishing, Writing
<1>3. ASSUME NEW ok \in BOOLEAN, pc[a] \in {"lookup", "exec"},
             Goto(a, Continue(a, ok))
      PROVE  FALSE
  <2>1. pc'[a] = Continue(a, ok)
    BY <1>3, GotoEffect
  <2>2. pc'[a] \in {"iterate", "panicked", "enqueue", "push"}
    BY <2>1, ContinuePlace, HomePlace DEF Holds, Writing
  <2>3. frame[a].ret \in {"iterate", "enqueue", "push"}
    BY <2>1, <2>2, ContinueCases, HomePlace, ContinuePlace
  <2>4. frame' = frame
    BY <1>3, <2>1, <2>2, GotoEffect DEF Resting
  <2>. QED  BY <1>1, <1>3, <2>3, <2>4 DEF Holds, Finishing, Writing, Outside
<1>4. ASSUME Goto(a, Home(a))  PROVE FALSE
  BY <1>4, GotoEffect, HomePlace DEF Holds, Writing
<1>5. CASE /\ pc[a] = "enqueue" /\ pc'[a] = "lookup"
           /\ frame'[a] = [task |-> frame[a].task, to |-> "queued", ret |-> "push"]
  BY <1>1, <1>5 DEF Holds, Finishing, Writing
<1>. QED  BY <1>2, <1>3, <1>4, <1>5, TransitStepEffect

LEMMA WorkSettled ==
  ASSUME Placed, Stored, NEW w \in Workers, WorkStep(w), NEW t \in Tasks, Settled(t),
         Holds(w)', frame'[w].task = t
  PROVE  Finishing(w)'
<1>. USE AgentKinds
<1>1. Holds(w) /\ frame[w].task = t => Finishing(w)
  BY DEF Settled
<1>2. ASSUME pc[w] \in {"register", "check", "panicked", "iterate", "run"},
             frame'[w].task = frame[w].task
      PROVE  FALSE
  BY <1>1, <1>2 DEF Holds, Finishing, Writing
<1>3. CASE Register(w) \/ CheckCanceled(w) \/ Recover(w) \/ StartDo(w) \/ DoPanics(w)
  <2>1. /\ pc[w] \in {"register", "check", "panicked", "iterate", "run"}
        /\ frame'[w].task = frame[w].task
    BY <1>3 DEF Register, CheckCanceled, Recover, StartDo, DoPanics, Transit, Goto,
                Resting, Placed
  <2>. QED  BY <1>2, <2>1
<1>4. CASE \/ ContextEnds(w)
           \/ \E next \in Outcomes \ {"panic"}, later \in BOOLEAN :
                 DoReturns(w, next, later)
  <2>1. pc[w] = "run" /\ frame'[w].task = frame[w].task
    BY <1>4 DEF ContextEnds, DoReturns, Placed, Frame
  <2>. QED  BY <1>2, <2>1
<1>5. CASE Done(w) \/ Reschedule(w) \/ Unregister(w)
  <2>1. pc'[w] \in {"schedule", "unregister", "drain", "idle"}
    BY <1>5, GotoEffect DEF Done, Reschedule, Unregister
  <2>. QED  BY <2>1 DEF Holds, Writing
<1>6. CASE DoEndsLate(w)
  <2>1. \/ pc'[w] \in Resting
        \/ pc'[w] = pc[w] /\ frame' = frame
    BY <1>6, GotoEffect DEF DoEndsLate, Resting
  <2>. QED  BY <1>1, <2>1 DEF Holds, Finishing, Writing, Resting
<1>. QED  BY <1>3, <1>4, <1>5, <1>6 DEF WorkStep, DoStep

LEMMA SettledStays ==
  ASSUME Placed, Stored, OneClaim, Written, [Next]_vars, ~Restart, ~NilTask,
         NEW t \in Tasks, Settled(t)
  PROVE  Settled(t)'
<1>. USE AgentKinds
<1>0. /\ ~Waiting(t) /\ t \notin toResume /\ db[t] # "new"
      /\ \A a \in Agents : Holds(a) /\ frame[a].task = t => Finishing(a)
  BY DEF Settled
<1>1. ASSUME NEW a \in Agents, TransitStep(a)  PROVE Settled(t)'
  <2>1. toResume' = toResume
    BY <1>1 DEF TransitStep, Lookup, Assign, Exec, Enqueue, Push, SetRegistry
  <2>2. Only({a})
    BY <1>1, TransitStepEffect
  <2>3. db'[t] # "new"
    <3>1. CASE Exec(a)
      <4>1. db' = db \/ db' = [db EXCEPT ![frame[a].task] = frame[a].to]
        BY <3>1 DEF Exec
      <4>2. frame[a].to # "new"
        BY <3>1 DEF Exec, Written, Writing
      <4>. QED  BY <1>0, <4>1, <4>2 DEF Stored
    <3>2. CASE ~Exec(a)
      BY <1>0, <1>1, <3>2 DEF TransitStep, Lookup, Assign, Enqueue, Push, SetRegistry
    <3>. QED  BY <3>1, <3>2
  <2>4. ~Waiting(t)'
    <3>1. CASE stack' = stack
      BY <1>0, <3>1 DEF Waiting
    <3>2. CASE Push(a) /\ stack' = Append(stack, frame[a].task)
      <4>1. frame[a].task # t /\ frame[a].task \in Tasks
        BY <1>0, <3>2 DEF Push, Holds, Finishing, Writing, Placed, Tasked, PCs
      <4>. QED  BY <1>0, <3>2, <4>1 DEF Waiting, Stored
    <3>. QED  BY <1>1, <3>1, <3>2
              DEF TransitStep, Lookup, Assign, Exec, Enqueue, Push, SetRegistry
  <2>. QED  BY <1>0, <1>1, <2>1, <2>2, <2>3, <2>4, TransitSettled, HoldsElsewhere,
               SettledKept
<1>2. ASSUME NEW A \in SUBSET Agents, Only(A), db'[t] = db[t],
             toResume' \subseteq toResume, Waiting(t)' => Waiting(t),
             \A a \in A : Holds(a)' => frame'[a].task # t
      PROVE  Settled(t)'
  BY <1>0, <1>2, HoldsElsewhere, SettledKept
<1>3. ASSUME NEW c \in Callers,
             \/ Signal(c) \/ ReadStatus(c)
             \/ \E u \in Tasks : Cancel(c, u) \/ Update(c, u)
      PROVE  Settled(t)'
  <2>1. /\ Only({c}) /\ UNCHANGED <<db, stack, toResume>>
        /\ \/ pc'[c] \in {"signal", "remove", "update"}
           \/ pc'[c] \in Writing /\ frame'[c].ret \in Outside
    <3>1. CASE Signal(c) \/ \E u \in Tasks : Cancel(c, u) \/ Update(c, u)
      BY <3>1 DEF Signal, Transit, Cancel, Update, Only, Placed, Writing, Outside
    <3>2. CASE ReadStatus(c)
      <4>1. Only({c}) /\ pc'[c] = "assign"
        BY <3>2, ReadStatusEffect
      <4>2. frame'[c].ret = "updated"
        BY <3>2 DEF ReadStatus, Placed
      <4>. QED  BY <3>2, <4>1, <4>2 DEF ReadStatus, memory, Writing, Outside
    <3>. QED  BY <1>3, <3>1, <3>2
  <2>2. ~Holds(c)'
    BY <2>1 DEF Holds, Outside, Writing
  <2>3. Waiting(t)' => Waiting(t)
    BY <2>1 DEF Waiting
  <2>. QED  BY <1>2, <2>1, <2>2, <2>3
<1>4. ASSUME NEW c \in Callers, Remove(c)  PROVE Settled(t)'
  <2>1. /\ Only({c}) /\ UNCHANGED <<db, toResume>>
        /\ \/ pc'[c] = "lookup" /\ frame'[c].ret = "withdrawn"
           \/ pc'[c] = "idle"
    BY <1>4 DEF Remove, Transit, Goto, Only, Placed
  <2>2. ~Holds(c)'
    BY <2>1 DEF Holds, Outside, Writing
  <2>3. Waiting(t)' => Waiting(t)
    <3>1. CASE stack' = stack
      BY <3>1 DEF Waiting
    <3>2. CASE \E i \in DOMAIN stack : stack' = Without(stack, i)
      BY <3>2, RemoveStack DEF OneClaim, Distinct
    <3>. QED  BY <1>4, <3>1, <3>2 DEF Remove
  <2>. QED  BY <1>2, <2>1, <2>2, <2>3
<1>5. ASSUME NEW c \in Callers, NEW u \in Tasks, Submit(c, u)  PROVE Settled(t)'
  <2>1. /\ Only({c}) /\ UNCHANGED <<stack, toResume>>
        /\ frame'[c].task = u /\ db[u] = "new" /\ db' = [db EXCEPT ![u] = "queued"]
    BY <1>5 DEF Submit, Only, Placed
  <2>2. u # t /\ db'[t] = db[t]
    BY <1>0, <2>1 DEF Stored
  <2>3. Waiting(t)' => Waiting(t)
    BY <2>1 DEF Waiting
  <2>. QED  BY <1>2, <2>1, <2>2, <2>3
<1>6. ASSUME (\E u \in Tasks : Resume(u)) \/ LoopStep \/ Pop  PROVE Settled(t)'
  <2>1. /\ Only({Starter}) /\ UNCHANGED db /\ toResume' \subseteq toResume
    BY <1>6 DEF Resume, LoopStep, EnterLoop, LoopSchedule, LoopWait, Request, Pop,
                Goto, Only, Placed
  <2>2. Waiting(t)' => Waiting(t)
    <3>1. CASE stack' = stack
      BY <3>1 DEF Waiting
    <3>2. CASE stack # <<>> /\ stack' = SubSeq(stack, 1, Len(stack) - 1)
      BY <3>2, PopStack DEF OneClaim, Distinct
    <3>. QED  BY <1>6, <3>1, <3>2 DEF Resume, LoopStep, EnterLoop, LoopSchedule,
                                      LoopWait, Request, Pop
  <2>3. ASSUME NEW u \in Tasks, Resume(u)  PROVE frame'[Starter].task # t
    BY <1>0, <2>3 DEF Resume, Placed, NoFrame
  <2>4. ASSUME LoopStep  PROVE ~Holds(Starter)'
    <3>1. pc'[Starter] \in {"loop", "wait", "request", "idle", "locked"}
      BY <2>4 DEF LoopStep, EnterLoop, LoopSchedule, LoopWait, Request, Goto, Placed
    <3>. QED  BY <3>1 DEF Holds, Writing
  <2>5. ASSUME Pop  PROVE Holds(Starter)' => frame'[Starter].task # t
    <3>1. CASE Goto(Starter, "request")
      <4>1. pc'[Starter] = "request"
        BY <3>1 DEF Goto, Placed
      <4>. QED  BY <4>1 DEF Holds, Writing
    <3>2. CASE frame' = [frame EXCEPT ![Starter] = [NoFrame EXCEPT !.task = Top]]
      <4>1. Waiting(Top)
        <5>. stack \in Seq(Tasks) /\ DOMAIN stack = 1 .. Len(stack)
             /\ Len(stack) \in Nat \ {0}
          BY <2>5 DEF Pop, Stored
        <5>. QED  BY DEF Top, Waiting
      <4>2. frame'[Starter].task = Top
        BY <3>2 DEF Placed, NoFrame
      <4>. QED  BY <1>0, <4>1, <4>2
    <3>. QED  BY <2>5, <3>1, <3>2 DEF Pop
  <2>. QED  BY <1>2, <1>6, <2>1, <2>2, <2>3, <2>4, <2>5
<1>7. ASSUME NEW w \in Workers, Dispatch(w)  PROVE Settled(t)'
  <2>1. /\ Only({Starter, w}) /\ UNCHANGED <<db, stack, toResume>>
        /\ pc[Starter] = "dispatch" /\ pc'[Starter] = "loop"
        /\ frame'[w] = frame[Starter]
    BY <1>7 DEF Dispatch, Only, Placed
  <2>2. Holds(Starter) /\ ~Finishing(Starter) /\ ~Holds(Starter)'
    BY <2>1 DEF Holds, Finishing, Writing
  <2>3. Waiting(t)' => Waiting(t)
    BY <2>1 DEF Waiting
  <2>4. frame'[w].task # t
    BY <1>0, <2>1, <2>2
  <2>. QED  BY <1>2, <2>1, <2>2, <2>3, <2>4
<1>8. ASSUME NEW w \in Workers, WorkStep(w)  PROVE Settled(t)'
  <2>1. UNCHANGED <<db, stack, toResume>>
    BY <1>8, WorkClaims
  <2>2. Only({w})
    BY <1>8, WorkerOnly DEF WorkStep, WorkerStep
  <2>3. ~Waiting(t)'
    BY <1>0, <2>1 DEF Waiting
  <2>. QED  BY <1>0, <1>8, <2>1, <2>2, <2>3, WorkSettled, HoldsElsewhere, SettledKept
<1>9. CASE UNCHANGED <<pc, frame, stack, toResume, db>>
  BY <1>0, <1>9, SettledKept DEF Holds, Finishing, Waiting
<1>. QED
  BY <1>1, <1>3, <1>4, <1>5, <1>6, <1>7, <1>8, <1>9
     DEF Next, HandlerStep, StarterStep, WorkerStep, WorkStep, LoopStep,
         ResumeTimePasses, Shutdown, vars

\* whose status in memory a step changes, and to what
LEMMA StatusStep ==
  ASSUME Placed, Stored, [Next]_vars, ~Restart, ~NilTask, NEW t \in Tasks,
         status'[t] # status[t]
  PROVE  \/ \E a \in Agents : /\ pc[a] = "assign" /\ frame[a].task = t
                              /\ status'[t] = frame[a].to
         \/ status'[t] = "queued"
         \/ t \in toResume /\ status'[t] = db[t]
<1>. USE AgentKinds
<1>1. ASSUME NEW a \in Agents, TransitStep(a), ~Assign(a)  PROVE FALSE
  BY <1>1 DEF TransitStep, Lookup, Exec, Enqueue, Push, SetRegistry, memory
<1>2. ASSUME NEW a \in Agents, Assign(a)
      PROVE  /\ pc[a] = "assign" /\ frame[a].task = t
             /\ status'[t] = frame[a].to
  BY <1>2 DEF Assign, Stored
<1>3. ASSUME NEW c \in Callers,
             \/ Signal(c) \/ Remove(c) \/ ReadStatus(c)
             \/ \E u \in Tasks : Cancel(c, u) \/ Update(c, u)
      PROVE  FALSE
  BY <1>3 DEF Signal, Remove, ReadStatus, Cancel, Update, memory
<1>4. ASSUME NEW c \in Callers, NEW u \in Tasks, Submit(c, u)
      PROVE  status'[t] = "queued"
  BY <1>4 DEF Submit, Stored
<1>5. ASSUME NEW u \in Tasks, Resume(u)
      PROVE  t \in toResume /\ status'[t] = db[t]
  BY <1>5 DEF Resume, Stored
<1>6. ASSUME LoopStep \/ Pop \/ \E w \in Workers : Dispatch(w)  PROVE FALSE
  BY <1>6 DEF LoopStep, EnterLoop, LoopSchedule, LoopWait, Request, Pop, Dispatch,
              memory
<1>7. ASSUME NEW w \in Workers, WorkStep(w)  PROVE FALSE
  BY <1>7 DEF WorkStep, Register, StartDo, CheckCanceled, Done, Recover,
              Reschedule, Unregister, DoEndsLate, DoStep, DoReturns, DoPanics,
              ContextEnds, memory
<1>8. ASSUME \/ \E u \in Tasks : ResumeTimePasses(u)
             \/ Shutdown \/ UNCHANGED vars
      PROVE  FALSE
  BY <1>8 DEF ResumeTimePasses, Shutdown, memory, vars
<1>. QED
  BY <1>1, <1>2, <1>3, <1>4, <1>5, <1>6, <1>7, <1>8
     DEF Next, HandlerStep, StarterStep, WorkerStep, WorkStep, LoopStep

\* who newly sets out to write that a task completed or failed
LEMMA FinishingStep ==
  ASSUME Placed, Stored, [Next]_vars, NEW a \in Agents, pc'[a] \in Writing,
         frame'[a].to \in {"completed", "error"}
  PROVE  \/ pc[a] \in Writing /\ frame'[a] = frame[a]
         \/ /\ a \in Callers /\ ReadStatus(a)
         \/ /\ Claims(a) /\ Only({a}) /\ UNCHANGED <<db, stack, toResume>>
            /\ frame'[a].task = frame[a].task
            /\ frame'[a].ret \in {"done", "schedule"}
<1>. USE AgentKinds
<1>. DEFINE Goal == \/ pc[a] \in Writing /\ frame'[a] = frame[a]
                    \/ /\ a \in Callers /\ ReadStatus(a)
                    \/ /\ Claims(a) /\ Only({a}) /\ UNCHANGED <<db, stack, toResume>>
                       /\ frame'[a].task = frame[a].task
                       /\ frame'[a].ret \in {"done", "schedule"}
<1>. SUFFICES Goal
  OBVIOUS
<1>1. ASSUME NEW A \in SUBSET Agents, Only(A), a \notin A  PROVE Goal
  BY <1>1 DEF Only
<1>2. ASSUME NEW A \in SUBSET Agents, Only(A),
             \A b \in A : \/ pc'[b] \notin Writing
                          \/ frame'[b].to \notin {"completed", "error"}
      PROVE  Goal
  BY <1>1, <1>2
<1>3. ASSUME NEW b \in Agents, TransitStep(b)  PROVE Goal
  <2>1. CASE a # b
    BY <1>1, <1>3, <2>1, TransitStepEffect
  <2>2. CASE a = b
    <3>1. ASSUME NEW ok \in BOOLEAN, Goto(a, Continue(a, ok))  PROVE FALSE
      <4>1. pc'[a] = Continue(a, ok)
        BY <3>1, GotoEffect
      <4>. QED  BY <4>1, ContinuePlace, HomePlace DEF Writing
    <3>2. ASSUME Goto(a, Home(a))  PROVE FALSE
      <4>1. pc'[a] = Home(a)
        BY <3>2, GotoEffect
      <4>. QED  BY <4>1, HomePlace DEF Writing
    <3>3. frame'[a] # [task |-> frame[a].task, to |-> "queued", ret |-> "push"]
      OBVIOUS
    <3>. QED  BY <1>3, <2>2, <3>1, <3>2, <3>3, TransitStepEffect DEF Writing
  <2>. QED  BY <2>1, <2>2
<1>4. ASSUME NEW c \in Callers, Signal(c) \/ Remove(c)  PROVE Goal
  <2>1. CASE Goto(c, "idle")
    <3>1. Only({c}) /\ pc'[c] = "idle"
      BY <2>1, GotoEffect
    <3>. QED  BY <1>2, <3>1 DEF Writing
  <2>2. ASSUME NEW r, Transit(c, frame[c].task, "canceled", r)  PROVE Goal
    <3>1. Only({c}) /\ frame'[c].to = "canceled"
      BY <2>2 DEF Transit, Placed, Only
    <3>. QED  BY <1>2, <3>1
  <2>. QED  BY <1>4, <2>1, <2>2 DEF Signal, Remove
<1>5. ASSUME NEW c \in Callers, ReadStatus(c)  PROVE Goal
  BY <1>1, <1>5, ReadStatusEffect
<1>6. ASSUME NEW c \in Callers, NEW t \in Tasks,
             Submit(c, t) \/ Cancel(c, t) \/ Update(c, t)
      PROVE  Goal
  <2>1. /\ Only({c})
        /\ \/ pc'[c] \in {"push", "signal", "remove", "update"}
           \/ frame'[c].to \in {"processing", "suspending"}
    BY <1>6 DEF Submit, Cancel, Update, Only, Placed
  <2>. QED  BY <1>2, <2>1 DEF Writing
<1>7. ASSUME (\E t \in Tasks : Resume(t)) \/ LoopStep \/ Pop  PROVE Goal
  <2>1. /\ Only({Starter})
        /\ pc'[Starter] \in {"enqueue", "loop", "wait", "request", "idle", "locked",
                             "dispatch"}
    BY <1>7 DEF Resume, LoopStep, EnterLoop, LoopSchedule, LoopWait, Request, Pop,
                Goto, Only, Placed
  <2>. QED  BY <1>2, <2>1 DEF Writing
<1>8. ASSUME NEW w \in Workers, Dispatch(w)  PROVE Goal
  <2>1. Only({Starter, w}) /\ pc'[Starter] = "loop" /\ pc'[w] = "register"
    BY <1>8 DEF Dispatch, Only, Placed
  <2>. QED  BY <1>2, <2>1 DEF Writing
<1>9. ASSUME NEW w \in Workers, Register(w) \/ CheckCanceled(w) \/ Recover(w)
      PROVE  Goal
  <2>1. Only({w}) /\ Claims(w) /\ UNCHANGED <<db, stack, toResume>>
    BY <1>9, WorkClaims, WorkerOnly
       DEF WorkStep, WorkerStep, Claims, Holds, Register, CheckCanceled, Recover
  <2>2. CASE a # w
    BY <1>1, <2>1, <2>2
  <2>3. CASE Goto(w, "done")
    BY <1>2, <2>1, <2>3, GotoEffect DEF Writing
  <2>4. CASE Register(w)
    <3>1. Transit(w, frame[w].task, "processing", "iterate")
      BY <2>4 DEF Register
    <3>2. frame'[w].to = "processing"
      BY <3>1 DEF Transit, Placed
    <3>. QED  BY <1>2, <2>1, <3>2
  <2>5. ASSUME a = w, NEW to, NEW r, Transit(w, frame[w].task, to, r),
               to = "suspending" \/ r \in {"done", "schedule"}
        PROVE  Goal
    <3>1. frame'[w].task = frame[w].task /\ frame'[w].to = to /\ frame'[w].ret = r
      BY <2>5 DEF Transit, Placed
    <3>. QED  BY <2>1, <2>5, <3>1
  <2>6. CASE a = w /\ Recover(w)
    BY <2>5, <2>6 DEF Recover
  <2>7. CASE a = w /\ CheckCanceled(w) /\ ~Goto(w, "done")
    <3>1. Transit(w, frame[w].task, frame[w].to, IF frame[w].to = "suspending"
                                                 THEN "enqueue" ELSE "done")
      BY <2>7 DEF CheckCanceled
    <3>. QED  BY <2>5, <2>7, <3>1
  <2>. QED  BY <1>9, <2>2, <2>3, <2>4, <2>6, <2>7
<1>10. ASSUME NEW w \in Workers, WorkStep(w),
              ~(Register(w) \/ CheckCanceled(w) \/ Recover(w))
       PROVE  Goal
  <2>1. Only({w})
    BY <1>10, WorkerOnly DEF WorkStep, WorkerStep
  <2>2. CASE DoEndsLate(w)
    <3>1. \/ pc'[w] \in Resting
          \/ pc'[w] = pc[w] /\ frame' = frame
      BY <2>2, GotoEffect DEF DoEndsLate, Resting
    <3>. QED  BY <1>1, <2>1, <3>1 DEF Resting, Writing
  <2>3. CASE ~DoEndsLate(w)
    <3>1. pc'[w] \in {"run", "schedule", "unregister", "drain", "idle", "check",
                      "panicked"}
      BY <1>10, <2>3
         DEF WorkStep, StartDo, Done, Reschedule, Unregister, DoStep, DoReturns,
             DoPanics, ContextEnds, Goto, Placed
    <3>. QED  BY <1>2, <2>1, <3>1 DEF Writing
  <2>. QED  BY <2>2, <2>3
<1>11. CASE Restart \/ NilTask
  <2>1. pc'[a] \in {"resume", "idle"}
    BY <1>11 DEF Restart, NilTask, Reboot
  <2>. QED  BY <2>1 DEF Writing
<1>12. CASE UNCHANGED <<pc, frame>>
  BY <1>12
<1>. QED
  BY <1>3, <1>4, <1>5, <1>6, <1>7, <1>8, <1>9, <1>10, <1>11, <1>12
     DEF Next, HandlerStep, StarterStep, WorkerStep, WorkStep, LoopStep,
         ResumeTimePasses, Shutdown, vars

\* what the row of a task may become
LEMMA RowStep ==
  ASSUME Placed, Stored, [Next]_vars, NEW t \in Tasks, db'[t] # db[t]
  PROVE  \/ \E a \in Agents : /\ pc[a] = "exec" /\ frame[a].task = t
                              /\ db'[t] = frame[a].to
         \/ db'[t] = "queued"
<1>. USE AgentKinds
<1>1. ASSUME NEW a \in Agents, TransitStep(a), ~Exec(a)  PROVE FALSE
  BY <1>1 DEF TransitStep, Lookup, Assign, Enqueue, Push, SetRegistry
<1>2. ASSUME NEW a \in Agents, Exec(a)
      PROVE  /\ pc[a] = "exec" /\ frame[a].task = t
             /\ db'[t] = frame[a].to
  BY <1>2 DEF Exec, Stored
<1>3. ASSUME NEW c \in Callers,
             \/ Signal(c) \/ Remove(c) \/ ReadStatus(c)
             \/ \E u \in Tasks : Cancel(c, u) \/ Update(c, u)
      PROVE  FALSE
  BY <1>3 DEF Signal, Remove, ReadStatus, Cancel, Update
<1>4. ASSUME NEW c \in Callers, NEW u \in Tasks, Submit(c, u)
      PROVE  db'[t] = "queued"
  BY <1>4 DEF Submit, Stored
<1>5. ASSUME \/ \E u \in Tasks : Resume(u) \/ ResumeTimePasses(u)
             \/ LoopStep \/ Pop \/ \E w \in Workers : Dispatch(w)
             \/ Shutdown \/ Restart \/ NilTask \/ UNCHANGED vars
      PROVE  FALSE
  BY <1>5 DEF Resume, ResumeTimePasses, LoopStep, EnterLoop, LoopSchedule, LoopWait,
              Request, Pop, Dispatch, Shutdown, Restart, NilTask, Reboot, vars
<1>6. ASSUME NEW w \in Workers, WorkStep(w)  PROVE FALSE
  BY <1>6, WorkClaims
<1>. QED
  BY <1>1, <1>2, <1>3, <1>4, <1>5, <1>6
     DEF Next, HandlerStep, StarterStep, WorkerStep, WorkStep, LoopStep

\* who is about to read a status for UpdateTask
LEMMA CallingStep ==
  ASSUME Placed, Stored, [Next]_vars, NEW a \in Agents, pc'[a] = "update"
  PROVE  \/ pc[a] = "update" /\ frame'[a] = frame[a]
         \/ \E c \in Callers, t \in Tasks : a = c /\ Update(c, t)
<1>. USE AgentKinds
<1>. DEFINE Goal == \/ pc[a] = "update" /\ frame'[a] = frame[a]
                    \/ \E c \in Callers, t \in Tasks : a = c /\ Update(c, t)
<1>. SUFFICES Goal
  OBVIOUS
<1>1. ASSUME NEW A \in SUBSET Agents, Only(A), \A b \in A : pc'[b] # "update"
      PROVE  Goal
  BY <1>1 DEF Only
<1>2. ASSUME NEW b \in Agents, TransitStep(b)  PROVE Goal
  <2>1. ASSUME NEW p, Goto(b, p), p # "update"  PROVE pc'[b] # "update"
    BY <2>1, GotoEffect
  <2>2. pc'[b] # "update"
    BY <1>2, <2>1, TransitStepEffect, ContinuePlace, HomePlace
  <2>. QED  BY <1>1, <1>2, <2>2, TransitStepEffect
<1>3. ASSUME NEW c \in Callers, Signal(c) \/ Remove(c) \/ ReadStatus(c)  PROVE Goal
  <2>1. Only({c}) /\ pc'[c] \in {"lookup", "idle", "assign"}
    BY <1>3, ReadStatusEffect, GotoEffect, TransitEffect DEF Signal, Remove
  <2>. QED  BY <1>1, <2>1
<1>4. ASSUME NEW c \in Callers, NEW t \in Tasks,
             Submit(c, t) \/ Cancel(c, t) \/ Update(c, t)
      PROVE  Goal
  <2>1. Only({c}) /\ (Submit(c, t) \/ Cancel(c, t) => pc'[c] # "update")
    BY <1>4 DEF Submit, Cancel, Update, Only, Placed
  <2>2. CASE a = c
    BY <1>4, <2>1, <2>2
  <2>3. CASE a # c
    BY <2>1, <2>3 DEF Only
  <2>. QED  BY <2>2, <2>3
<1>5. ASSUME (\E t \in Tasks : Resume(t)) \/ LoopStep \/ Pop  PROVE Goal
  <2>1. /\ Only({Starter})
        /\ pc'[Starter] \in {"enqueue", "loop", "wait", "request", "idle", "locked",
                             "dispatch"}
    BY <1>5 DEF Resume, LoopStep, EnterLoop, LoopSchedule, LoopWait, Request, Pop,
                Goto, Only, Placed
  <2>. QED  BY <1>1, <2>1
<1>6. ASSUME NEW w \in Workers, Dispatch(w)  PROVE Goal
  <2>1. Only({Starter, w}) /\ pc'[Starter] = "loop" /\ pc'[w] = "register"
    BY <1>6 DEF Dispatch, Only, Placed
  <2>. QED  BY <1>1, <2>1
<1>7. ASSUME NEW w \in Workers, WorkStep(w)  PROVE Goal
  <2>1. Only({w})
    BY <1>7, WorkerOnly DEF WorkStep, WorkerStep
  <2>2. CASE DoEndsLate(w)
    <3>1. \/ pc'[w] \in Resting
          \/ pc'[w] = pc[w] /\ frame' = frame
      BY <2>2, GotoEffect DEF DoEndsLate, Resting
    <3>. QED  BY <1>1, <2>1, <3>1 DEF Resting, Only
  <2>3. CASE ~DoEndsLate(w)
    <3>1. pc'[w] # "update"
      BY <1>7, <2>3
         DEF WorkStep, Register, StartDo, CheckCanceled, Done, Recover, Reschedule,
             Unregister, DoStep, DoReturns, DoPanics, ContextEnds, Goto, Transit,
             Placed
    <3>. QED  BY <1>1, <2>1, <3>1
  <2>. QED  BY <2>2, <2>3
<1>8. CASE Restart \/ NilTask
  <2>1. pc'[a] \in {"resume", "idle"}
    BY <1>8 DEF Restart, NilTask, Reboot
  <2>. QED  BY <2>1
<1>9. CASE UNCHANGED <<pc, frame>>
  BY <1>9
<1>. QED
  BY <1>2, <1>3, <1>4, <1>5, <1>6, <1>7, <1>8, <1>9
     DEF Next, HandlerStep, StarterStep, WorkerStep, WorkStep, LoopStep,
         ResumeTimePasses, Shutdown, vars

LEMMA SettlingStep ==
  ASSUME Placed, Stored, OneClaim, Written, Settling, [Next]_vars
  PROVE  Settling'
<1>. USE AgentKinds
<1>1. CASE Restart \/ NilTask
  <2>1. /\ \A a \in Agents : pc'[a] \in {"resume", "idle"}
        /\ \A t \in Tasks : status'[t] = "new"
        /\ toResume' = Pending(db) /\ db' = db
    BY <1>1 DEF Restart, NilTask, Reboot
  <2>. QED  BY <2>1 DEF Settling, Pending, Active, Writing
<1>2. CASE ~Restart /\ ~NilTask
  <2>1. ASSUME NEW t \in Tasks, Settled(t)  PROVE Settled(t)'
    BY <1>2, <2>1, SettledStays
  <2>2. toResume' \subseteq toResume
    <3>1. ASSUME NEW a \in Agents, TransitStep(a)  PROVE toResume' = toResume
      BY <3>1 DEF TransitStep, Lookup, Assign, Exec, Enqueue, Push, SetRegistry
    <3>2. ASSUME NEW w \in Workers, WorkStep(w)  PROVE toResume' = toResume
      BY <3>2, WorkClaims
    <3>3. ASSUME NEW c \in Callers,
                 \/ Signal(c) \/ Remove(c) \/ ReadStatus(c)
                 \/ \E u \in Tasks : Submit(c, u) \/ Cancel(c, u) \/ Update(c, u)
          PROVE  toResume' = toResume
      BY <3>3 DEF Signal, Remove, ReadStatus, Submit, Cancel, Update
    <3>4. ASSUME \/ \E u \in Tasks : Resume(u) \/ ResumeTimePasses(u)
                 \/ LoopStep \/ Pop \/ \E w \in Workers : Dispatch(w)
                 \/ Shutdown \/ UNCHANGED vars
          PROVE  toResume' \subseteq toResume
      BY <3>4 DEF Resume, ResumeTimePasses, LoopStep, EnterLoop, LoopSchedule,
                  LoopWait, Request, Pop, Dispatch, Shutdown, vars
    <3>. QED  BY <1>2, <3>1, <3>2, <3>3, <3>4
              DEF Next, HandlerStep, StarterStep, WorkerStep, WorkStep, LoopStep
  <2>3. ASSUME NEW t \in toResume'  PROVE db'[t] \notin {"completed", "error"}
    <3>1. t \in Tasks /\ t \in toResume /\ db[t] \notin {"completed", "error"}
      BY <2>2 DEF Settling, Stored
    <3>2. ASSUME NEW a \in Agents, pc[a] = "exec", frame[a].task = t
          PROVE  frame[a].to \notin {"completed", "error"}
      BY <3>1, <3>2 DEF Settling, Settled, Writing
    <3>. QED  BY <3>1, <3>2, RowStep
  <2>4. ASSUME NEW t \in Tasks, status'[t] \in {"completed", "error"}
        PROVE  Settled(t)
    <3>1. CASE status'[t] = status[t]
      BY <2>4, <3>1 DEF Settling
    <3>2. ASSUME NEW a \in Agents, pc[a] = "assign", frame[a].task = t,
                 status'[t] = frame[a].to
          PROVE  Settled(t)
      BY <2>4, <3>2 DEF Settling, Writing
    <3>3. ~(t \in toResume /\ status'[t] = db[t])
      BY <2>4 DEF Settling
    <3>. QED  BY <1>2, <2>4, <3>1, <3>2, <3>3, StatusStep
  <2>5. ASSUME NEW a \in Agents, pc'[a] \in Writing,
               frame'[a].to \in {"completed", "error"}
        PROVE  \E t \in Tasks : frame'[a].task = t /\ Settled(t)'
    <3>1. CASE pc[a] \in Writing /\ frame'[a] = frame[a]
      <4>1. Settled(frame[a].task) /\ frame[a].task \in Tasks
        BY <2>5, <3>1 DEF Settling, Placed, Tasked, Writing, PCs
      <4>2. PICK t \in Tasks : t = frame[a].task
        BY <4>1
      <4>. QED  BY <2>1, <3>1, <4>1, <4>2
    <3>2. CASE a \in Callers /\ ReadStatus(a)
      <4>1. PICK t \in Tasks : t = frame[a].task
        BY <3>2, ReadStatusEffect
      <4>2. frame'[a].task = t /\ status[t] = frame'[a].to
        <5>. HIDE DEF Writing
        <5>1. frame'[a] = [task |-> t, to |-> status[t], ret |-> "updated"]
          BY <3>2, <4>1, ReadStatusEffect
        <5>. QED  BY <5>1
      <4>3. Settled(t)
        BY <2>5, <4>2 DEF Settling
      <4>. QED  BY <2>1, <4>2, <4>3
    <3>3. CASE /\ Claims(a) /\ Only({a}) /\ UNCHANGED <<db, stack, toResume>>
               /\ frame'[a].task = frame[a].task
               /\ frame'[a].ret \in {"done", "schedule"}
      <4>1. PICK t \in Tasks : t = frame'[a].task
        <5>1. frame'[a].task \in Tasks
          BY <2>5, PlacedStep DEF Placed, Tasked, Writing, PCs
        <5>. QED  BY <5>1
      <4>2. ~Waiting(t) /\ t \notin toResume /\ db[t] # "new"
        BY <3>3, <4>1 DEF OneClaim, Untouched
      <4>3. ~Waiting(t)'
        BY <3>3, <4>2 DEF Waiting
      <4>4. \A b \in Agents \ {a} : Holds(b) => frame[b].task # t
        BY <3>3, <4>1 DEF OneClaim, Claims
      <4>5. \A b \in Agents \ {a} : Holds(b)' => frame'[b].task # t
        BY <3>3, <4>4 DEF Only, Holds
      <4>6. Finishing(a)'
        BY <2>5, <3>3 DEF Finishing
      <4>7. Settled(t)'
        BY <3>3, <4>1, <4>2, <4>3, <4>5, <4>6 DEF Settled
      <4>. QED  BY <4>1, <4>7
    <3>. QED  BY <2>5, <3>1, <3>2, <3>3, FinishingStep
  <2>6. ASSUME NEW a \in Agents, pc'[a] = "update"
        PROVE  status'[frame'[a].task] # "new"
    <3>1. ASSUME NEW t \in Tasks, status[t] # "new"  PROVE status'[t] # "new"
      <4>1. \A b \in Agents : pc[b] = "assign" => frame[b].to # "new"
        BY DEF Written, Writing
      <4>2. t \in toResume => db[t] # "new"
        BY DEF OneClaim
      <4>. QED  BY <1>2, <3>1, <4>1, <4>2, StatusStep
    <3>2. CASE pc[a] = "update" /\ frame'[a] = frame[a]
      <4>1. frame[a].task \in Tasks
        BY <3>2 DEF Placed, Tasked, PCs
      <4>. QED  BY <3>1, <3>2, <4>1 DEF Settling
    <3>3. CASE \E c \in Callers, t \in Tasks : a = c /\ Update(c, t)
      <4>1. PICK t \in Tasks : Update(a, t)
        BY <3>3
      <4>2. frame'[a].task = t /\ status' = status
            /\ status[t] \in {"processing", "suspending"}
        BY <2>6, <4>1 DEF Update, Placed, NoFrame, memory
      <4>. QED  BY <4>2
    <3>. QED  BY <1>2, <2>6, <3>2, <3>3, CallingStep
  <2>7. \A t \in Tasks : status'[t] \in {"completed", "error"} => Settled(t)'
    BY <2>1, <2>4
  <2>8. ASSUME NEW a \in Agents, pc'[a] \in Writing,
               frame'[a].to \in {"completed", "error"}
        PROVE  Settled(frame[a].task)'
    <3>1. PICK t \in Tasks : frame'[a].task = t /\ Settled(t)'
      BY <2>5, <2>8
    <3>. QED  BY <3>1
  <2>. QED  BY <2>3, <2>6, <2>7, <2>8 DEF Settling
<1>. QED  BY <1>1, <1>2

(***************************************************************************)
(* Unfinished.                                                             *)
(***************************************************************************)
LEMMA UnfinishedStep ==
  ASSUME Placed, Stored, Written, Settling, Unfinished, [Next]_vars
  PROVE  Unfinished'
<1>. USE AgentKinds
<1>1. ASSUME NEW A \in SUBSET Agents, Only(A), db' = db,
             \A w \in A : pc'[w] # "iterate"
      PROVE  Unfinished'
  BY <1>1 DEF Unfinished, Only
<1>2. ASSUME NEW a \in Agents, Lookup(a)  PROVE Unfinished'
  <2>1. db' = db /\ Only({a})
    BY <1>2, TransitStepEffect DEF Lookup, TransitStep
  <2>2. CASE Goto(a, Continue(a, FALSE))
    <3>1. pc'[a] # "iterate"
      BY <2>2, GotoEffect, ContinueCases
    <3>. QED  BY <1>1, <2>1, <3>1
  <2>3. CASE Goto(a, Continue(a, TRUE)) /\ frame[a].to = "queued"
    <3>1. frame[a].ret # "iterate"
      BY <1>2, <2>3 DEF Lookup, Written, Writing
    <3>2. pc'[a] # "iterate"
      BY <2>3, <3>1, GotoEffect, ContinueCases
    <3>. QED  BY <1>1, <2>1, <3>2
  <2>4. CASE Goto(a, "assign")
    BY <1>1, <2>1, <2>4, GotoEffect
  <2>. QED  BY <1>2, <2>2, <2>3, <2>4 DEF Lookup
<1>3. ASSUME NEW a \in Agents, Exec(a)  PROVE Unfinished'
  <2>. DEFINE t == frame[a].task
  <2>1. Only({a}) /\ pc[a] = "exec"
    BY <1>3, TransitStepEffect DEF Exec, TransitStep
  <2>2. CASE UNCHANGED db /\ Goto(a, Continue(a, FALSE))
    <3>1. pc'[a] # "iterate"
      BY <2>2, GotoEffect, ContinueCases
    <3>. QED  BY <1>1, <2>1, <2>2, <3>1
  <2>3. CASE db' = [db EXCEPT ![t] = frame[a].to] /\ Goto(a, Continue(a, TRUE))
    <3>1. SUFFICES ASSUME NEW w \in Workers, pc'[w] = "iterate"
                   PROVE  db'[frame'[w].task] \notin {"completed", "error"}
      BY DEF Unfinished
    <3>2. CASE w = a
      <4>1. pc'[a] = Continue(a, TRUE) /\ frame' = frame
        BY <2>3, <3>1, <3>2, GotoEffect DEF Resting
      <4>2. frame[a].to = "processing"
        BY <2>1, <3>1, <3>2, <4>1, ContinueCases DEF Written, Writing
      <4>3. t \in Tasks
        BY <2>1 DEF Placed, Tasked, PCs
      <4>. QED  BY <2>3, <3>2, <4>1, <4>2, <4>3 DEF Stored
    <3>3. CASE w # a
      <4>1. /\ pc[w] = "iterate" /\ frame'[w] = frame[w]
            /\ db[frame[w].task] \notin {"completed", "error"}
        BY <2>1, <3>1, <3>3 DEF Only, Unfinished
      <4>2. CASE frame[w].task = t
        <5>1. Holds(w) /\ ~Finishing(w)
          BY <4>1 DEF Holds, Finishing, Writing
        <5>2. frame[a].to \notin {"completed", "error"}
          BY <2>1, <4>2, <5>1 DEF Settling, Settled, Writing
        <5>. QED  BY <2>3, <4>1, <4>2, <5>2 DEF Stored
      <4>3. CASE frame[w].task # t
        BY <2>3, <4>1, <4>3 DEF Stored
      <4>. QED  BY <4>2, <4>3
    <3>. QED  BY <3>2, <3>3
  <2>. QED  BY <1>3, <2>2, <2>3 DEF Exec
<1>4. ASSUME NEW a \in Agents,
             Assign(a) \/ Enqueue(a) \/ Push(a) \/ SetRegistry(a)
      PROVE  Unfinished'
  <2>1. db' = db /\ Only({a})
    BY <1>4, TransitStepEffect
       DEF Assign, Enqueue, Push, SetRegistry, TransitStep
  <2>2. \/ Goto(a, Home(a)) \/ Goto(a, "exec") \/ Goto(a, "push") \/ Goto(a, "set")
        \/ Transit(a, frame[a].task, "queued", "push")
    BY <1>4 DEF Assign, Enqueue, Push, SetRegistry
  <2>3. pc'[a] # "iterate"
    BY <2>2, HomePlace DEF Goto, Transit, Placed
  <2>. QED  BY <1>1, <2>1, <2>3
<1>5. ASSUME NEW c \in Callers, NEW t \in Tasks, Submit(c, t)  PROVE Unfinished'
  <2>1. Only({c}) /\ db' = [db EXCEPT ![t] = "queued"]
    BY <1>5 DEF Submit, Only, Placed
  <2>. QED  BY <2>1 DEF Unfinished, Only, Stored
<1>6. ASSUME NEW c \in Callers,
             \/ Signal(c) \/ Remove(c) \/ ReadStatus(c)
             \/ \E t \in Tasks : Cancel(c, t) \/ Update(c, t)
      PROVE  Unfinished'
  <2>1. /\ Only({c}) /\ db' = db
        /\ pc'[c] \in {"lookup", "idle", "signal", "remove", "update", "assign", "exec"}
    BY <1>6, ReadStatusEffect DEF Signal, Remove, Cancel, Update, Goto, Transit, Only, Placed
  <2>. QED  BY <1>1, <2>1
<1>7. CASE \/ \E t \in Tasks : Resume(t)
           \/ EnterLoop \/ LoopSchedule \/ LoopWait \/ Request \/ Pop
  <2>1. /\ Only({Starter}) /\ db' = db
        /\ pc'[Starter] \in {"enqueue", "loop", "wait", "request", "idle", "locked",
                             "dispatch"}
    BY <1>7 DEF Resume, EnterLoop, LoopSchedule, LoopWait, Request, Pop, Goto,
                Only, Placed
  <2>. QED  BY <1>1, <2>1
<1>8. ASSUME NEW w \in Workers, Dispatch(w)  PROVE Unfinished'
  <2>1. /\ Only({Starter, w}) /\ db' = db
        /\ pc'[Starter] = "loop" /\ pc'[w] = "register"
    BY <1>8 DEF Dispatch, Only, Placed
  <2>. QED  BY <1>1, <2>1
<1>9. ASSUME NEW w \in Workers, WorkerStep(w) \/ DoStep(w)  PROVE Unfinished'
  <2>1. CASE TransitStep(w)
    BY <1>2, <1>3, <1>4, <2>1 DEF TransitStep
  <2>2. Only({w})
    BY <1>9, WorkerOnly
  <2>3. CASE DoEndsLate(w)
    <3>1. /\ db' = db
          /\ \/ pc'[w] = "idle"
             \/ pc'[w] = pc[w] /\ (pc[w] \in Resting \/ frame' = frame)
      BY <2>3, GotoEffect DEF DoEndsLate
    <3>. QED  BY <2>2, <3>1 DEF Unfinished, Only, Resting
  <2>4. CASE ~TransitStep(w) /\ ~DoEndsLate(w)
    <3>1. CASE Register(w) \/ StartDo(w) \/ CheckCanceled(w) \/ Done(w) \/ Recover(w)
      <4>1. db' = db /\ pc'[w] \in {"lookup", "run", "done", "schedule"}
        BY <3>1 DEF Register, StartDo, CheckCanceled, Done, Recover, Goto,
                    Transit, Placed
      <4>. QED  BY <1>1, <2>2, <4>1
    <3>2. CASE Reschedule(w) \/ Unregister(w) \/ DoStep(w)
      <4>1. /\ db' = db
            /\ pc'[w] \in {"unregister", "drain", "idle", "check", "panicked"}
        BY <3>2 DEF Reschedule, Unregister, DoStep, DoReturns, DoPanics,
                    ContextEnds, Goto, Placed, memory
      <4>. QED  BY <1>1, <2>2, <4>1
    <3>. QED  BY <1>9, <2>4, <3>1, <3>2 DEF WorkerStep
  <2>. QED  BY <2>1, <2>3, <2>4
<1>10. CASE Restart \/ NilTask
  BY <1>10 DEF Restart, NilTask, Reboot, Unfinished
<1>11. CASE UNCHANGED <<pc, frame, db>>
  BY <1>11 DEF Unfinished
<1>. QED
  BY <1>2, <1>3, <1>4, <1>5, <1>6, <1>7, <1>8, <1>9, <1>10, <1>11
     DEF Next, TransitStep, HandlerStep, StarterStep, ResumeTimePasses, Shutdown,
         vars

-----------------------------------------------------------------------------
(***************************************************************************)
(* The theorems.                                                           *)
(***************************************************************************)
LEMMA ExclusiveInit == Init => Exclusive
<1>. SUFFICES ASSUME Init  PROVE Exclusive
  OBVIOUS
<1>. USE AgentKinds
<1>1. \A a \in Agents : pc[a] \in {"idle", "resume"} /\ ~Claims(a)
  BY DEF Init, Claims, Holds, Writing
<1>2. OneClaim
  BY <1>1 DEF Init, OneClaim, Untouched, Waiting
<1>3. \A t \in Tasks : status[t] = "new"
  BY DEF Init
<1>4. Settling
  BY <1>1, <1>3 DEF Init, Settling, Writing
<1>. QED
  BY <1>1, <1>2, <1>4 DEF Init, Exclusive, LeftBehind, Written, Writing, Unfinished

LEMMA ExclusiveInvariant == Spec => [](QueueInv /\ Exclusive)
<1>1. QueueInv /\ Exclusive /\ [Next]_vars => Exclusive'
  BY OneClaimStep, LeftBehindStep, WrittenStep, SettlingStep, UnfinishedStep
     DEF QueueInv, Exclusive
<1>. QED  BY <1>1, ExclusiveInit, QueueInvariant, PTL DEF Spec

\* A task is on the stack once, or with the one goroutine that may run or
\* requeue it.
THEOREM TaskInOnePlace == Spec => []OneCarrier
<1>1. QueueInv /\ Exclusive => OneCarrier
  <2>. SUFFICES ASSUME QueueInv, Exclusive  PROVE OneCarrier
    OBVIOUS
  <2>1. \A a \in Agents : Carries(a) => Claims(a)
    BY DEF Carries, Claims, Holds, Outside, Writing
  <2>. QED  BY <2>1 DEF Exclusive, OneClaim, OneCarrier, Waiting
<1>. QED  BY <1>1, ExclusiveInvariant, PTL

\* Do never runs twice at once for one task, whatever was left behind by
\* timeouts, cancellations and panics.
THEOREM NoConcurrentDo == Spec => []DoExclusive
<1>1. QueueInv /\ Exclusive => DoExclusive
  BY AgentKinds
     DEF QueueInv, Stored, Exclusive, OneClaim, Claims, DoExclusive
<1>. QED  BY <1>1, ExclusiveInvariant, PTL

\* Do is never started for a task whose row says completed or error.
THEOREM FinishedStayFinished == Spec => FinishedNeverStarted
<1>1. QueueInv /\ Exclusive /\ [Next]_vars
        => \A w \in Workers : w \in executing' \ executing
             => db[frame[w].task] \notin {"completed", "error"}
  <2>. SUFFICES ASSUME QueueInv, Exclusive, [Next]_vars, NEW w \in Workers,
                       w \in executing' \ executing
                PROVE  db[frame[w].task] \notin {"completed", "error"}
    OBVIOUS
  <2>1. pc[w] = "iterate"
    <3>1. ASSUME NEW a \in Agents, TransitStep(a)  PROVE executing' = executing
      BY <3>1 DEF TransitStep, Lookup, Assign, Exec, Enqueue, Push, SetRegistry
    <3>2. ASSUME NEW c \in Callers, NEW t \in Tasks,
                 Submit(c, t) \/ Cancel(c, t) \/ Update(c, t)
          PROVE  executing' = executing
      BY <3>2 DEF Submit, Cancel, Update
    <3>3. ASSUME NEW c \in Callers, Signal(c) \/ Remove(c) \/ ReadStatus(c)
          PROVE  executing' = executing
      BY <3>3 DEF Signal, Remove, ReadStatus
    <3>4. CASE \/ \E t \in Tasks : Resume(t)
               \/ EnterLoop \/ LoopSchedule \/ LoopWait \/ Request \/ Pop
               \/ \E v \in Workers : Dispatch(v)
      BY <3>4 DEF Resume, EnterLoop, LoopSchedule, LoopWait, Request, Pop, Dispatch
    <3>5. ASSUME NEW v \in Workers,
                 \/ Register(v) \/ CheckCanceled(v) \/ Done(v) \/ Recover(v)
                 \/ Reschedule(v) \/ Unregister(v) \/ DoEndsLate(v) \/ DoStep(v)
          PROVE  executing' \subseteq executing
      BY <3>5 DEF Register, CheckCanceled, Done, Recover, Reschedule, Unregister,
                  DoEndsLate, DoStep, DoReturns, DoPanics, ContextEnds
    <3>6. ASSUME NEW v \in Workers, StartDo(v)
          PROVE  pc[v] = "iterate" /\ executing' = executing \cup {v}
      BY <3>6 DEF StartDo
    <3>7. Restart \/ NilTask \/ Shutdown \/ (\E t \in Tasks : ResumeTimePasses(t))
            \/ UNCHANGED vars => executing' \subseteq executing
      BY DEF Restart, NilTask, Reboot, Shutdown, ResumeTimePasses, vars
    <3>. QED  BY <3>1, <3>2, <3>3, <3>4, <3>5, <3>6, <3>7, AgentKinds
              DEF Next, HandlerStep, StarterStep, WorkerStep
  <2>. QED  BY <2>1 DEF Exclusive, Unfinished
<1>. QED  BY <1>1, ExclusiveInvariant, PTL DEF Spec, FinishedNeverStarted

-----------------------------------------------------------------------------
(***************************************************************************)
(* What the task table shows: that the queue implements TaskLifecycle and  *)
(* forgets no task while nobody cancels or updates one from outside, and   *)
(* that a waiting task that was cancelled is not run.                      *)
(*                                                                         *)
(* The argument: with no call from outside, the row of a task is written   *)
(* only by the agent that has claimed it (OneClaim), so that what the      *)
(* agent is about to do bounds what the row may say.                       *)
(***************************************************************************)
Row(a) == db[frame[a].task]
Known(a) == status[frame[a].task]

\* no agent works for CancelTask or UpdateTask
Unasked ==
  \A a \in Agents :
    /\ pc[a] \notin {"signal", "remove", "update"}
    /\ pc[a] \in Writing => frame[a].ret \notin Outside

\* what a transition is for, and the row it will overwrite
Purpose(a) ==
  \/ frame[a].ret = "iterate" /\ frame[a].to = "processing"
  \/ /\ frame[a].ret = "enqueue" /\ frame[a].to = "suspending"
     /\ Row(a) = "processing"
  \/ /\ frame[a].ret = "done" /\ frame[a].to \in Terminal
     /\ Row(a) = "processing"
  \/ /\ frame[a].ret = "push" /\ frame[a].to = "queued"
     /\ Row(a) \in {"queued", "processing"}
  \/ frame[a].ret = "schedule" /\ frame[a].to = "error"

RowFits(a) ==
  /\ Row(a) \in Active
  /\ pc[a] \in {"iterate", "run", "check"} => Row(a) = "processing"
  /\ pc[a] = "check" => frame[a].to \in Terminal \cup {"suspending"}
  /\ pc[a] = "enqueue" => Known(a) = Row(a)
  /\ pc[a] \in Writing => Purpose(a)
  /\ pc[a] = "exec" => Known(a) = frame[a].to

Rows == \A a \in Agents : Holds(a) => RowFits(a)

\* the tasks nobody works on and that are still to be run
Lined == \A t \in Tasks : Waiting(t) \/ t \in toResume => db[t] \in Active

Undisturbed == calls = 0 => Unasked /\ Rows /\ Lined

\* a run that was given up is never reported as completed or suspended
GivenUp ==
  \A w \in executing :
    pc[w] \in Writing \cup {"check"} => frame[w].to \in {"error", "canceled"}

LEMMA QuietStep ==
  ASSUME Placed, Stored, calls = 0 => Unasked, [Next]_vars, calls' = 0
  PROVE  /\ calls = 0 /\ Unasked
         /\ \/ \E a \in Agents : TransitStep(a)
            \/ \E c \in Callers, t \in Tasks : Submit(c, t)
            \/ \E t \in Tasks : Resume(t)
            \/ LoopStep \/ Pop
            \/ \E w \in Workers : Dispatch(w)
            \/ \E w \in Workers : WorkStep(w)
            \/ \E t \in Tasks : ResumeTimePasses(t)
            \/ Shutdown \/ Restart \/ NilTask
            \/ UNCHANGED vars
<1>. USE AgentKinds
<1>1. ASSUME NEW c \in Callers, NEW t \in Tasks, Cancel(c, t) \/ Update(c, t)
      PROVE  FALSE
  BY <1>1 DEF Cancel, Update, Stored
<1>2. calls = 0
  <2>1. ASSUME NEW a \in Agents, TransitStep(a)  PROVE calls' = calls
    BY <2>1 DEF TransitStep, Lookup, Assign, Exec, Enqueue, Push, SetRegistry,
                bounds
  <2>2. ASSUME NEW c \in Callers, Signal(c) \/ Remove(c) \/ ReadStatus(c)
        PROVE  calls' = calls
    BY <2>2 DEF Signal, Remove, ReadStatus, bounds
  <2>3. ASSUME NEW c \in Callers, NEW t \in Tasks, Submit(c, t)
        PROVE  calls' = calls
    BY <2>3 DEF Submit, bounds
  <2>4. CASE \/ \E t \in Tasks : Resume(t) \/ ResumeTimePasses(t)
             \/ LoopStep \/ Pop \/ \E w \in Workers : Dispatch(w)
    BY <2>4 DEF Resume, ResumeTimePasses, LoopStep, EnterLoop, LoopSchedule,
                LoopWait, Request, Pop, Dispatch, bounds
  <2>5. ASSUME NEW w \in Workers, WorkStep(w)  PROVE calls' = calls
    BY <2>5 DEF WorkStep, Register, StartDo, CheckCanceled, Done, Recover,
                Reschedule, Unregister, DoEndsLate, DoStep, DoReturns, DoPanics,
                ContextEnds, bounds
  <2>6. CASE Shutdown \/ Restart \/ NilTask \/ UNCHANGED vars
    BY <2>6 DEF Shutdown, Restart, NilTask, Reboot, bounds, vars
  <2>. QED
    BY <1>1, <2>1, <2>2, <2>3, <2>4, <2>5, <2>6
       DEF Next, HandlerStep, StarterStep, WorkerStep, WorkStep, LoopStep
<1>3. ASSUME NEW c \in Callers, Signal(c) \/ Remove(c) \/ ReadStatus(c)
      PROVE  FALSE
  BY <1>2, <1>3 DEF Signal, Remove, ReadStatus, Unasked
<1>. QED
  BY <1>1, <1>2, <1>3
     DEF Next, HandlerStep, StarterStep, WorkerStep, WorkStep, LoopStep

(***************************************************************************)
(* The rows.                                                               *)
(***************************************************************************)
LEMMA RowsKept ==
  ASSUME Rows, NEW A \in SUBSET Agents, Only(A),
         \A b \in Agents \ A : Holds(b) =>
           /\ db'[frame[b].task] = db[frame[b].task]
           /\ status'[frame[b].task] = status[frame[b].task],
         \A a \in A : Holds(a)' => RowFits(a)'
  PROVE  Rows'
<1>1. ASSUME NEW b \in Agents \ A, Holds(b)'  PROVE RowFits(b)'
  <2>1. pc'[b] = pc[b] /\ frame'[b] = frame[b]
    BY DEF Only
  <2>2. Holds(b)
    BY <1>1, <2>1 DEF Holds
  <2>3. Row(b)' = Row(b) /\ Known(b)' = Known(b)
    BY <2>1, <2>2 DEF Row, Known
  <2>4. RowFits(b)
    BY <2>2 DEF Rows
  <2>. QED  BY <2>1, <2>3, <2>4 DEF RowFits, Purpose
<1>. QED  BY <1>1 DEF Rows

LEMMA HomeFree ==
  ASSUME NEW a \in Agents, pc'[a] = Home(a)
  PROVE  ~Holds(a)'
BY HomePlace DEF Holds, Writing

\* the task an agent claims is nobody else's
LEMMA OwnTask ==
  ASSUME OneClaim, NEW a \in Agents, NEW b \in Agents \ {a}, Holds(a), Holds(b)
  PROVE  frame[b].task # frame[a].task
BY DEF OneClaim, Claims

LEMMA RowsTransit ==
  ASSUME Placed, Stored, OneClaim, Unasked, Rows, NEW a \in Agents, TransitStep(a)
  PROVE  Rows'
<1>. DEFINE t == frame[a].task
<1>1. /\ Only({a}) /\ t \in Tasks
      /\ pc[a] \in {"lookup", "assign", "exec", "enqueue", "push", "set"}
  BY TransitStepEffect DEF Placed, Tasked, PCs
<1>2. ASSUME \A b \in Agents \ {a} : Holds(b) =>
               /\ db'[frame[b].task] = db[frame[b].task]
               /\ status'[frame[b].task] = status[frame[b].task],
             Holds(a)' => RowFits(a)'
      PROVE  Rows'
  BY <1>1, <1>2, RowsKept
<1>3. pc[a] \in Writing \cup {"enqueue", "push"} => Holds(a) /\ RowFits(a)
  BY DEF Holds, Unasked, Rows
<1>4. ASSUME Goto(a, Continue(a, FALSE)), pc[a] \in {"lookup", "exec"},
             UNCHANGED <<db, status>>
      PROVE  Rows'
  <2>1. pc'[a] = Continue(a, FALSE)
    BY <1>4, GotoEffect
  <2>2. CASE Continue(a, FALSE) = Home(a)
    BY <1>2, <1>4, <2>1, <2>2, HomeFree
  <2>3. CASE Continue(a, FALSE) # Home(a)
    <3>1. Continue(a, FALSE) \in {"panicked", "schedule"}
      BY <2>3 DEF Continue
    <3>2. frame' = frame
      BY <1>4, <3>1, GotoEffect DEF Resting
    <3>3. Row(a)' \in Active
      BY <1>3, <1>4, <3>2 DEF RowFits, Row, Writing
    <3>. QED  BY <1>2, <1>4, <2>1, <3>1, <3>3 DEF RowFits, Writing
  <2>. QED  BY <2>2, <2>3
<1>5. CASE Lookup(a)
  <2>1. UNCHANGED <<db, status>> /\ pc[a] = "lookup"
    BY <1>5 DEF Lookup
  <2>2. CASE Goto(a, Continue(a, FALSE))
    BY <1>4, <2>1, <2>2
  <2>3. CASE Goto(a, Continue(a, TRUE)) /\ frame[a].to = "queued"
    <3>1. frame[a].ret = "push" /\ Row(a) \in Active
      BY <1>3, <2>1, <2>3 DEF RowFits, Purpose, Writing, Terminal
    <3>2. Continue(a, TRUE) = "push"
      BY <3>1 DEF Continue
    <3>3. pc'[a] = "push" /\ frame' = frame
      BY <2>3, <3>2 DEF Goto, Resting, Placed
    <3>. QED  BY <1>2, <2>1, <3>1, <3>3 DEF RowFits, Row, Writing
  <2>4. CASE Goto(a, "assign")
    <3>1. pc'[a] = "assign" /\ frame' = frame
      BY <2>4 DEF Goto, Resting, Placed
    <3>. QED  BY <1>2, <1>3, <2>1, <3>1 DEF RowFits, Row, Writing, Purpose
  <2>. QED  BY <1>5, <2>2, <2>3, <2>4 DEF Lookup
<1>6. CASE Assign(a)
  <2>1. /\ pc[a] = "assign" /\ db' = db /\ status' = [status EXCEPT ![t] = frame[a].to]
        /\ pc'[a] = "exec" /\ frame' = frame
    BY <1>6 DEF Assign, Goto, Resting, Placed
  <2>2. Holds(a) /\ RowFits(a) /\ Purpose(a)
    BY <1>3, <2>1 DEF Writing, RowFits
  <2>3. status'[t] = frame[a].to
    BY <1>1, <2>1 DEF Stored
  <2>4. RowFits(a)'
    BY <2>1, <2>2, <2>3 DEF RowFits, Purpose, Row, Known, Writing
  <2>5. \A b \in Agents \ {a} : Holds(b) =>
          status'[frame[b].task] = status[frame[b].task]
    BY <2>1, <2>2, OwnTask DEF Stored
  <2>. QED  BY <1>2, <2>1, <2>4, <2>5
<1>7. CASE Exec(a)
  <2>1. pc[a] = "exec" /\ status' = status
    BY <1>7 DEF Exec, memory
  <2>2. Holds(a) /\ RowFits(a) /\ Purpose(a) /\ Known(a) = frame[a].to
    BY <1>3, <2>1 DEF Writing, RowFits
  <2>3. CASE db' = [db EXCEPT ![t] = frame[a].to] /\ Goto(a, Continue(a, TRUE))
    <3>1. \A b \in Agents \ {a} : Holds(b) => db'[frame[b].task] = db[frame[b].task]
      BY <2>2, <2>3, OwnTask DEF Stored
    <3>2. pc'[a] = Continue(a, TRUE)
      BY <2>3, GotoEffect
    <3>3. CASE frame[a].ret \in {"done", "schedule"}
      <4>1. Continue(a, TRUE) \in {"schedule", Home(a)}
        BY <3>3 DEF Continue
      <4>2. ~Holds(a)'
        BY <3>2, <4>1, HomeFree DEF Holds, Writing
      <4>. QED  BY <1>2, <2>1, <3>1, <4>2
    <3>4. CASE frame[a].ret \in {"iterate", "enqueue", "push"}
      <4>1. Continue(a, TRUE) = frame[a].ret
        BY <3>4 DEF Continue
      <4>2. frame' = frame
        BY <2>3, <3>4, <4>1, GotoEffect DEF Resting
      <4>3. Row(a)' = frame[a].to
        BY <1>1, <2>3, <4>2 DEF Row, Stored
      <4>4. Known(a)' = frame[a].to
        BY <2>1, <2>2, <4>2 DEF Known
      <4>5. RowFits(a)'
        BY <2>2, <3>2, <3>4, <4>1, <4>3, <4>4 DEF RowFits, Purpose, Active, Writing
      <4>. QED  BY <1>2, <2>1, <3>1, <4>5
    <3>. QED  BY <2>2, <3>3, <3>4 DEF Purpose
  <2>4. CASE db' = db /\ Goto(a, Continue(a, FALSE))
    BY <1>4, <2>1, <2>4
  <2>. QED  BY <1>7, <2>3, <2>4 DEF Exec
<1>8. CASE Enqueue(a)
  <2>1. pc[a] = "enqueue" /\ UNCHANGED <<db, status>>
    BY <1>8 DEF Enqueue, memory
  <2>2. Known(a) = Row(a) /\ Row(a) \in Active
    BY <1>3, <2>1 DEF RowFits
  <2>3. CASE Goto(a, Home(a))
    BY <1>2, <2>1, <2>3, GotoEffect, HomeFree
  <2>4. CASE Goto(a, "push")
    <3>1. pc'[a] = "push" /\ frame' = frame
      BY <2>4 DEF Goto, Resting, Placed
    <3>. QED  BY <1>2, <2>1, <2>2, <3>1 DEF RowFits, Row, Writing
  <2>5. CASE Transit(a, t, "queued", "push") /\ Known(a) # "suspending"
    <3>1. /\ pc'[a] = "lookup" /\ frame'[a].task = t
          /\ frame'[a].to = "queued" /\ frame'[a].ret = "push"
      BY <2>5 DEF Transit, Placed
    <3>2. Row(a)' = Row(a) /\ Row(a) \in {"queued", "processing"}
      BY <2>1, <2>2, <2>5, <3>1 DEF Row, Active
    <3>. QED  BY <1>2, <2>1, <2>2, <3>1, <3>2 DEF RowFits, Purpose
  <2>. QED  BY <1>8, <2>3, <2>4, <2>5 DEF Enqueue, Known
<1>9. CASE Push(a) \/ SetRegistry(a)
  <2>1. UNCHANGED <<db, status>> /\ (Goto(a, "set") \/ Goto(a, Home(a)))
    BY <1>9 DEF Push, SetRegistry, memory
  <2>2. CASE Goto(a, Home(a))
    BY <1>2, <2>1, <2>2, GotoEffect, HomeFree
  <2>3. CASE Goto(a, "set")
    <3>1. pc'[a] = "set"
      BY <2>3 DEF Goto, Placed
    <3>. QED  BY <1>2, <2>1, <3>1 DEF Holds, Writing
  <2>. QED  BY <2>1, <2>2, <2>3
<1>. QED  BY <1>5, <1>6, <1>7, <1>8, <1>9 DEF TransitStep

LEMMA RowsWork ==
  ASSUME Placed, Stored, Rows, LeftBehind, NEW w \in Workers, WorkStep(w)
  PROVE  Rows' /\ UNCHANGED <<db, status, stack, toResume>>
<1>. USE AgentKinds
<1>0. UNCHANGED <<db, status, stack, toResume>>
  BY DEF WorkStep, Register, StartDo, CheckCanceled, Done, Recover, Reschedule,
         Unregister, DoEndsLate, DoStep, DoReturns, DoPanics, ContextEnds, memory
<1>. SUFFICES Rows'
  BY <1>0
<1>. w \in Agents
  OBVIOUS
<1>1. Only({w})
  BY WorkerOnly DEF WorkStep, WorkerStep
<1>2. ASSUME Holds(w)' => RowFits(w)'  PROVE Rows'
  BY <1>0, <1>1, <1>2, RowsKept
<1>3. ASSUME NEW to, NEW r, Transit(w, frame[w].task, to, r)
      PROVE  /\ pc'[w] = "lookup" /\ Row(w)' = Row(w)
             /\ frame'[w].to = to /\ frame'[w].ret = r
  BY <1>0, <1>3 DEF Transit, Placed, Row
<1>4. pc[w] \in {"register", "iterate", "run", "check", "panicked"} => RowFits(w)
  BY DEF Rows, Holds
<1>5. CASE Register(w)
  <2>1. pc[w] = "register" /\ Transit(w, frame[w].task, "processing", "iterate")
    BY <1>5 DEF Register
  <2>. QED  BY <1>2, <1>3, <1>4, <2>1 DEF RowFits, Purpose
<1>6. CASE Recover(w)
  <2>1. pc[w] = "panicked" /\ Transit(w, frame[w].task, "error", "schedule")
    BY <1>6 DEF Recover
  <2>. QED  BY <1>2, <1>3, <1>4, <2>1 DEF RowFits, Purpose
<1>7. CASE CheckCanceled(w)
  <2>1. pc[w] = "check" /\ RowFits(w)
    BY <1>4, <1>7 DEF CheckCanceled
  <2>2. CASE Goto(w, "done")
    <3>1. pc'[w] = "done"
      BY <2>2 DEF Goto, Placed
    <3>. QED  BY <1>2, <3>1 DEF Holds, Writing
  <2>3. CASE /\ frame[w].to = "suspending"
             /\ Transit(w, frame[w].task, frame[w].to, "enqueue")
    BY <1>2, <1>3, <2>1, <2>3 DEF RowFits, Purpose
  <2>4. CASE /\ frame[w].to # "suspending"
             /\ Transit(w, frame[w].task, frame[w].to, "done")
    BY <1>2, <1>3, <2>1, <2>4 DEF RowFits, Purpose
  <2>. QED  BY <1>7, <2>2, <2>3, <2>4 DEF CheckCanceled
<1>8. CASE StartDo(w) \/ DoPanics(w)
  <2>1. /\ pc[w] \in {"iterate", "run"} /\ frame' = frame
        /\ pc'[w] = "run" \/ (pc'[w] = "panicked" /\ pc[w] = "run")
    BY <1>8 DEF StartDo, DoPanics, Goto, Resting, Placed
  <2>2. Row(w)' = "processing"
    BY <1>0, <1>4, <2>1 DEF RowFits, Row
  <2>. QED  BY <1>2, <2>1, <2>2 DEF RowFits, Active, Writing
<1>9. ASSUME NEW s \in Terminal \cup {"suspending"}, pc[w] = "run",
             frame' = [frame EXCEPT ![w].to = s], pc' = [pc EXCEPT ![w] = "check"]
      PROVE  Rows'
  <2>1. pc'[w] = "check" /\ frame'[w].to = s /\ frame'[w].task = frame[w].task
    BY <1>9 DEF Placed, Frame
  <2>2. Row(w)' = "processing"
    BY <1>0, <1>4, <1>9, <2>1 DEF RowFits, Row
  <2>. QED  BY <1>2, <2>1, <2>2 DEF RowFits, Active, Writing
<1>10. ASSUME NEW next \in Outcomes \ {"panic"}, NEW later \in BOOLEAN,
              DoReturns(w, next, later)
       PROVE  Rows'
  <2>1. next \in Terminal \cup {"suspending"}
    BY QueueAssumption DEF QueueAssumption, Terminal
  <2>. QED  BY <1>9, <1>10, <2>1 DEF DoReturns
<1>11. CASE ContextEnds(w)
  <2>1. PICK s \in {"canceled", "error"} : frame' = [frame EXCEPT ![w].to = s]
    BY <1>11 DEF ContextEnds
  <2>. QED  BY <1>9, <1>11, <2>1 DEF ContextEnds, Terminal
<1>12. CASE Done(w) \/ Reschedule(w) \/ Unregister(w)
  <2>1. pc'[w] \in {"schedule", "unregister", "drain", "idle"}
    BY <1>12 DEF Done, Reschedule, Unregister, Goto, Placed
  <2>. QED  BY <1>2, <2>1 DEF Holds, Writing
<1>13. CASE DoEndsLate(w)
  <2>1. CASE pc'[w] \in Resting
    BY <1>2, <2>1 DEF Holds, Writing, Resting
  <2>2. CASE pc'[w] = pc[w] /\ frame' = frame
    <3>1. Holds(w)' => Holds(w)
      BY <2>2 DEF Holds
    <3>2. RowFits(w) => RowFits(w)'
      BY <1>0, <2>2 DEF RowFits, Row, Known, Purpose
    <3>. QED  BY <1>2, <3>1, <3>2 DEF Rows
  <2>3. pc'[w] \in Resting \/ (pc'[w] = pc[w] /\ frame' = frame)
    BY <1>13 DEF DoEndsLate, Goto, Placed, Resting
  <2>. QED  BY <2>1, <2>2, <2>3
<1>. QED
  BY <1>5, <1>6, <1>7, <1>8, <1>10, <1>11, <1>12, <1>13 DEF WorkStep, DoStep

\* the steps of the start loop
LEMMA RowsLoop ==
  ASSUME Placed, Stored, OneClaim, Rows, Lined,
         \/ \E t \in Tasks : Resume(t)
         \/ LoopStep \/ Pop
         \/ \E w \in Workers : Dispatch(w)
  PROVE  Rows' /\ db' = db
<1>. USE AgentKinds
<1>0. db' = db
  BY DEF Resume, LoopStep, EnterLoop, LoopSchedule, LoopWait, Request, Pop,
         Dispatch, memory
<1>1. ASSUME NEW t \in Tasks, Resume(t)  PROVE Rows'
  <2>1. /\ Only({Starter}) /\ t \in toResume /\ status' = [status EXCEPT ![t] = db[t]]
        /\ pc'[Starter] = "enqueue" /\ frame'[Starter].task = t
    BY <1>1 DEF Resume, Only, Placed, NoFrame
  <2>2. \A b \in Agents : Holds(b) => frame[b].task # t
    BY <2>1 DEF OneClaim, Untouched, Claims
  <2>3. \A b \in Agents : Holds(b) => status'[frame[b].task] = status[frame[b].task]
    BY <2>1, <2>2 DEF Stored
  <2>4. Row(Starter)' \in Active /\ Known(Starter)' = Row(Starter)'
    BY <1>0, <2>1 DEF Row, Known, Lined, Stored
  <2>. QED  BY <1>0, <2>1, <2>3, <2>4, RowsKept DEF RowFits, Writing
<1>2. CASE LoopStep
  <2>1. /\ Only({Starter}) /\ status' = status
        /\ pc'[Starter] \in {"loop", "wait", "request", "idle", "locked"}
    BY <1>2 DEF LoopStep, EnterLoop, LoopSchedule, LoopWait, Request, Goto, Only,
                Placed, memory
  <2>2. ~Holds(Starter)'
    BY <2>1 DEF Holds, Writing
  <2>. QED  BY <1>0, <2>1, <2>2, RowsKept
<1>3. CASE Pop
  <2>1. Only({Starter}) /\ status' = status
    BY <1>3 DEF Pop, Goto, Only, Placed, memory
  <2>2. CASE pc'[Starter] = "request"
    BY <1>0, <2>1, <2>2, RowsKept DEF Holds, Writing
  <2>3. CASE pc'[Starter] = "dispatch" /\ frame'[Starter].task = Top
    <3>1. Top \in Tasks /\ Waiting(Top)
      BY <1>3 DEF Pop, Top, Waiting, Stored
    <3>. HIDE DEF Top
    <3>2. Row(Starter)' \in Active
      BY <1>0, <2>3, <3>1 DEF Row, Lined
    <3>. QED  BY <1>0, <2>1, <2>3, <3>2, RowsKept DEF RowFits, Writing
  <2>. QED  BY <1>3, <2>2, <2>3 DEF Pop, Goto, Placed, NoFrame
<1>4. ASSUME NEW w \in Workers, Dispatch(w)  PROVE Rows'
  <2>1. /\ Only({Starter, w}) /\ status' = status /\ pc[Starter] = "dispatch"
        /\ pc'[Starter] = "loop" /\ pc'[w] = "register"
        /\ frame'[w] = frame[Starter]
    BY <1>4 DEF Dispatch, Only, Placed, memory
  <2>2. RowFits(Starter)
    BY <2>1 DEF Rows, Holds
  <2>3. RowFits(w)'
    BY <1>0, <2>1, <2>2 DEF RowFits, Row, Writing
  <2>4. ~Holds(Starter)'
    BY <2>1 DEF Holds, Writing
  <2>. QED  BY <1>0, <2>1, <2>3, <2>4, RowsKept
<1>. QED  BY <1>0, <1>1, <1>2, <1>3, <1>4

LEMMA RowsSubmit ==
  ASSUME Placed, Stored, OneClaim, Rows, NEW c \in Callers, NEW t \in Tasks,
         Submit(c, t)
  PROVE  Rows'
<1>. USE AgentKinds
<1>1. /\ Only({c}) /\ db[t] = "new" /\ db' = [db EXCEPT ![t] = "queued"]
      /\ status' = [status EXCEPT ![t] = "queued"]
      /\ pc'[c] = "push" /\ frame'[c].task = t
  BY DEF Submit, Only, Placed
<1>2. \A b \in Agents : Holds(b) => frame[b].task # t
  BY <1>1 DEF OneClaim, Untouched, Claims
<1>3. \A b \in Agents : Holds(b) =>
        /\ db'[frame[b].task] = db[frame[b].task]
        /\ status'[frame[b].task] = status[frame[b].task]
  BY <1>1, <1>2 DEF Stored
<1>4. Row(c)' \in Active
  BY <1>1 DEF Row, Stored, Active
<1>. QED  BY <1>1, <1>3, <1>4, RowsKept DEF RowFits, Writing

LEMMA LinedKept ==
  ASSUME Lined, toResume' \subseteq toResume, \A t \in Tasks : Waiting(t)' => Waiting(t),
         \A t \in Tasks : Waiting(t) \/ t \in toResume => db'[t] = db[t]
  PROVE  Lined'
BY DEF Lined

LEMMA LinedTransit ==
  ASSUME Placed, Stored, OneClaim, Unasked, Rows, Lined,
         NEW a \in Agents, TransitStep(a)
  PROVE  Lined'
<1>1. frame[a].task \in Tasks
  BY TransitStepEffect DEF Placed, Tasked, PCs
<1>2. toResume' = toResume
  BY DEF TransitStep, Lookup, Assign, Exec, Enqueue, Push, SetRegistry
<1>3. CASE stack' = stack /\ db' = db
  BY <1>2, <1>3, LinedKept DEF Waiting
<1>4. CASE Exec(a) /\ db' # db
  <2>1. /\ db' = [db EXCEPT ![frame[a].task] = frame[a].to] /\ pc[a] = "exec"
        /\ stack' = stack
    BY <1>4 DEF Exec
  <2>2. Claims(a)
    BY <2>1 DEF Unasked, Claims, Holds, Writing
  <2>3. ~Waiting(frame[a].task) /\ frame[a].task \notin toResume
    BY <2>2 DEF OneClaim, Untouched
  <2>. QED  BY <1>1, <1>2, <2>1, <2>3, LinedKept DEF Waiting, Stored
<1>5. CASE Push(a) /\ stack' # stack
  <2>1. stack' = Append(stack, frame[a].task) /\ pc[a] = "push" /\ db' = db
    BY <1>5 DEF Push
  <2>2. db[frame[a].task] \in Active
    BY <2>1 DEF Rows, Holds, RowFits, Row
  <2>3. \A t \in Tasks : Waiting(t)' => Waiting(t) \/ t = frame[a].task
    BY <1>1, <2>1 DEF Waiting, Stored
  <2>. QED  BY <1>2, <2>1, <2>2, <2>3 DEF Lined
<1>6. \/ stack' = stack /\ db' = db
      \/ Exec(a) /\ db' # db
      \/ Push(a) /\ stack' # stack
  BY DEF TransitStep, Lookup, Assign, Exec, Enqueue, Push, SetRegistry
<1>. QED  BY <1>3, <1>4, <1>5, <1>6

LEMMA LinedLoop ==
  ASSUME Stored, Lined,
         \/ \E t \in Tasks : Resume(t)
         \/ LoopStep \/ Pop
         \/ \E w \in Workers : Dispatch(w)
  PROVE  Lined'
<1>1. db' = db /\ toResume' \subseteq toResume
  BY DEF Resume, LoopStep, EnterLoop, LoopSchedule, LoopWait, Request, Pop,
         Dispatch, memory
<1>2. CASE stack' = stack
  BY <1>1, <1>2, LinedKept DEF Waiting
<1>3. CASE stack # <<>> /\ stack' = SubSeq(stack, 1, Len(stack) - 1)
  <2>. stack \in Seq(Tasks) /\ DOMAIN stack = 1 .. Len(stack) /\ Len(stack) \in Nat \ {0}
    BY <1>3 DEF Stored
  <2>1. /\ DOMAIN stack' = 1 .. Len(stack) - 1
        /\ \A j \in 1 .. Len(stack) - 1 : stack'[j] = stack[j]
    BY <1>3
  <2>. QED  BY <1>1, <2>1, LinedKept DEF Waiting
<1>. QED  BY <1>2, <1>3 DEF Resume, LoopStep, EnterLoop, LoopSchedule, LoopWait,
                            Request, Pop, Dispatch, memory

LEMMA UndisturbedStep ==
  ASSUME Placed, Stored, OneClaim, LeftBehind, Undisturbed, [Next]_vars
  PROVE  Undisturbed'
<1>. USE AgentKinds
<1>. SUFFICES ASSUME calls' = 0  PROVE Unasked' /\ Rows' /\ Lined'
  BY DEF Undisturbed
<1>1. calls = 0 => Unasked
  BY DEF Undisturbed
<1>2. calls = 0 /\ Unasked /\ Rows /\ Lined
  BY <1>1, QuietStep DEF Undisturbed
<1>3. ASSUME NEW A \in SUBSET Agents, Only(A),
             \A a \in A : /\ pc'[a] \notin {"signal", "remove", "update"}
                          /\ pc'[a] \in Writing => frame'[a].ret \notin Outside
      PROVE  Unasked'
  BY <1>2, <1>3 DEF Unasked, Only
<1>4. ASSUME NEW a \in Agents, TransitStep(a)  PROVE Unasked' /\ Rows' /\ Lined'
  <2>1. Only({a}) /\ frame[a].ret \in Returns
    BY <1>4, TransitStepEffect DEF Placed, Frame
  <2>2. ASSUME /\ pc'[a] \in {"assign", "exec", "set", "push"}
               /\ frame'[a] = frame[a]
               /\ pc'[a] \in {"assign", "exec"} => pc[a] \in {"lookup", "assign"}
        PROVE  Unasked'
    BY <1>2, <1>3, <2>1, <2>2 DEF Unasked, Writing
  <2>3. ASSUME NEW ok \in BOOLEAN, Goto(a, Continue(a, ok))  PROVE Unasked'
    <3>1. pc'[a] = Continue(a, ok)
      BY <2>3, GotoEffect
    <3>. QED  BY <1>3, <2>1, <3>1, ContinuePlace, HomePlace DEF Writing
  <2>4. ASSUME Goto(a, Home(a))  PROVE Unasked'
    <3>1. pc'[a] = Home(a)
      BY <2>4, GotoEffect
    <3>. QED  BY <1>3, <2>1, <3>1, HomePlace DEF Writing
  <2>5. ASSUME /\ pc'[a] = "lookup"
               /\ frame'[a] = [task |-> frame[a].task, to |-> "queued", ret |-> "push"]
        PROVE  Unasked'
    BY <1>3, <2>1, <2>5 DEF Outside
  <2>6. Unasked'
    BY <1>4, <2>2, <2>3, <2>4, <2>5, TransitStepEffect
  <2>. QED  BY <1>2, <1>4, <2>6, RowsTransit, LinedTransit
<1>5. ASSUME NEW c \in Callers, NEW t \in Tasks, Submit(c, t)
      PROVE  Unasked' /\ Rows' /\ Lined'
  <2>1. Only({c}) /\ pc'[c] = "push"
    BY <1>5 DEF Submit, Only, Placed
  <2>2. Unasked'
    BY <1>3, <2>1 DEF Writing
  <2>3. db[t] = "new" /\ db' = [db EXCEPT ![t] = "queued"] /\ UNCHANGED <<stack, toResume>>
    BY <1>5 DEF Submit
  <2>4. \A u \in Tasks : Waiting(u) \/ u \in toResume => u # t
    BY <2>3 DEF OneClaim, Untouched
  <2>5. Lined'
    BY <1>2, <2>3, <2>4, LinedKept DEF Waiting, Stored
  <2>. QED  BY <1>2, <1>5, <2>2, <2>5, RowsSubmit
<1>6. ASSUME \/ \E t \in Tasks : Resume(t)
             \/ LoopStep \/ Pop
             \/ \E w \in Workers : Dispatch(w)
      PROVE  Unasked' /\ Rows' /\ Lined'
  <2>1. ASSUME (\E t \in Tasks : Resume(t)) \/ LoopStep \/ Pop
        PROVE  Unasked'
    <3>1. /\ Only({Starter})
          /\ pc'[Starter] \in {"enqueue", "loop", "wait", "request", "idle", "locked",
                               "dispatch"}
      BY <2>1 DEF Resume, LoopStep, EnterLoop, LoopSchedule, LoopWait, Request, Pop,
                  Goto, Only, Placed
    <3>. QED  BY <1>3, <3>1 DEF Writing
  <2>2. ASSUME NEW w \in Workers, Dispatch(w)  PROVE Unasked'
    <3>1. Only({Starter, w}) /\ pc'[Starter] = "loop" /\ pc'[w] = "register"
      BY <2>2 DEF Dispatch, Only, Placed
    <3>. QED  BY <1>3, <3>1 DEF Writing
  <2>. QED  BY <1>2, <1>6, <2>1, <2>2, RowsLoop, LinedLoop
<1>7. ASSUME NEW w \in Workers, WorkStep(w)  PROVE Unasked' /\ Rows' /\ Lined'
  <2>. w \in Agents
    OBVIOUS
  <2>1. Only({w})
    BY <1>7, WorkerOnly DEF WorkStep, WorkerStep
  <2>2. ASSUME NEW r \in {"iterate", "enqueue", "done", "schedule"},
               NEW to, Transit(w, frame[w].task, to, r)
        PROVE  Unasked'
    <3>1. pc'[w] = "lookup" /\ frame'[w].ret = r
      BY <2>2 DEF Transit, Placed
    <3>. QED  BY <1>3, <2>1, <3>1 DEF Outside
  <2>3. ASSUME pc'[w] \in {"done", "run", "schedule", "unregister", "drain", "idle",
                           "check", "panicked"}
        PROVE  Unasked'
    BY <1>3, <2>1, <2>3 DEF Writing
  <2>4. ASSUME pc'[w] = pc[w] /\ frame' = frame
        PROVE  Unasked'
    BY <1>2, <1>3, <2>1, <2>4 DEF Unasked
  <2>5. ASSUME Register(w) \/ Recover(w) \/ CheckCanceled(w)
        PROVE  Unasked'
    <3>1. \/ Goto(w, "done")
          \/ \E r \in {"iterate", "enqueue", "done", "schedule"}, to \in Status :
               Transit(w, frame[w].task, to, r)
      <4>1. frame[w].to \in Status /\ "processing" \in Status /\ "error" \in Status
        BY DEF Placed, Frame, Status, Active, Terminal
      <4>. QED  BY <2>5, <4>1 DEF Register, Recover, CheckCanceled
    <3>2. Goto(w, "done") => pc'[w] = "done"
      BY DEF Goto, Placed
    <3>. QED  BY <2>2, <2>3, <3>1, <3>2
  <2>6. ASSUME StartDo(w) \/ Done(w) \/ Reschedule(w) \/ Unregister(w) \/ DoStep(w)
        PROVE  Unasked'
    <3>1. pc'[w] \in {"done", "run", "schedule", "unregister", "drain", "idle",
                      "check", "panicked"}
      BY <2>6 DEF StartDo, Done, Reschedule, Unregister, DoStep, DoReturns, DoPanics,
                  ContextEnds, Goto, Placed
    <3>. QED  BY <2>3, <3>1
  <2>7. ASSUME DoEndsLate(w)
        PROVE  Unasked'
    <3>1. \/ pc'[w] = "idle"
          \/ pc'[w] = pc[w] /\ (pc[w] = "resume" \/ frame' = frame)
      BY <2>7 DEF DoEndsLate, Goto, Placed, Resting
    <3>2. pc'[w] = "resume" => Unasked'
      BY <1>3, <2>1 DEF Writing
    <3>. QED  BY <2>3, <2>4, <3>1, <3>2
  <2>8. Unasked'
    BY <1>7, <2>5, <2>6, <2>7 DEF WorkStep
  <2>9. Rows' /\ Lined'
    BY <1>2, <1>7, RowsWork, LinedKept DEF Waiting
  <2>. QED  BY <2>8, <2>9
<1>8. CASE Restart \/ NilTask
  <2>1. /\ \A a \in Agents : pc'[a] \in {"resume", "idle"}
        /\ stack' = <<>> /\ toResume' = Pending(db) /\ db' = db
    BY <1>8 DEF Restart, NilTask, Reboot
  <2>2. Unasked' /\ \A a \in Agents : ~Holds(a)'
    BY <2>1 DEF Unasked, Holds, Writing
  <2>3. Lined'
    BY <2>1 DEF Lined, Waiting, Pending
  <2>. QED  BY <2>2, <2>3 DEF Rows
<1>9. CASE UNCHANGED <<pc, frame, db, status, stack, toResume>>
  <2>1. \A a \in Agents : Holds(a)' => RowFits(a)'
    BY <1>2, <1>9 DEF Rows, Holds, RowFits, Row, Known, Purpose
  <2>. QED  BY <1>2, <1>9, <2>1, LinedKept DEF Unasked, Rows, Waiting
<1>. QED
  <2>1. (\E t \in Tasks : ResumeTimePasses(t)) \/ Shutdown \/ UNCHANGED vars
          => UNCHANGED <<pc, frame, db, status, stack, toResume>>
    BY DEF ResumeTimePasses, Shutdown, vars, memory
  <2>. QED  BY <1>1, <1>4, <1>5, <1>6, <1>7, <1>8, <1>9, <2>1, QuietStep

LEMMA GivenUpStep ==
  ASSUME Placed, Stored, LeftBehind, GivenUp, [Next]_vars
  PROVE  GivenUp'
<1>. USE AgentKinds
<1>. executing \subseteq Workers
  BY DEF Stored
<1>1. ASSUME NEW A \in SUBSET Agents, Only(A), executing' \subseteq executing \cup A,
             \A a \in A : a \in executing' /\ pc'[a] \in Writing \cup {"check"}
                            => frame'[a].to \in {"error", "canceled"}
      PROVE  GivenUp'
  BY <1>1 DEF GivenUp, Only
<1>2. ASSUME NEW a \in Agents, TransitStep(a)  PROVE GivenUp'
  <2>1. Only({a}) /\ executing' = executing
    BY <1>2, TransitStepEffect
       DEF TransitStep, Lookup, Assign, Exec, Enqueue, Push, SetRegistry
  <2>2. ASSUME a \in executing, pc'[a] \in Writing \cup {"check"}
        PROVE  frame'[a].to \in {"error", "canceled"}
    <3>1. pc[a] \in Writing /\ frame[a].ret = "done" /\ a \in Workers
      BY <1>2, <2>2, TransitStepEffect DEF LeftBehind, Leftover, Writing
    <3>2. \A ok \in BOOLEAN : Goto(a, Continue(a, ok)) => pc'[a] = "done"
      BY <3>1, GotoEffect, ContinueCases, HomePlace
    <3>3. frame'[a] = frame[a]
      BY <1>2, <2>2, <3>1, <3>2, TransitStepEffect DEF Writing
    <3>. QED  BY <2>2, <3>1, <3>3 DEF GivenUp
  <2>. QED  BY <1>1, <2>1, <2>2
<1>3. ASSUME NEW A \in SUBSET Agents, A \cap executing = {}, Only(A),
             executing' = executing
      PROVE  GivenUp'
  BY <1>1, <1>3
<1>4. ASSUME NEW c \in Callers,
             \/ Signal(c) \/ Remove(c) \/ ReadStatus(c)
             \/ \E t \in Tasks : Submit(c, t) \/ Cancel(c, t) \/ Update(c, t)
      PROVE  GivenUp'
  <2>1. Only({c}) /\ executing' = executing
    BY <1>4, ReadStatusEffect DEF Signal, Remove, Submit, Cancel, Update, Goto, Transit, Only, Placed
  <2>. QED  BY <1>3, <2>1
<1>5. CASE \/ \E t \in Tasks : Resume(t)
           \/ EnterLoop \/ LoopSchedule \/ LoopWait \/ Request \/ Pop
  <2>1. Only({Starter}) /\ executing' = executing
    BY <1>5 DEF Resume, EnterLoop, LoopSchedule, LoopWait, Request, Pop, Goto,
                Only, Placed
  <2>. QED  BY <1>3, <2>1
<1>6. ASSUME NEW w \in Workers, Dispatch(w)  PROVE GivenUp'
  <2>1. Only({Starter, w}) /\ executing' = executing /\ pc[w] = "idle"
    BY <1>6 DEF Dispatch, Only, Placed
  <2>2. w \notin executing
    BY <2>1 DEF LeftBehind, Leftover, Writing
  <2>. QED  BY <1>3, <2>1, <2>2
<1>7. ASSUME NEW w \in Workers, WorkStep(w)  PROVE GivenUp'
  <2>. w \in Agents
    OBVIOUS
  <2>1. Only({w})
    BY <1>7, WorkerOnly DEF WorkStep, WorkerStep
  <2>2. CASE Register(w) \/ Recover(w)
    <3>1. pc[w] \in {"register", "panicked"} /\ executing' = executing
      BY <2>2 DEF Register, Recover
    <3>2. w \notin executing
      BY <3>1 DEF LeftBehind, Leftover, Writing
    <3>. QED  BY <1>3, <2>1, <3>1, <3>2
  <2>3. CASE CheckCanceled(w)
    <3>1. executing' = executing /\ pc[w] = "check"
      BY <2>3 DEF CheckCanceled
    <3>2. pc'[w] = "done" \/ frame'[w].to = frame[w].to
      BY <2>3 DEF CheckCanceled, Goto, Transit, Placed
    <3>. QED  BY <1>1, <2>1, <3>1, <3>2 DEF GivenUp, Writing
  <2>4. CASE StartDo(w) \/ Done(w) \/ Reschedule(w) \/ Unregister(w)
    <3>1. /\ executing' \subseteq executing \cup {w}
          /\ pc'[w] \in {"run", "schedule", "unregister", "drain", "idle"}
      BY <2>4 DEF StartDo, Done, Reschedule, Unregister, Goto, Placed
    <3>. QED  BY <1>1, <2>1, <3>1 DEF Writing
  <2>5. CASE \/ DoEndsLate(w) \/ DoPanics(w)
             \/ \E next \in Outcomes \ {"panic"}, later \in BOOLEAN :
                   DoReturns(w, next, later)
    <3>1. executing' = executing \ {w}
      BY <2>5 DEF DoEndsLate, DoPanics, DoReturns
    <3>. QED  BY <1>1, <2>1, <3>1
  <2>6. CASE ContextEnds(w)
    <3>1. executing' = executing /\ frame'[w].to \in {"error", "canceled"}
      BY <2>6 DEF ContextEnds, Placed, Frame
    <3>. QED  BY <1>1, <2>1, <3>1
  <2>. QED  BY <1>7, <2>2, <2>3, <2>4, <2>5, <2>6 DEF WorkStep, DoStep
<1>8. CASE Restart \/ NilTask
  BY <1>8 DEF Restart, NilTask, Reboot, GivenUp
<1>9. CASE UNCHANGED <<pc, frame, executing>>
  BY <1>9 DEF GivenUp
<1>. QED
  BY <1>2, <1>4, <1>5, <1>6, <1>7, <1>8, <1>9
     DEF Next, HandlerStep, StarterStep, WorkerStep, WorkStep, ResumeTimePasses,
         Shutdown, vars

(***************************************************************************)
(* The steps of the lifecycle.                                             *)
(***************************************************************************)
Running == {frame[w].task : w \in executing}

LEMMA RunningKept ==
  ASSUME executing' = executing, \A w \in executing : frame'[w].task = frame[w].task
  PROVE  Running' = Running
BY DEF Running

\* the Do of w is the only one of its task
LEMMA RunningEnds ==
  ASSUME OneClaim, executing \subseteq Agents, NEW w \in executing,
         executing' = executing \ {w},
         \A v \in executing \ {w} : frame'[v].task = frame[v].task
  PROVE  Running' = Running \ {frame[w].task} /\ frame[w].task \in Running
<1>1. \A v \in executing : frame[v].task = frame[w].task => v = w
  BY DEF OneClaim, Claims
<1>. QED  BY <1>1 DEF Running

LEMMA LifecycleTransit ==
  ASSUME Placed, Stored, OneClaim, LeftBehind, GivenUp, Unasked, Rows,
         NEW a \in Agents, TransitStep(a)
  PROVE  [Lifecycle!Next]_(Lifecycle!vars)
<1>. USE AgentKinds
<1>. executing \subseteq Workers
  BY DEF Stored
<1>1. /\ Only({a}) /\ frame[a].task \in Tasks /\ executing' = executing
  BY TransitStepEffect
     DEF Placed, Tasked, PCs, TransitStep, Lookup, Assign, Exec, Enqueue, Push,
         SetRegistry
<1>2. Running' = Running
  <2>1. ASSUME a \in executing  PROVE frame'[a].task = frame[a].task
    <3>1. pc[a] \in Writing /\ frame[a].ret = "done" /\ a \in Workers
      BY <2>1, TransitStepEffect DEF LeftBehind, Leftover, Writing
    <3>2. \A ok \in BOOLEAN : Goto(a, Continue(a, ok)) => frame' = frame
      <4>1. \A ok \in BOOLEAN : Continue(a, ok) = "done"
        BY <3>1, ContinueCases, HomePlace
      <4>. QED  BY <4>1, GotoEffect DEF Resting
    <3>. QED  BY <3>1, <3>2, TransitStepEffect DEF Writing
  <2>. QED  BY <1>1, <2>1, RunningKept DEF Only
<1>3. CASE db' = db
  BY <1>2, <1>3 DEF Lifecycle!vars, Running
<1>4. CASE Exec(a) /\ db' # db
  <2>. DEFINE t == frame[a].task
              s == frame[a].to
  <2>1. pc[a] = "exec" /\ db' = [db EXCEPT ![t] = s]
    BY <1>4 DEF Exec
  <2>2. Row(a) \in Active /\ Purpose(a) /\ Holds(a)
    BY <2>1 DEF Unasked, Rows, RowFits, Holds, Writing
  <2>3. Lifecycle!Write(t, s)
    BY <1>2, <2>1 DEF Lifecycle!Write, Running
  <2>4. ASSUME t \in Running
        PROVE  s \in {"error", "canceled"}
    <3>1. PICK w \in executing : frame[w].task = t
      BY <2>4 DEF Running
    <3>2. w = a
      BY <2>2, <3>1 DEF OneClaim, Claims
    <3>. QED  BY <2>1, <3>1, <3>2 DEF GivenUp, Writing
  <2>5. db[t] = Row(a) /\ db[t] # s
    BY <1>4, <2>1 DEF Row, Stored
  <2>. HIDE DEF t, s
  <2>6. CASE s = "processing"
    <3>1. db[t] \in {"queued", "suspending"}
      BY <2>2, <2>5, <2>6 DEF Active
    <3>. QED  BY <1>1, <2>3, <2>6, <3>1 DEF Lifecycle!Next, Lifecycle!Begin, t
  <2>7. CASE s \in {"suspending", "completed"}
    <3>1. db[t] = "processing" /\ t \notin Running
      BY <2>2, <2>4, <2>5, <2>7 DEF Purpose, Terminal, s
    <3>. QED  BY <1>1, <2>3, <2>7, <3>1
              DEF Lifecycle!Next, Lifecycle!Settle, Running, t
  <2>8. CASE s \in {"error", "canceled"}
    BY <1>1, <2>2, <2>3, <2>5, <2>8
       DEF Lifecycle!Next, Lifecycle!Abandon, Active, t
  <2>9. CASE s = "queued"
    <3>1. db[t] = "processing" /\ t \notin Running
      BY <2>2, <2>4, <2>5, <2>9 DEF Purpose, Terminal, s
    <3>. QED  BY <1>1, <2>3, <2>9, <3>1
              DEF Lifecycle!Next, Lifecycle!Requeue, Running, t
  <2>. QED  BY <2>2, <2>6, <2>7, <2>8, <2>9 DEF Purpose, Terminal, s
<1>5. db' = db \/ Exec(a)
  BY DEF TransitStep, Lookup, Assign, Enqueue, Push, SetRegistry
<1>. QED  BY <1>3, <1>4, <1>5

LEMMA LifecycleStep ==
  ASSUME Placed, Stored, OneClaim, LeftBehind, GivenUp, Undisturbed,
         [Next]_vars, calls' = 0
  PROVE  [Lifecycle!Next]_(Lifecycle!vars)
<1>. USE AgentKinds
<1>. executing \subseteq Workers
  BY DEF Stored
<1>1. calls = 0 => Unasked
  BY DEF Undisturbed
<1>2. calls = 0 /\ Unasked /\ Rows /\ Lined
  BY <1>1, QuietStep DEF Undisturbed
<1>3. ASSUME db' = db, Running' = Running
      PROVE  [Lifecycle!Next]_(Lifecycle!vars)
  BY <1>3 DEF Lifecycle!vars, Running
<1>4. ASSUME NEW a \in Agents, TransitStep(a)
      PROVE  [Lifecycle!Next]_(Lifecycle!vars)
  BY <1>2, <1>4, LifecycleTransit
<1>5. ASSUME NEW c \in Callers, NEW t \in Tasks, Submit(c, t)
      PROVE  [Lifecycle!Next]_(Lifecycle!vars)
  <2>1. /\ Only({c}) /\ db[t] = "new" /\ db' = [db EXCEPT ![t] = "queued"]
        /\ executing' = executing
    BY <1>5 DEF Submit, Only, Placed
  <2>2. Running' = Running
    BY <2>1, RunningKept DEF Only
  <2>. QED  BY <2>1, <2>2 DEF Lifecycle!Next, Lifecycle!Accept, Lifecycle!Write,
                              Running
<1>6. ASSUME (\E t \in Tasks : Resume(t)) \/ LoopStep \/ Pop
      PROVE  [Lifecycle!Next]_(Lifecycle!vars)
  <2>1. Only({Starter}) /\ executing' = executing /\ db' = db
    BY <1>6 DEF Resume, LoopStep, EnterLoop, LoopSchedule, LoopWait, Request, Pop,
                Goto, Only, Placed, memory
  <2>. QED  BY <1>3, <2>1, RunningKept DEF Only
<1>7. ASSUME NEW w \in Workers, Dispatch(w)
      PROVE  [Lifecycle!Next]_(Lifecycle!vars)
  <2>1. Only({Starter, w}) /\ executing' = executing /\ db' = db /\ pc[w] = "idle"
    BY <1>7 DEF Dispatch, Only, Placed
  <2>2. w \notin executing
    BY <2>1 DEF LeftBehind, Leftover, Writing
  <2>. QED  BY <1>3, <2>1, <2>2, RunningKept DEF Only
<1>8. ASSUME NEW w \in Workers, WorkStep(w)
      PROVE  [Lifecycle!Next]_(Lifecycle!vars)
  <2>. w \in Agents
    OBVIOUS
  <2>1. Only({w}) /\ db' = db
    BY <1>2, <1>8, WorkerOnly, RowsWork DEF WorkStep, WorkerStep
  <2>2. ASSUME w \in executing, executing' = executing \ {w}
        PROVE  [Lifecycle!Next]_(Lifecycle!vars)
    <3>1. Running' = Running \ {frame[w].task} /\ frame[w].task \in Running
      BY <2>1, <2>2, RunningEnds DEF Only
    <3>2. frame[w].task \in Tasks
      BY <2>2 DEF Placed, LeftBehind, Leftover, Tasked, Writing, PCs
    <3>. QED  BY <2>1, <3>1, <3>2 DEF Lifecycle!Next, Lifecycle!Return, Running
  <2>3. CASE StartDo(w)
    <3>1. /\ pc[w] = "iterate" /\ executing' = executing \cup {w} /\ frame' = frame
      BY <2>3 DEF StartDo, Goto, Resting
    <3>2. Holds(w) /\ frame[w].task \in Tasks /\ w \notin executing
      BY <3>1 DEF Holds, Placed, Tasked, PCs, LeftBehind, Leftover, Writing
    <3>3. db[frame[w].task] = "processing"
      BY <1>2, <3>1, <3>2 DEF Rows, RowFits, Row
    <3>4. frame[w].task \notin Running
      BY <3>2 DEF Running, OneClaim, Claims
    <3>5. Running' = Running \cup {frame[w].task}
      BY <3>1 DEF Running
    <3>. QED  BY <2>1, <3>2, <3>3, <3>4, <3>5
              DEF Lifecycle!Next, Lifecycle!Run, Running
  <2>4. CASE Register(w) \/ CheckCanceled(w) \/ Recover(w)
    <3>1. executing' = executing /\ frame'[w].task = frame[w].task
      BY <2>4 DEF Register, CheckCanceled, Recover, Transit, Goto, Resting, Placed
    <3>. QED  BY <1>3, <2>1, <3>1, RunningKept DEF Only
  <2>5. CASE Done(w) \/ Reschedule(w) \/ Unregister(w)
    <3>1. executing' = executing /\ (w \in executing => frame' = frame)
      BY <2>5 DEF Done, Reschedule, Unregister, Goto, Resting
    <3>. QED  BY <1>3, <2>1, <3>1, RunningKept DEF Only
  <2>6. CASE ContextEnds(w)
    <3>1. executing' = executing /\ frame'[w].task = frame[w].task
      BY <2>6 DEF ContextEnds, Placed, Frame
    <3>. QED  BY <1>3, <2>1, <3>1, RunningKept DEF Only
  <2>7. CASE \/ DoEndsLate(w) \/ DoPanics(w)
             \/ \E next \in Outcomes \ {"panic"}, later \in BOOLEAN :
                   DoReturns(w, next, later)
    BY <2>2, <2>7 DEF DoEndsLate, DoPanics, DoReturns
  <2>. QED  BY <1>8, <2>3, <2>4, <2>5, <2>6, <2>7 DEF WorkStep, DoStep
<1>9. CASE Restart \/ NilTask
  <2>1. db' = db /\ Running' = {}
    BY <1>9 DEF Restart, NilTask, Reboot, Running
  <2>. QED  BY <2>1 DEF Lifecycle!Next, Lifecycle!Lose, Running
<1>10. CASE UNCHANGED <<db, frame, executing>>
  BY <1>3, <1>10, RunningKept
<1>. QED
  <2>1. (\E t \in Tasks : ResumeTimePasses(t)) \/ Shutdown \/ UNCHANGED vars
          => UNCHANGED <<db, frame, executing>>
    BY DEF ResumeTimePasses, Shutdown, vars
  <2>. QED  BY <1>1, <1>4, <1>5, <1>6, <1>7, <1>8, <1>9, <1>10, <2>1, QuietStep

LEMMA QuietInvariant == Spec => [](QueueInv /\ Exclusive /\ Undisturbed /\ GivenUp)
<1>1. Init => Undisturbed /\ GivenUp
  <2>. SUFFICES ASSUME Init  PROVE Undisturbed /\ GivenUp
    OBVIOUS
  <2>1. \A a \in Agents : pc[a] \in {"idle", "resume"} /\ ~Holds(a)
    BY DEF Init, Holds, Writing
  <2>. QED  BY <2>1 DEF Init, Undisturbed, Unasked, Rows, Lined, GivenUp, Waiting,
                        Writing
<1>2. QueueInv /\ Exclusive /\ Undisturbed /\ GivenUp /\ [Next]_vars
        => Undisturbed' /\ GivenUp'
  BY UndisturbedStep, GivenUpStep DEF QueueInv, Exclusive
<1>. QED  BY <1>1, <1>2, ExclusiveInvariant, PTL DEF Spec

(***************************************************************************)
(* No task is forgotten.                                                   *)
(***************************************************************************)
Attended(t) ==
  \/ Waiting(t) \/ t \in toResume
  \/ \E a \in Agents : Holds(a) /\ frame[a].task = t

Cared == \A t \in Tasks : db[t] \in Active => Attended(t)

\* the object in memory and the row agree, except between their two writes
InStep ==
  /\ \A a \in Agents : Holds(a) /\ pc[a] # "exec" => Known(a) = Row(a)
  /\ \A t \in Tasks : Waiting(t) => status[t] = db[t]

Unsignalled == activeCanceled = {} /\ dead = {}

Steady ==
  /\ calls = 0 => Unsignalled
  /\ calls = 0 /\ faults = 0 /\ ~stopped => InStep /\ Cared

LEMMA CaredKept ==
  ASSUME Cared, NEW A \in SUBSET Agents, Only(A),
         \A t \in Tasks : db'[t] \in Active => db[t] \in Active \/ Attended(t)',
         \A t \in Tasks : Waiting(t) \/ t \in toResume => Attended(t)',
         \A a \in A, t \in Tasks :
           Holds(a) /\ frame[a].task = t /\ db'[t] \in Active => Attended(t)'
  PROVE  Cared'
<1>. SUFFICES ASSUME NEW t \in Tasks, db'[t] \in Active, ~Attended(t)'
              PROVE  FALSE
  BY DEF Cared
<1>1. PICK a \in Agents : Holds(a) /\ frame[a].task = t
  BY DEF Cared, Attended
<1>2. a \notin A
  BY <1>1
<1>3. Holds(a)' /\ frame'[a].task = t
  BY <1>1, <1>2 DEF Only, Holds
<1>. QED  BY <1>3 DEF Attended

LEMMA InStepKept ==
  ASSUME InStep, NEW A \in SUBSET Agents, Only(A),
         \A b \in Agents \ A : Holds(b) =>
           /\ db'[frame[b].task] = db[frame[b].task]
           /\ status'[frame[b].task] = status[frame[b].task],
         \A a \in A : Holds(a)' /\ pc'[a] # "exec" => Known(a)' = Row(a)',
         \A t \in Tasks : Waiting(t)' =>
           \/ Waiting(t) /\ db'[t] = db[t] /\ status'[t] = status[t]
           \/ status'[t] = db'[t]
  PROVE  InStep'
<1>1. ASSUME NEW b \in Agents \ A, Holds(b)', pc'[b] # "exec"
      PROVE  Known(b)' = Row(b)'
  <2>1. pc'[b] = pc[b] /\ frame'[b] = frame[b]
    BY DEF Only
  <2>2. Holds(b)
    BY <1>1, <2>1 DEF Holds
  <2>. QED  BY <1>1, <2>1, <2>2 DEF InStep, Row, Known
<1>. QED  BY <1>1 DEF InStep

\* a transition that is called for is in the table
LEMMA Legal ==
  ASSUME NEW a \in Agents, RowFits(a), pc[a] \in Writing, Known(a) = Row(a)
  PROVE  <<status[frame[a].task], frame[a].to>> \in Transitions
BY DEF RowFits, Purpose, Known, Row, Transitions, Active, Terminal, Status

LEMMA SteadyTransit ==
  ASSUME Placed, Stored, OneClaim, Unasked, Rows, Lined, Unsignalled, InStep,
         Cared, ~stopped, faults' = 0, NEW a \in Agents, TransitStep(a)
  PROVE  InStep' /\ Cared'
<1>1. /\ Only({a}) /\ frame[a].task \in Tasks /\ toResume' = toResume
      /\ pc[a] \in {"lookup", "assign", "exec", "enqueue", "push", "set"}
  BY TransitStepEffect
     DEF Placed, Tasked, PCs, TransitStep, Lookup, Assign, Exec, Enqueue, Push,
         SetRegistry
<1>2. pc[a] \in Writing \cup {"enqueue", "push"} => Holds(a) /\ RowFits(a)
  BY DEF Holds, Unasked, Rows
<1>3. Holds(a) => ~Waiting(frame[a].task) /\ frame[a].task \notin toResume
  BY <1>1 DEF OneClaim, Untouched, Claims
<1>4. ASSUME UNCHANGED <<db, status, stack>>, Holds(a)',
             Holds(a), Known(a) = Row(a), frame'[a].task = frame[a].task
      PROVE  InStep' /\ Cared'
  <2>1. \A t : Waiting(t)' <=> Waiting(t)
    BY <1>4 DEF Waiting
  <2>2. Known(a)' = Row(a)'
    BY <1>4 DEF Known, Row
  <2>3. InStep'
    BY <1>1, <1>4, <2>1, <2>2, InStepKept
  <2>4. \A t \in Tasks : t = frame[a].task => Attended(t)'
    BY <1>4 DEF Attended
  <2>5. \A t \in Tasks : Waiting(t) \/ t \in toResume => Attended(t)'
    BY <1>1, <2>1 DEF Attended
  <2>. QED  BY <1>1, <1>4, <2>3, <2>4, <2>5, CaredKept
<1>5. CASE Lookup(a)
  <2>1. /\ pc[a] = "lookup" /\ UNCHANGED <<db, status, stack>>
        /\ Holds(a) /\ RowFits(a) /\ Known(a) = Row(a)
    BY <1>2, <1>5 DEF Lookup, Writing, InStep
  <2>2. <<status[frame[a].task], frame[a].to>> \in Transitions
    BY <2>1, Legal DEF Writing
  <2>3. CASE Goto(a, Continue(a, TRUE)) /\ frame[a].to = "queued"
    <3>1. frame[a].ret = "push"
      BY <2>1, <2>3 DEF RowFits, Purpose, Writing, Terminal
    <3>2. Continue(a, TRUE) = "push"
      BY <3>1 DEF Continue
    <3>3. pc'[a] = "push" /\ frame' = frame
      BY <2>3, <3>2 DEF Goto, Resting, Placed
    <3>. QED  BY <1>4, <2>1, <3>3 DEF Holds
  <2>4. CASE Goto(a, "assign")
    <3>1. pc'[a] = "assign" /\ frame' = frame
      BY <2>4 DEF Goto, Resting, Placed
    <3>2. Holds(a)'
      BY <2>1, <3>1 DEF Holds, Writing
    <3>. QED  BY <1>4, <2>1, <3>1, <3>2
  <2>. QED  BY <1>5, <2>2, <2>3, <2>4 DEF Lookup
<1>7. CASE Assign(a)
  <2>1. /\ pc[a] = "assign" /\ UNCHANGED <<db, stack>>
        /\ status' = [status EXCEPT ![frame[a].task] = frame[a].to]
        /\ pc'[a] = "exec" /\ frame' = frame
    BY <1>7 DEF Assign, Goto, Resting, Placed
  <2>2. Holds(a)
    BY <1>2, <2>1 DEF Writing
  <2>3. Holds(a)'
    BY <2>1, <2>2 DEF Holds, Writing
  <2>4. \A t : Waiting(t)' <=> Waiting(t)
    BY <2>1 DEF Waiting
  <2>5. \A b \in Agents \ {a} : Holds(b) =>
          status'[frame[b].task] = status[frame[b].task]
    BY <2>1, <2>2, OwnTask DEF Stored
  <2>6. \A t \in Tasks : Waiting(t) => status'[t] = status[t]
    BY <1>3, <2>1, <2>2 DEF Stored
  <2>7. InStep'
    BY <1>1, <2>1, <2>4, <2>5, <2>6, InStepKept
  <2>8. \A t \in Tasks : Waiting(t) \/ t \in toResume => Attended(t)'
    BY <1>1, <2>4 DEF Attended
  <2>9. \A t \in Tasks : t = frame[a].task => Attended(t)'
    BY <2>1, <2>3 DEF Attended
  <2>. QED  BY <1>1, <2>1, <2>7, <2>8, <2>9, CaredKept
<1>8. CASE Exec(a)
  <2>1. ~ContextDone(a) /\ faults' # faults + 1
    BY DEF ContextDone, Unsignalled, Stored
  <2>2. /\ pc[a] = "exec" /\ UNCHANGED <<status, stack>>
        /\ db' = [db EXCEPT ![frame[a].task] = frame[a].to]
        /\ Goto(a, Continue(a, TRUE))
    BY <1>8, <2>1 DEF Exec, memory
  <2>3. Holds(a) /\ RowFits(a)
    BY <1>2, <2>2 DEF Writing
  <2>4. \A t : Waiting(t)' <=> Waiting(t)
    BY <2>2 DEF Waiting
  <2>5. \A b \in Agents \ {a} : Holds(b) => db'[frame[b].task] = db[frame[b].task]
    BY <2>2, <2>3, OwnTask DEF Stored
  <2>6. \A t \in Tasks : Waiting(t) => db'[t] = db[t]
    BY <1>3, <2>2, <2>3 DEF Stored
  <2>7. /\ db'[frame[a].task] = frame[a].to /\ status'[frame[a].task] = frame[a].to
        /\ db[frame[a].task] \in Active
        /\ \A t \in Tasks \ {frame[a].task} : db'[t] = db[t]
    BY <1>1, <2>2, <2>3 DEF Stored, RowFits, Known, Row
  <2>8. \/ Holds(a)' /\ frame' = frame
        \/ frame[a].to \notin Active /\ ~Holds(a)'
    <3>1. pc'[a] = Continue(a, TRUE)
      BY <2>2, GotoEffect
    <3>2. CASE frame[a].ret \in {"done", "schedule"}
      <4>1. Continue(a, TRUE) \in {"schedule", Home(a)}
        BY <3>2 DEF Continue
      <4>2. ~Holds(a)'
        BY <3>1, <4>1, HomeFree DEF Holds, Writing
      <4>3. frame[a].to \notin Active
        BY <2>2, <2>3, <3>2 DEF RowFits, Purpose, Writing, Terminal, Active
      <4>. QED  BY <4>2, <4>3
    <3>3. CASE frame[a].ret \in {"iterate", "enqueue", "push"}
      <4>1. Continue(a, TRUE) = frame[a].ret
        BY <3>3 DEF Continue
      <4>2. frame' = frame
        BY <2>2, <3>3, <4>1, GotoEffect DEF Resting
      <4>. QED  BY <3>1, <3>3, <4>1, <4>2 DEF Holds
    <3>. QED  BY <2>2, <2>3, <3>2, <3>3 DEF RowFits, Purpose, Writing
  <2>9. Holds(a)' => Known(a)' = Row(a)'
    BY <2>7, <2>8 DEF Known, Row
  <2>10. InStep'
    BY <1>1, <2>2, <2>4, <2>5, <2>6, <2>9, InStepKept
  <2>11. \A t \in Tasks : Waiting(t) \/ t \in toResume => Attended(t)'
    BY <1>1, <2>4 DEF Attended
  <2>12. \A t \in Tasks :
           t = frame[a].task /\ db'[t] \in Active => Attended(t)'
    BY <2>7, <2>8 DEF Attended
  <2>13. \A t \in Tasks : db'[t] \in Active => db[t] \in Active
    BY <2>7
  <2>. QED  BY <1>1, <2>10, <2>11, <2>12, <2>13, CaredKept
<1>9. CASE Enqueue(a)
  <2>1. /\ pc[a] = "enqueue" /\ UNCHANGED <<db, status, stack>> /\ Holds(a)
        /\ Known(a) = Row(a)
    BY <1>2, <1>9 DEF Enqueue, memory, InStep
  <2>2. Holds(a)' /\ frame'[a].task = frame[a].task
    <3>1. CASE Goto(a, "push")
      BY <3>1 DEF Goto, Resting, Placed, Holds
    <3>2. CASE Transit(a, frame[a].task, "queued", "push")
      <4>1. pc'[a] = "lookup" /\ frame'[a].task = frame[a].task /\ frame'[a].ret = "push"
        BY <3>2 DEF Transit, Placed
      <4>. QED  BY <4>1 DEF Holds, Writing, Outside
    <3>. QED  BY <1>9, <3>1, <3>2 DEF Enqueue
  <2>. QED  BY <1>4, <2>1, <2>2
<1>10. CASE Push(a)
  <2>1. /\ pc[a] = "push" /\ UNCHANGED <<db, status>>
        /\ stack' = Append(stack, frame[a].task)
        /\ Holds(a) /\ Known(a) = Row(a) /\ Goto(a, "set")
    BY <1>2, <1>10 DEF Push, memory, InStep
  <2>2. ~Holds(a)'
    BY <2>1 DEF Goto, Placed, Holds, Writing
  <2>3. \A t : Waiting(t)' <=> Waiting(t) \/ t = frame[a].task
    <3>. stack \in Seq(Tasks) /\ DOMAIN stack = 1 .. Len(stack) /\ Len(stack) \in Nat
      BY DEF Stored
    <3>1. /\ DOMAIN stack' = 1 .. Len(stack) + 1 /\ stack'[Len(stack) + 1] = frame[a].task
          /\ \A i \in 1 .. Len(stack) : stack'[i] = stack[i]
      BY <1>1, <2>1
    <3>. QED  BY <3>1 DEF Waiting
  <2>4. InStep'
    BY <1>1, <2>1, <2>2, <2>3, InStepKept DEF Known, Row, InStep
  <2>5. \A t \in Tasks : Waiting(t) \/ t \in toResume => Attended(t)'
    BY <1>1, <2>3 DEF Attended
  <2>6. \A t \in Tasks : t = frame[a].task => Attended(t)'
    BY <2>3 DEF Attended
  <2>. QED  BY <1>1, <2>1, <2>4, <2>5, <2>6, CaredKept
<1>11. CASE SetRegistry(a)
  <2>1. /\ pc[a] = "set" /\ UNCHANGED <<db, status, stack>> /\ pc'[a] = Home(a)
    BY <1>11, GotoEffect DEF SetRegistry
  <2>2. ~Holds(a) /\ ~Holds(a)'
    BY <2>1, HomeFree DEF Holds, Writing
  <2>3. \A t : Waiting(t)' <=> Waiting(t)
    BY <2>1 DEF Waiting
  <2>4. \A t \in Tasks : Waiting(t) \/ t \in toResume => Attended(t)'
    BY <1>1, <2>3 DEF Attended
  <2>. QED  BY <1>1, <2>1, <2>2, <2>3, <2>4, InStepKept, CaredKept
<1>. QED  BY <1>5, <1>7, <1>8, <1>9, <1>10, <1>11 DEF TransitStep

LEMMA SteadyWork ==
  ASSUME Placed, Stored, OneClaim, LeftBehind, Unasked, Rows, Lined, Unsignalled,
         InStep, Cared, NEW w \in Workers, WorkStep(w)
  PROVE  InStep' /\ Cared'
<1>. USE AgentKinds
<1>0. UNCHANGED <<db, status, stack, toResume>>
  BY RowsWork
<1>. w \in Agents
  OBVIOUS
<1>1. Only({w})
  BY WorkerOnly DEF WorkStep, WorkerStep
<1>2. ASSUME Holds(w) <=> Holds(w)',
             Holds(w) => pc[w] # "exec" /\ frame'[w].task = frame[w].task
      PROVE  InStep' /\ Cared'
  <2>1. \A t : Waiting(t)' <=> Waiting(t)
    BY <1>0 DEF Waiting
  <2>2. Holds(w)' => Known(w)' = Row(w)'
    BY <1>0, <1>2 DEF InStep, Known, Row
  <2>3. InStep'
    BY <1>0, <1>1, <2>1, <2>2, InStepKept
  <2>4. \A t \in Tasks : Waiting(t) \/ t \in toResume => Attended(t)'
    BY <1>0, <2>1 DEF Attended
  <2>5. \A t \in Tasks : Holds(w) /\ frame[w].task = t => Attended(t)'
    BY <1>2 DEF Attended
  <2>. QED  BY <1>0, <1>1, <2>3, <2>4, <2>5, CaredKept
<1>3. ASSUME NEW to, NEW r \in {"iterate", "enqueue", "done", "schedule"},
             Transit(w, frame[w].task, to, r)
      PROVE  Holds(w)' /\ frame'[w].task = frame[w].task
  <2>1. pc'[w] = "lookup" /\ frame'[w].task = frame[w].task /\ frame'[w].ret = r
    BY <1>3 DEF Transit, Placed
  <2>. QED  BY <2>1 DEF Holds, Writing, Outside
<1>4. CASE Register(w) \/ Recover(w)
  <2>1. Holds(w) /\ pc[w] # "exec"
    BY <1>4 DEF Register, Recover, Holds
  <2>2. Holds(w)' /\ frame'[w].task = frame[w].task
    BY <1>3, <1>4 DEF Register, Recover
  <2>. QED  BY <1>2, <2>1, <2>2
<1>5. CASE CheckCanceled(w)
  <2>1. pc[w] = "check" /\ Holds(w)
    BY <1>5 DEF CheckCanceled, Holds
  <2>2. status[frame[w].task] = "processing" /\ activeCanceled = {}
    BY <2>1 DEF Rows, RowFits, InStep, Known, Unsignalled
  <2>3. \/ Transit(w, frame[w].task, frame[w].to, "enqueue")
        \/ Transit(w, frame[w].task, frame[w].to, "done")
    BY <1>5, <2>2 DEF CheckCanceled
  <2>4. Holds(w)' /\ frame'[w].task = frame[w].task
    BY <1>3, <2>3
  <2>. QED  BY <1>2, <2>1, <2>4
<1>6. CASE StartDo(w) \/ DoPanics(w)
  <2>1. /\ pc[w] \in {"iterate", "run"} /\ frame' = frame
        /\ pc'[w] \in {"run", "panicked"}
    BY <1>6 DEF StartDo, DoPanics, Goto, Resting, Placed
  <2>. QED  BY <1>2, <2>1 DEF Holds
<1>7. CASE \/ ContextEnds(w)
           \/ \E next \in Outcomes \ {"panic"}, later \in BOOLEAN :
                 DoReturns(w, next, later)
  <2>1. pc[w] = "run" /\ pc'[w] = "check" /\ frame'[w].task = frame[w].task
    BY <1>7 DEF ContextEnds, DoReturns, Placed, Frame
  <2>. QED  BY <1>2, <2>1 DEF Holds
<1>8. CASE Done(w) \/ Reschedule(w) \/ Unregister(w)
  <2>1. /\ pc[w] \in {"done", "schedule", "unregister"}
        /\ pc'[w] \in {"schedule", "unregister", "drain", "idle"}
    BY <1>8 DEF Done, Reschedule, Unregister, Goto, Placed
  <2>. QED  BY <1>2, <2>1 DEF Holds, Writing
<1>9. CASE DoEndsLate(w)
  <2>1. w \in executing /\ pc[w] # "run" /\ Leftover(w)
    BY <1>9 DEF DoEndsLate, LeftBehind
  <2>2. CASE pc[w] = "drain"
    <3>1. pc'[w] = "idle"
      BY <1>9, <2>2 DEF DoEndsLate, Goto, Placed
    <3>. QED  BY <1>2, <2>2, <3>1 DEF Holds, Writing
  <2>3. CASE pc[w] # "drain"
    <3>1. pc[w] \notin Resting
      BY <2>1 DEF Leftover, Resting, Writing
    <3>2. pc'[w] = pc[w] /\ frame' = frame
      BY <1>9, <2>3, <3>1 DEF DoEndsLate, Goto, Placed
    <3>3. Holds(w) <=> Holds(w)'
      BY <3>2 DEF Holds
    <3>4. \A t : Waiting(t)' <=> Waiting(t)
      BY <1>0 DEF Waiting
    <3>5. Holds(w)' /\ pc'[w] # "exec" => Known(w)' = Row(w)'
      BY <1>0, <3>2, <3>3 DEF InStep, Known, Row
    <3>6. InStep'
      BY <1>0, <1>1, <3>4, <3>5, InStepKept
    <3>7. \A t \in Tasks : Waiting(t) \/ t \in toResume => Attended(t)'
      BY <1>0, <3>4 DEF Attended
    <3>8. \A t \in Tasks : Holds(w) /\ frame[w].task = t => Attended(t)'
      BY <3>2, <3>3 DEF Attended
    <3>. QED  BY <1>0, <1>1, <3>6, <3>7, <3>8, CaredKept
  <2>. QED  BY <2>2, <2>3
<1>. QED
  BY <1>4, <1>5, <1>6, <1>7, <1>8, <1>9 DEF WorkStep, DoStep

LEMMA SteadyLoop ==
  ASSUME Placed, Stored, OneClaim, Lined, InStep, Cared,
         \/ \E t \in Tasks : Resume(t)
         \/ LoopStep \/ Pop
         \/ \E w \in Workers : Dispatch(w)
  PROVE  InStep' /\ Cared'
<1>. USE AgentKinds
<1>0. db' = db
  BY DEF Resume, LoopStep, EnterLoop, LoopSchedule, LoopWait, Request, Pop,
         Dispatch, memory
<1>1. ASSUME NEW t \in Tasks, Resume(t)  PROVE InStep' /\ Cared'
  <2>1. /\ Only({Starter}) /\ t \in toResume /\ toResume' = toResume \ {t}
        /\ status' = [status EXCEPT ![t] = db[t]] /\ stack' = stack
        /\ pc[Starter] = "resume"
        /\ pc'[Starter] = "enqueue" /\ frame'[Starter].task = t
    BY <1>1 DEF Resume, Only, Placed, NoFrame
  <2>2. ~Waiting(t) /\ \A b \in Agents : Holds(b) => frame[b].task # t
    BY <2>1 DEF OneClaim, Untouched, Claims
  <2>3. /\ \A b \in Agents : Holds(b) => status'[frame[b].task] = status[frame[b].task]
        /\ \A u \in Tasks : Waiting(u) => status'[u] = status[u]
        /\ status'[t] = db[t]
    BY <2>1, <2>2 DEF Stored
  <2>4. \A u : Waiting(u)' <=> Waiting(u)
    BY <2>1 DEF Waiting
  <2>5. Known(Starter)' = Row(Starter)'
    BY <1>0, <2>1, <2>3 DEF Row, Known
  <2>6. InStep'
    BY <1>0, <2>1, <2>3, <2>4, <2>5, InStepKept
  <2>7. Holds(Starter)' /\ ~Holds(Starter)
    BY <2>1 DEF Holds, Writing
  <2>8. \A u \in Tasks : Waiting(u) \/ u \in toResume => Attended(u)'
    BY <2>1, <2>4, <2>7 DEF Attended
  <2>. QED  BY <1>0, <2>1, <2>6, <2>7, <2>8, CaredKept
<1>2. CASE LoopStep
  <2>1. /\ Only({Starter}) /\ UNCHANGED <<status, stack, toResume>>
        /\ pc[Starter] \in {"resume", "loop", "wait", "request"}
        /\ pc'[Starter] \in {"loop", "wait", "request", "idle", "locked"}
    BY <1>2 DEF LoopStep, EnterLoop, LoopSchedule, LoopWait, Request, Goto, Only,
                Placed, memory
  <2>2. ~Holds(Starter) /\ ~Holds(Starter)'
    BY <2>1 DEF Holds, Writing
  <2>3. \A u : Waiting(u)' <=> Waiting(u)
    BY <2>1 DEF Waiting
  <2>4. \A u \in Tasks : Waiting(u) \/ u \in toResume => Attended(u)'
    BY <2>1, <2>3 DEF Attended
  <2>. QED  BY <1>0, <2>1, <2>2, <2>3, <2>4, InStepKept, CaredKept
<1>3. CASE Pop
  <2>1. Only({Starter}) /\ UNCHANGED <<status, toResume>> /\ ~Holds(Starter)
    BY <1>3 DEF Pop, Goto, Only, Placed, memory, Holds, Writing
  <2>2. CASE pc'[Starter] = "request" /\ stack' = stack
    <3>1. ~Holds(Starter)'
      BY <2>2 DEF Holds, Writing
    <3>2. \A u : Waiting(u)' <=> Waiting(u)
      BY <2>2 DEF Waiting
    <3>3. \A u \in Tasks : Waiting(u) \/ u \in toResume => Attended(u)'
      BY <2>1, <3>2 DEF Attended
    <3>. QED  BY <1>0, <2>1, <3>1, <3>2, <3>3, InStepKept, CaredKept
  <2>3. CASE /\ pc'[Starter] = "dispatch" /\ frame'[Starter].task = Top
             /\ stack' = SubSeq(stack, 1, Len(stack) - 1)
    <3>. stack \in Seq(Tasks) /\ DOMAIN stack = 1 .. Len(stack)
         /\ Len(stack) \in Nat \ {0}
      BY <1>3 DEF Pop, Stored
    <3>1. /\ DOMAIN stack' = 1 .. Len(stack) - 1
          /\ \A j \in 1 .. Len(stack) - 1 : stack'[j] = stack[j]
      BY <2>3
    <3>2. Top \in Tasks /\ Waiting(Top)
      BY DEF Top, Waiting
    <3>3. \A u : Waiting(u)' => Waiting(u)
      BY <3>1 DEF Waiting
    <3>4. \A u : Waiting(u) => Waiting(u)' \/ u = Top
      BY <3>1 DEF Waiting, Top
    <3>. HIDE DEF Top
    <3>5. Holds(Starter)' /\ pc'[Starter] # "exec"
      BY <2>3 DEF Holds
    <3>6. Known(Starter)' = Row(Starter)'
      BY <1>0, <2>1, <2>3, <3>2 DEF Known, Row, InStep
    <3>7. InStep'
      BY <1>0, <2>1, <3>3, <3>6, InStepKept
    <3>8. \A u \in Tasks : Waiting(u) \/ u \in toResume => Attended(u)'
      BY <2>1, <2>3, <3>4, <3>5 DEF Attended
    <3>. QED  BY <1>0, <2>1, <3>7, <3>8, CaredKept
  <2>. QED  BY <1>3, <2>2, <2>3 DEF Pop, Goto, Placed, NoFrame
<1>4. ASSUME NEW w \in Workers, Dispatch(w)  PROVE InStep' /\ Cared'
  <2>1. /\ Only({Starter, w}) /\ UNCHANGED <<status, stack, toResume>>
        /\ pc[Starter] = "dispatch" /\ pc[w] = "idle"
        /\ pc'[Starter] = "loop" /\ pc'[w] = "register"
        /\ frame'[w] = frame[Starter]
    BY <1>4 DEF Dispatch, Only, Placed, memory
  <2>2. Holds(Starter) /\ ~Holds(w) /\ ~Holds(Starter)' /\ Holds(w)'
    BY <2>1 DEF Holds, Writing
  <2>3. Known(w)' = Row(w)'
    BY <1>0, <2>1, <2>2 DEF InStep, Known, Row
  <2>4. \A u : Waiting(u)' <=> Waiting(u)
    BY <2>1 DEF Waiting
  <2>5. \A u \in Tasks : Waiting(u) \/ u \in toResume => Attended(u)'
    BY <2>1, <2>4 DEF Attended
  <2>6. \A u \in Tasks : Holds(Starter) /\ frame[Starter].task = u => Attended(u)'
    BY <2>1, <2>2 DEF Attended
  <2>. QED  BY <1>0, <2>1, <2>2, <2>3, <2>4, <2>5, <2>6, InStepKept, CaredKept
<1>. QED  BY <1>1, <1>2, <1>3, <1>4

LEMMA SteadySubmit ==
  ASSUME Placed, Stored, OneClaim, InStep, Cared, NEW c \in Callers, NEW t \in Tasks,
         Submit(c, t)
  PROVE  InStep' /\ Cared'
<1>. USE AgentKinds
<1>1. /\ Only({c}) /\ db[t] = "new" /\ db' = [db EXCEPT ![t] = "queued"]
      /\ status' = [status EXCEPT ![t] = "queued"] /\ UNCHANGED <<stack, toResume>>
      /\ pc[c] = "idle" /\ pc'[c] = "push" /\ frame'[c].task = t
  BY DEF Submit, Only, Placed
<1>2. ~Waiting(t) /\ \A b \in Agents : Holds(b) => frame[b].task # t
  BY <1>1 DEF OneClaim, Untouched, Claims
<1>3. \A u \in Tasks : u # t => db'[u] = db[u] /\ status'[u] = status[u]
  BY <1>1 DEF Stored
<1>4. \A b \in Agents : Holds(b) =>
        /\ db'[frame[b].task] = db[frame[b].task]
        /\ status'[frame[b].task] = status[frame[b].task]
  BY <1>1, <1>2 DEF Stored
<1>5. Holds(c)' /\ ~Holds(c) /\ Known(c)' = Row(c)'
  BY <1>1 DEF Holds, Writing, Known, Row, Stored
<1>6. \A u : Waiting(u)' <=> Waiting(u)
  BY <1>1 DEF Waiting
<1>7. InStep'
  BY <1>1, <1>2, <1>3, <1>4, <1>5, <1>6, InStepKept
<1>8. \A u \in Tasks : Waiting(u) \/ u \in toResume => Attended(u)'
  BY <1>1, <1>6 DEF Attended
<1>9. Attended(t)'
  BY <1>1, <1>5 DEF Attended
<1>. QED  BY <1>1, <1>3, <1>5, <1>7, <1>8, <1>9, CaredKept

LEMMA SteadyStep ==
  ASSUME Placed, Stored, OneClaim, LeftBehind, Undisturbed, Steady, [Next]_vars
  PROVE  Steady'
<1>. USE AgentKinds
<1>. SUFFICES ASSUME calls' = 0
              PROVE  /\ Unsignalled'
                     /\ faults' = 0 /\ ~stopped' => InStep' /\ Cared'
  BY DEF Steady
<1>1. calls = 0 => Unasked
  BY DEF Undisturbed
<1>2. calls = 0 /\ Unasked /\ Rows /\ Lined /\ Unsignalled
  BY <1>1, QuietStep DEF Undisturbed, Steady
<1>3. Unsignalled'
  <2>1. activeCanceled' \subseteq activeCanceled /\ dead' \subseteq dead
    <3>1. ASSUME NEW a \in Agents, TransitStep(a)  PROVE UNCHANGED control
      BY <3>1 DEF TransitStep, Lookup, Assign, Exec, Enqueue, Push, SetRegistry
    <3>2. ASSUME \/ \E c \in Callers, t \in Tasks : Submit(c, t)
                 \/ \E t \in Tasks : Resume(t) \/ ResumeTimePasses(t)
                 \/ LoopStep \/ Pop \/ Shutdown \/ UNCHANGED vars
                 \/ \E w \in Workers : Dispatch(w)
          PROVE  UNCHANGED control
      BY <3>2 DEF Submit, Resume, ResumeTimePasses, LoopStep, EnterLoop,
                  LoopSchedule, LoopWait, Request, Pop, Dispatch, Shutdown, vars,
                  control
    <3>3. ASSUME NEW w \in Workers, WorkStep(w)
          PROVE  activeCanceled' \subseteq activeCanceled /\ dead' \subseteq dead
      BY <3>3 DEF WorkStep, Register, StartDo, CheckCanceled, Done, Recover,
                  Reschedule, Unregister, DoEndsLate, DoStep, DoReturns, DoPanics,
                  ContextEnds, control
    <3>4. Restart \/ NilTask => activeCanceled' = {} /\ dead' = {}
      BY DEF Restart, NilTask, Reboot
    <3>. QED  BY <1>1, <3>1, <3>2, <3>3, <3>4, QuietStep DEF control
  <2>. QED  BY <1>2, <2>1 DEF Unsignalled
<1>4. SUFFICES ASSUME faults' = 0, ~stopped'
               PROVE  InStep' /\ Cared'
  BY <1>3
<1>5. CASE Restart \/ NilTask
  <2>1. /\ \A a \in Agents : pc'[a] \in {"resume", "idle"}
        /\ stack' = <<>> /\ toResume' = Pending(db) /\ db' = db
    BY <1>5 DEF Restart, NilTask, Reboot
  <2>2. InStep'
    BY <2>1 DEF InStep, Holds, Writing, Waiting
  <2>3. Cared'
    BY <2>1 DEF Cared, Attended, Pending
  <2>. QED  BY <2>2, <2>3
<1>6. CASE ~Restart /\ ~NilTask /\ ~Shutdown
  <2>1. faults = 0 /\ ~stopped
    <3>1. ASSUME NEW a \in Agents, TransitStep(a)
          PROVE  faults' \in {faults, faults + 1} /\ stopped' = stopped
      BY <3>1 DEF TransitStep, Lookup, Assign, Exec, Enqueue, Push, SetRegistry,
                  bounds
    <3>2. ASSUME \/ \E c \in Callers, t \in Tasks : Submit(c, t)
                 \/ \E t \in Tasks : Resume(t) \/ ResumeTimePasses(t)
                 \/ LoopStep \/ Pop \/ UNCHANGED vars
                 \/ \E w \in Workers : Dispatch(w)
          PROVE  UNCHANGED <<faults, stopped>>
      BY <3>2 DEF Submit, Resume, ResumeTimePasses, LoopStep, EnterLoop,
                  LoopSchedule, LoopWait, Request, Pop, Dispatch, vars, bounds
    <3>3. ASSUME NEW w \in Workers, WorkStep(w)  PROVE UNCHANGED <<faults, stopped>>
      BY <3>3 DEF WorkStep, Register, StartDo, CheckCanceled, Done, Recover,
                  Reschedule, Unregister, DoEndsLate, DoStep, DoReturns, DoPanics,
                  ContextEnds, bounds
    <3>4. faults' \in {faults, faults + 1} /\ stopped' = stopped
      BY <1>1, <1>6, <3>1, <3>2, <3>3, QuietStep
    <3>. QED  BY <1>4, <3>4 DEF Stored
  <2>2. InStep /\ Cared
    BY <1>2, <2>1 DEF Steady
  <2>3. ASSUME UNCHANGED <<pc, frame, db, status, stack, toResume>>
        PROVE  InStep' /\ Cared'
    BY <2>2, <2>3 DEF InStep, Cared, Attended, Holds, Waiting, Known, Row
  <2>4. (\E t \in Tasks : ResumeTimePasses(t)) \/ UNCHANGED vars
          => UNCHANGED <<pc, frame, db, status, stack, toResume>>
    BY DEF ResumeTimePasses, vars
  <2>. QED  BY <1>1, <1>2, <1>4, <1>6, <2>1, <2>2, <2>3, <2>4, QuietStep,
               SteadyTransit, SteadyWork, SteadyLoop, SteadySubmit
<1>7. CASE Shutdown
  BY <1>4, <1>7 DEF Shutdown
<1>. QED  BY <1>5, <1>6, <1>7

LEMMA SteadyInvariant == Spec => []Steady
<1>1. Init => Steady
  BY DEF Init, Steady, Unsignalled, InStep, Cared, Holds, Writing, Waiting, Active
<1>2. QueueInv /\ Exclusive /\ Undisturbed /\ Steady /\ [Next]_vars => Steady'
  BY SteadyStep DEF QueueInv, Exclusive
<1>. QED  BY <1>1, <1>2, QuietInvariant, PTL DEF Spec

(***************************************************************************)
(* A waiting task that was cancelled is out of reach: it is not on the     *)
(* stack, nobody has a claim on it and it is not about to be resumed, from *)
(* Remove to the write of its row and for ever after it.                   *)
(***************************************************************************)
Gone(t) == Untouched(t) /\ t \notin toResume /\ db[t] # "new"

Outgoing(c) == pc[c] \in Writing /\ frame[c].ret \in Outside

Withdrawing ==
  /\ \A c \in Agents : Outgoing(c) => frame[c].to = "canceled"
  /\ \A c \in Agents, t \in Tasks :
       Outgoing(c) /\ frame[c].ret = "withdrawn" /\ frame[c].task = t => Gone(t)
  /\ \A t \in withdrawn : db[t] = "canceled" /\ Gone(t)

LEMMA GoneKept ==
  ASSUME NEW t \in Tasks, Gone(t), Waiting(t)' => Waiting(t),
         t \in toResume' => t \in toResume, db'[t] = "new" => db[t] = "new",
         \A a \in Agents : Claims(a)' /\ frame'[a].task = t
                             => Claims(a) /\ frame[a].task = t
  PROVE  Gone(t)'
BY DEF Gone, Untouched

LEMMA GoneStays ==
  ASSUME Placed, Stored, OneClaim, LeftBehind, Written, [Next]_vars,
         NEW t \in Tasks, Gone(t), Restart \/ NilTask => db[t] = "canceled"
  PROVE  Gone(t)'
<1>. USE AgentKinds
<1>. executing \subseteq Workers
  BY DEF Stored
<1>0. /\ ~Waiting(t) /\ t \notin toResume /\ db[t] # "new"
      /\ \A a \in Agents : Claims(a) => frame[a].task # t
  BY DEF Gone, Untouched
<1>1. ASSUME NEW a \in Agents, TransitStep(a)  PROVE Gone(t)'
  <2>1. executing' = executing /\ toResume' = toResume
    BY <1>1 DEF TransitStep, Lookup, Assign, Exec, Enqueue, Push, SetRegistry
  <2>2. \A b \in Agents : Claims(b)' => Claims(b) /\ frame'[b].task = frame[b].task
    BY <1>1, <2>1, TransitClaims
  <2>3. db'[t] # "new"
    <3>1. CASE Exec(a)
      <4>1. db' = db \/ db' = [db EXCEPT ![frame[a].task] = frame[a].to]
        BY <3>1 DEF Exec
      <4>2. frame[a].to # "new"
        BY <3>1 DEF Exec, Written, Writing
      <4>. QED  BY <1>0, <4>1, <4>2 DEF Stored
    <3>2. CASE ~Exec(a)
      BY <1>0, <1>1, <3>2 DEF TransitStep, Lookup, Assign, Enqueue, Push, SetRegistry
    <3>. QED  BY <3>1, <3>2
  <2>4. ~Waiting(t)'
    <3>1. CASE stack' = stack
      BY <1>0, <3>1 DEF Waiting
    <3>2. CASE Push(a) /\ stack' = Append(stack, frame[a].task)
      <4>1. frame[a].task # t /\ frame[a].task \in Tasks
        BY <1>0, <3>2 DEF Push, Claims, Holds, Placed, Tasked, PCs
      <4>. QED  BY <1>0, <3>2, <4>1 DEF Waiting, Stored
    <3>. QED  BY <1>1, <3>1, <3>2
              DEF TransitStep, Lookup, Assign, Exec, Enqueue, Push, SetRegistry
  <2>. QED  BY <2>1, <2>2, <2>3, <2>4, GoneKept
<1>2. ASSUME NEW A \in SUBSET Agents, Only(A), UNCHANGED db, executing' \subseteq executing,
             toResume' \subseteq toResume, Waiting(t)' => Waiting(t),
             \A a \in A : Claims(a)' => frame'[a].task # t
      PROVE  Gone(t)'
  <2>1. \A a \in Agents \ A :
           Claims(a)' => Claims(a) /\ frame'[a].task = frame[a].task
    BY <1>2, ClaimsElsewhere
  <2>. QED  BY <1>2, <2>1, GoneKept
<1>3. ASSUME NEW c \in Callers,
             \/ Signal(c) \/ ReadStatus(c)
             \/ \E u \in Tasks : Cancel(c, u) \/ Update(c, u)
      PROVE  Gone(t)'
  <2>1. /\ Only({c}) /\ UNCHANGED <<db, stack, executing, toResume>>
        /\ \/ pc'[c] \in {"signal", "remove", "update"}
           \/ pc'[c] \in Writing /\ frame'[c].ret \in Outside
    <3>1. CASE Signal(c) \/ \E u \in Tasks : Cancel(c, u) \/ Update(c, u)
      BY <3>1 DEF Signal, Transit, Cancel, Update, Only, Placed, memory, Writing, Outside
    <3>2. CASE ReadStatus(c)
      <4>1. Only({c}) /\ pc'[c] = "assign"
        BY <3>2, ReadStatusEffect
      <4>2. frame'[c].ret = "updated"
        BY <3>2 DEF ReadStatus, Placed
      <4>. QED  BY <3>2, <4>1, <4>2 DEF ReadStatus, memory, Writing, Outside
    <3>. QED  BY <1>3, <3>1, <3>2
  <2>2. ~Claims(c)'
    BY <2>1 DEF Claims, Holds, Outside, Writing
  <2>3. Waiting(t)' => Waiting(t)
    BY <2>1 DEF Waiting
  <2>. QED  BY <1>2, <2>1, <2>2, <2>3
<1>4. ASSUME NEW c \in Callers, Remove(c)  PROVE Gone(t)'
  <2>1. /\ Only({c}) /\ UNCHANGED <<db, executing, toResume>>
        /\ \/ pc'[c] = "lookup" /\ frame'[c].ret = "withdrawn"
           \/ pc'[c] = "idle"
    BY <1>4 DEF Remove, Transit, Goto, Only, Placed, memory
  <2>2. ~Claims(c)'
    BY <2>1 DEF Claims, Holds, Outside, Writing
  <2>3. Waiting(t)' => Waiting(t)
    <3>1. CASE stack' = stack
      BY <3>1 DEF Waiting
    <3>2. CASE \E i \in DOMAIN stack : stack' = Without(stack, i)
      BY <3>2, RemoveStack DEF OneClaim, Distinct
    <3>. QED  BY <1>4, <3>1, <3>2 DEF Remove
  <2>. QED  BY <1>2, <2>1, <2>2, <2>3
<1>5. ASSUME NEW c \in Callers, NEW u \in Tasks, Submit(c, u)  PROVE Gone(t)'
  <2>1. /\ Only({c}) /\ UNCHANGED <<stack, executing, toResume>>
        /\ frame'[c].task = u /\ db[u] = "new" /\ db' = [db EXCEPT ![u] = "queued"]
    BY <1>5 DEF Submit, Only, Placed
  <2>2. \A a \in Agents \ {c} :
           Claims(a)' => Claims(a) /\ frame'[a].task = frame[a].task
    BY <2>1, ClaimsElsewhere
  <2>3. ~Waiting(t)'
    BY <1>0, <2>1 DEF Waiting
  <2>4. db'[t] = db[t]
    BY <1>0, <2>1 DEF Stored
  <2>. QED  BY <1>0, <2>1, <2>2, <2>3, <2>4, GoneKept
<1>6. ASSUME (\E u \in Tasks : Resume(u)) \/ LoopStep \/ Pop  PROVE Gone(t)'
  <2>1. /\ Only({Starter}) /\ UNCHANGED <<db, executing>> /\ toResume' \subseteq toResume
    BY <1>6 DEF Resume, LoopStep, EnterLoop, LoopSchedule, LoopWait, Request, Pop,
                Goto, Only, Placed, memory
  <2>2. Waiting(t)' => Waiting(t)
    <3>1. CASE stack' = stack
      BY <3>1 DEF Waiting
    <3>2. CASE stack # <<>> /\ stack' = SubSeq(stack, 1, Len(stack) - 1)
      BY <3>2, PopStack DEF OneClaim, Distinct
    <3>. QED  BY <1>6, <3>1, <3>2 DEF Resume, LoopStep, EnterLoop, LoopSchedule,
                                      LoopWait, Request, Pop, memory
  <2>3. ASSUME NEW u \in Tasks, Resume(u)  PROVE frame'[Starter].task # t
    BY <1>0, <2>3 DEF Resume, Placed, NoFrame
  <2>4. ASSUME LoopStep  PROVE ~Claims(Starter)'
    <3>1. pc'[Starter] \in {"loop", "wait", "request", "idle", "locked"}
      BY <2>4 DEF LoopStep, EnterLoop, LoopSchedule, LoopWait, Request, Goto, Placed
    <3>. QED  BY <2>1, <3>1 DEF Claims, Holds, Writing
  <2>5. ASSUME Pop  PROVE Claims(Starter)' => frame'[Starter].task # t
    <3>1. CASE Goto(Starter, "request")
      <4>1. pc'[Starter] = "request"
        BY <3>1 DEF Goto, Placed
      <4>. QED  BY <2>1, <4>1 DEF Claims, Holds, Writing
    <3>2. CASE frame' = [frame EXCEPT ![Starter] = [NoFrame EXCEPT !.task = Top]]
      <4>1. Waiting(Top)
        <5>. stack \in Seq(Tasks) /\ DOMAIN stack = 1 .. Len(stack)
             /\ Len(stack) \in Nat \ {0}
          BY <2>5 DEF Pop, Stored
        <5>. QED  BY DEF Top, Waiting
      <4>2. frame'[Starter].task = Top
        BY <3>2 DEF Placed, NoFrame
      <4>. QED  BY <1>0, <4>1, <4>2
    <3>. QED  BY <2>5, <3>1, <3>2 DEF Pop
  <2>. QED  BY <1>2, <1>6, <2>1, <2>2, <2>3, <2>4, <2>5
<1>7. ASSUME NEW w \in Workers, Dispatch(w)  PROVE Gone(t)'
  <2>1. /\ Only({Starter, w}) /\ UNCHANGED <<db, stack, executing, toResume>>
        /\ pc[Starter] = "dispatch" /\ pc'[Starter] = "loop"
        /\ frame'[w] = frame[Starter]
    BY <1>7 DEF Dispatch, Only, Placed
  <2>2. Claims(Starter) /\ ~Claims(Starter)'
    BY <2>1 DEF Claims, Holds, Writing
  <2>3. Waiting(t)' => Waiting(t)
    BY <2>1 DEF Waiting
  <2>4. frame'[w].task # t
    BY <1>0, <2>1, <2>2
  <2>. QED  BY <1>2, <2>1, <2>2, <2>3, <2>4
<1>8. ASSUME NEW w \in Workers, WorkStep(w)  PROVE Gone(t)'
  <2>1. /\ UNCHANGED <<db, stack, toResume>>
        /\ executing' \subseteq executing \cup {w}
        /\ Claims(w)' => Claims(w) /\ frame'[w].task = frame[w].task
    BY <1>8, WorkClaims
  <2>2. Only({w})
    BY <1>8, WorkerOnly DEF WorkStep, WorkerStep
  <2>3. \A a \in Agents : Claims(a)' => Claims(a) /\ frame'[a].task = frame[a].task
    BY <2>1, <2>2, ClaimsElsewhere
  <2>4. Waiting(t)' => Waiting(t)
    BY <2>1 DEF Waiting
  <2>. QED  BY <2>1, <2>3, <2>4, GoneKept
<1>9. CASE Restart \/ NilTask
  <2>1. /\ \A a \in Agents : pc'[a] \in {"resume", "idle"}
        /\ executing' = {} /\ stack' = <<>> /\ toResume' = Pending(db) /\ db' = db
    BY <1>9 DEF Restart, NilTask, Reboot
  <2>2. \A a \in Agents : ~Claims(a)'
    BY <2>1 DEF Claims, Holds, Writing
  <2>3. ~Waiting(t)' /\ t \notin toResume'
    BY <1>9, <2>1 DEF Waiting, Pending, Active
  <2>. QED  BY <1>0, <2>1, <2>2, <2>3 DEF Gone, Untouched
<1>10. CASE UNCHANGED <<pc, frame, stack, executing, toResume, db>>
  BY <1>10 DEF Gone, Claims, Holds, Untouched, Waiting
<1>. QED
  BY <1>1, <1>3, <1>4, <1>5, <1>6, <1>7, <1>8, <1>9, <1>10
     DEF Next, HandlerStep, StarterStep, WorkerStep, WorkStep, LoopStep,
         ResumeTimePasses, Shutdown, vars

\* which agents write for a caller, when there are no calls of UpdateTask
LEMMA OutgoingStep ==
  ASSUME Placed, Stored, ~Updates, [Next]_vars, NEW a \in Agents, Outgoing(a)'
  PROVE  \/ Outgoing(a) /\ frame'[a] = frame[a] /\ ~Restart /\ ~NilTask
         \/ frame'[a].to = "canceled" /\ frame'[a].ret = "aborted"
         \/ /\ a \in Callers /\ Remove(a)
            /\ Transit(a, frame[a].task, "canceled", "withdrawn")
<1>. USE AgentKinds
<1>. DEFINE Goal == \/ Outgoing(a) /\ frame'[a] = frame[a] /\ ~Restart /\ ~NilTask
                    \/ frame'[a].to = "canceled" /\ frame'[a].ret = "aborted"
                    \/ /\ a \in Callers /\ Remove(a)
                       /\ Transit(a, frame[a].task, "canceled", "withdrawn")
<1>. SUFFICES Goal
  OBVIOUS
<1>0. pc'[a] \in Writing /\ frame'[a].ret \in Outside
  BY DEF Outgoing
<1>1. ~Restart /\ ~NilTask
  <2>1. Restart \/ NilTask => pc'[a] \in {"resume", "idle"}
    BY DEF Restart, NilTask, Reboot
  <2>. QED  BY <1>0, <2>1 DEF Writing
<1>2. ASSUME pc[a] \in Writing, frame'[a] = frame[a]  PROVE Goal
  BY <1>0, <1>1, <1>2 DEF Outgoing
<1>3. ASSUME NEW A \in SUBSET Agents, Only(A), a \notin A  PROVE Goal
  BY <1>0, <1>2, <1>3 DEF Only
<1>4. ASSUME NEW b \in Agents, TransitStep(b)  PROVE Goal
  <2>1. CASE a # b
    BY <1>3, <1>4, <2>1, TransitStepEffect
  <2>2. CASE a = b
    <3>1. ASSUME NEW ok \in BOOLEAN, Goto(a, Continue(a, ok))  PROVE FALSE
      <4>1. pc'[a] = Continue(a, ok)
        BY <3>1, GotoEffect
      <4>. QED  BY <1>0, <4>1, ContinuePlace, HomePlace DEF Writing
    <3>2. ASSUME Goto(a, Home(a))  PROVE FALSE
      <4>1. pc'[a] = Home(a)
        BY <3>2, GotoEffect
      <4>. QED  BY <1>0, <4>1, HomePlace DEF Writing
    <3>3. frame'[a] # [task |-> frame[a].task, to |-> "queued", ret |-> "push"]
      BY <1>0 DEF Outside
    <3>4. /\ frame'[a] = frame[a] /\ pc[a] \in {"lookup", "assign", "enqueue", "push"}
          /\ pc'[a] \in {"assign", "exec", "set", "push"}
          /\ pc'[a] \in {"assign", "exec"} <=> pc[a] \in {"lookup", "assign"}
      BY <1>4, <2>2, <3>1, <3>2, <3>3, TransitStepEffect
    <3>. QED  BY <1>0, <1>2, <3>4 DEF Writing
  <2>. QED  BY <2>1, <2>2
<1>5. ASSUME NEW c \in Callers, Signal(c) \/ Remove(c) \/ ReadStatus(c)
      PROVE  Goal
  <2>0. ~ReadStatus(c)
    BY ReadStatusEffect
  <2>1. Only({c})
    BY <1>5, <2>0 DEF Signal, Remove, Goto, Transit, Only, Placed
  <2>2. CASE a # c
    BY <1>3, <2>1, <2>2
  <2>3. CASE a = c /\ Signal(c)
    <3>1. frame'[a].to = "canceled" /\ frame'[a].ret = "aborted"
      BY <2>3 DEF Signal, Transit, Placed
    <3>. QED  BY <3>1
  <2>4. CASE a = c /\ Remove(c)
    <3>1. ~Goto(a, "idle")
      BY <1>0 DEF Goto, Placed, Writing
    <3>. QED  BY <2>4, <3>1 DEF Remove
  <2>. QED  BY <1>5, <2>0, <2>2, <2>3, <2>4
<1>6. ASSUME NEW A \in SUBSET Agents, Only(A), \A b \in A : pc'[b] \notin Writing
      PROVE  Goal
  BY <1>0, <1>3, <1>6
<1>7. ASSUME NEW c \in Callers, NEW t \in Tasks,
             Submit(c, t) \/ Cancel(c, t) \/ Update(c, t)
      PROVE  Goal
  <2>1. Only({c}) /\ pc'[c] \in {"push", "signal", "remove"}
    BY <1>7 DEF Submit, Cancel, Update, Only, Placed
  <2>. QED  BY <1>6, <2>1 DEF Writing
<1>8. ASSUME (\E t \in Tasks : Resume(t)) \/ LoopStep \/ Pop  PROVE Goal
  <2>1. /\ Only({Starter})
        /\ pc'[Starter] \in {"enqueue", "loop", "wait", "request", "idle", "locked",
                             "dispatch"}
    BY <1>8 DEF Resume, LoopStep, EnterLoop, LoopSchedule, LoopWait, Request, Pop,
                Goto, Only, Placed
  <2>. QED  BY <1>6, <2>1 DEF Writing
<1>9. ASSUME NEW w \in Workers, Dispatch(w)  PROVE Goal
  <2>1. Only({Starter, w}) /\ pc'[Starter] = "loop" /\ pc'[w] = "register"
    BY <1>9 DEF Dispatch, Only, Placed
  <2>. QED  BY <1>6, <2>1 DEF Writing
<1>10. ASSUME NEW w \in Workers, WorkStep(w)  PROVE Goal
  <2>1. Only({w})
    BY <1>10, WorkerOnly DEF WorkStep, WorkerStep
  <2>2. CASE a # w
    BY <1>3, <2>1, <2>2
  <2>3. CASE a = w
    <3>. w \in Agents
      OBVIOUS
    <3>1. CASE Register(w) \/ Recover(w) \/ CheckCanceled(w)
      <4>1. \/ pc'[w] = "done"
            \/ frame'[w].ret \in {"iterate", "enqueue", "done", "schedule"}
        BY <3>1 DEF Register, Recover, CheckCanceled, Goto, Transit, Placed
      <4>. QED  BY <1>0, <2>3, <4>1 DEF Writing, Outside
    <3>2. CASE StartDo(w) \/ Done(w) \/ Reschedule(w) \/ Unregister(w) \/ DoStep(w)
      <4>1. pc'[w] \notin Writing
        BY <3>2 DEF StartDo, Done, Reschedule, Unregister, DoStep, DoReturns, DoPanics,
                    ContextEnds, Goto, Placed, Writing
      <4>. QED  BY <1>0, <2>3, <4>1
    <3>3. CASE DoEndsLate(w)
      <4>1. \/ pc'[w] \in {"idle", "resume"}
            \/ pc'[w] = pc[w] /\ frame' = frame
        BY <3>3 DEF DoEndsLate, Goto, Placed, Resting
      <4>. QED  BY <1>0, <1>2, <2>3, <4>1 DEF Writing
    <3>. QED  BY <1>10, <3>1, <3>2, <3>3 DEF WorkStep
  <2>. QED  BY <2>2, <2>3
<1>11. CASE UNCHANGED <<pc, frame>>
  BY <1>0, <1>2, <1>11
<1>. QED
  BY <1>1, <1>4, <1>5, <1>7, <1>8, <1>9, <1>10, <1>11
     DEF Next, HandlerStep, StarterStep, WorkerStep, WorkStep, LoopStep,
         ResumeTimePasses, Shutdown, vars

\* the history of withdrawn tasks and the rows of tasks nobody claims
LEMMA WithdrawnRows ==
  ASSUME Placed, Stored, Withdrawing, [Next]_vars, ~Updates
  PROVE  /\ \A t \in withdrawn : db'[t] = "canceled"
         /\ \A t \in withdrawn' \ withdrawn :
              /\ db'[t] = "canceled" /\ ~Restart /\ ~NilTask
              /\ \E c \in Agents :
                   Outgoing(c) /\ frame[c].ret = "withdrawn" /\ frame[c].task = t
<1>. USE AgentKinds
<1>0. \A t \in withdrawn : t \in Tasks /\ db[t] = "canceled" /\ Gone(t)
  BY DEF Withdrawing, Stored
<1>1. CASE UNCHANGED <<db, withdrawn>>
  BY <1>0, <1>1
<1>2. ASSUME NEW c \in Callers, NEW t \in Tasks, Submit(c, t)
      PROVE  /\ withdrawn' = withdrawn
             /\ \A u \in withdrawn : db'[u] = "canceled"
  <2>1. db[t] = "new" /\ db' = [db EXCEPT ![t] = "queued"] /\ withdrawn' = withdrawn
    BY <1>2 DEF Submit, history
  <2>. QED  BY <1>0, <2>1 DEF Stored
<1>3. ASSUME NEW a \in Agents, Exec(a)
      PROVE  /\ \A t \in withdrawn : db'[t] = "canceled"
             /\ \A t \in withdrawn' \ withdrawn :
                  /\ db'[t] = "canceled" /\ ~Restart /\ ~NilTask
                  /\ Outgoing(a) /\ frame[a].ret = "withdrawn" /\ frame[a].task = t
  <2>. DEFINE t == frame[a].task
  <2>1. pc[a] = "exec" /\ t \in Tasks
    BY <1>3 DEF Exec, Placed, Tasked, PCs
  <2>2. CASE UNCHANGED <<db, withdrawn>>
    BY <1>0, <2>2
  <2>3. CASE /\ db' = [db EXCEPT ![t] = frame[a].to]
             /\ withdrawn' = IF frame[a].ret = "withdrawn"
                             THEN withdrawn \cup {t} ELSE withdrawn
    <3>1. ~Restart /\ ~NilTask
      <4>1. pc'[a] = Continue(a, TRUE) \/ pc'[a] = Continue(a, FALSE)
        BY <1>3, GotoEffect DEF Exec
      <4>2. toResume' = toResume /\ crashes' = crashes
        BY <1>3 DEF Exec
      <4>3. ~Restart
        BY <4>2 DEF Restart, Stored
      <4>4. ~NilTask
        <5>1. ASSUME NilTask  PROVE FALSE
          <6>1. pc'[Starter] = "resume" /\ pc[Starter] = "locked"
            BY <5>1 DEF NilTask, Reboot
          <6>2. a # Starter
            BY <2>1, <6>1
          <6>3. Only({a})
            BY <1>3, TransitStepEffect DEF TransitStep
          <6>. QED  BY <6>1, <6>2, <6>3 DEF Only
        <5>. QED  BY <5>1
      <4>. QED  BY <4>3, <4>4
    <3>2. frame[a].ret \in Outside => Outgoing(a) /\ frame[a].to = "canceled"
      BY <2>1 DEF Outgoing, Withdrawing, Writing
    <3>3. frame[a].ret \notin Outside => Claims(a)
      BY <2>1 DEF Claims, Holds, Writing
    <3>4. \A u \in withdrawn : db'[u] = "canceled"
      <4>1. frame[a].ret \notin Outside => t \notin withdrawn
        BY <1>0, <3>3 DEF Gone, Untouched
      <4>. QED  BY <1>0, <2>1, <2>3, <3>2, <4>1 DEF Stored
    <3>5. \A u \in withdrawn' \ withdrawn :
            u = t /\ frame[a].ret = "withdrawn" /\ db'[u] = "canceled" /\ Outgoing(a)
      BY <2>1, <2>3, <3>2 DEF Stored, Outside
    <3>. QED  BY <3>1, <3>4, <3>5
  <2>. QED  BY <1>3, <2>2, <2>3 DEF Exec, history
<1>. QED
  <2>1. ASSUME NEW a \in Agents, TransitStep(a), ~Exec(a)
        PROVE  UNCHANGED <<db, withdrawn>>
    BY <2>1 DEF TransitStep, Lookup, Assign, Enqueue, Push, SetRegistry, history
  <2>2. ASSUME NEW c \in Callers,
               \/ Signal(c) \/ Remove(c) \/ ReadStatus(c)
               \/ \E t \in Tasks : Cancel(c, t) \/ Update(c, t)
        PROVE  UNCHANGED <<db, withdrawn>>
    BY <2>2 DEF Signal, Remove, ReadStatus, Cancel, Update, history
  <2>3. ASSUME \/ \E t \in Tasks : Resume(t) \/ ResumeTimePasses(t)
               \/ LoopStep \/ Pop \/ Shutdown \/ Restart \/ NilTask \/ UNCHANGED vars
               \/ \E w \in Workers : Dispatch(w)
        PROVE  UNCHANGED <<db, withdrawn>>
    BY <2>3 DEF Resume, ResumeTimePasses, LoopStep, EnterLoop, LoopSchedule, LoopWait,
                Request, Pop, Dispatch, Shutdown, Restart, NilTask, Reboot, vars,
                history
  <2>4. ASSUME NEW w \in Workers, WorkStep(w)
        PROVE  UNCHANGED <<db, withdrawn>>
    BY <2>4 DEF WorkStep, Register, StartDo, CheckCanceled, Done, Recover,
                Reschedule, Unregister, DoEndsLate, DoStep, DoReturns, DoPanics,
                ContextEnds, history
  <2>5. \/ UNCHANGED <<db, withdrawn>>
        \/ \E c \in Callers, t \in Tasks : Submit(c, t)
        \/ \E a \in Agents : Exec(a)
    BY <2>1, <2>2, <2>3, <2>4
       DEF Next, HandlerStep, StarterStep, WorkerStep, WorkStep, LoopStep
  <2>. QED  BY <1>1, <1>2, <1>3, <2>5

LEMMA WithdrawingStep ==
  ASSUME Placed, Stored, OneClaim, LeftBehind, Written, Withdrawing, ~Updates,
         [Next]_vars
  PROVE  Withdrawing'
<1>. USE AgentKinds
<1>1. ASSUME NEW a \in Agents, Outgoing(a)'  PROVE frame'[a].to = "canceled"
  <2>1. Transit(a, frame[a].task, "canceled", "withdrawn") => frame'[a].to = "canceled"
    BY DEF Transit, Placed
  <2>. QED  BY <1>1, <2>1, OutgoingStep DEF Withdrawing
<1>2. ASSUME NEW a \in Agents, NEW t \in Tasks, Outgoing(a)',
             frame'[a].ret = "withdrawn", frame'[a].task = t
      PROVE  Gone(t)'
  <2>1. CASE Outgoing(a) /\ frame'[a] = frame[a] /\ ~Restart /\ ~NilTask
    <3>1. Gone(t)
      BY <1>2, <2>1 DEF Withdrawing
    <3>. QED  BY <2>1, <3>1, GoneStays
  <2>2. CASE /\ a \in Callers /\ Remove(a)
             /\ Transit(a, frame[a].task, "canceled", "withdrawn")
    <3>1. Only({a}) /\ pc'[a] = "lookup" /\ frame[a].task = t
      BY <1>2, <2>2, TransitEffect
    <3>2. UNCHANGED <<db, executing, toResume>>
      BY <2>2 DEF Remove, memory
    <3>3. PICK k \in DOMAIN stack : stack[k] = t /\ stack' = Without(stack, k)
      <4>1. ~Goto(a, "idle")
        BY <3>1 DEF Goto, Placed
      <4>. QED  BY <2>2, <3>1, <4>1 DEF Remove
    <3>4. ~Waiting(t)'
      BY <3>3, RemoveStack DEF OneClaim, Distinct
    <3>5. Waiting(t)
      BY <3>3 DEF Waiting
    <3>6. t \notin toResume /\ db[t] # "new"
      BY <3>5 DEF OneClaim, Untouched
    <3>7. \A b \in Agents : Claims(b) => frame[b].task # t
      BY <3>5 DEF OneClaim
    <3>8. ~Claims(a)'
      <4>1. a \notin executing
        BY <2>2 DEF Stored
      <4>. QED  BY <1>2, <3>1, <3>2, <4>1 DEF Claims, Holds, Outside
    <3>9. \A b \in Agents : Claims(b)' => frame'[b].task # t
      BY <3>1, <3>2, <3>7, <3>8, ClaimsElsewhere
    <3>. QED  BY <3>2, <3>4, <3>6, <3>9 DEF Gone, Untouched
  <2>3. frame'[a].ret # "aborted"
    BY <1>2
  <2>. QED  BY <1>2, <2>1, <2>2, <2>3, OutgoingStep
<1>3. ASSUME NEW t \in withdrawn'  PROVE db'[t] = "canceled" /\ Gone(t)'
  <2>1. CASE t \in withdrawn
    <3>1. t \in Tasks /\ db[t] = "canceled" /\ Gone(t)
      BY <2>1 DEF Withdrawing, Stored
    <3>. QED  BY <2>1, <3>1, GoneStays, WithdrawnRows
  <2>2. CASE t \notin withdrawn
    <3>1. PICK c \in Agents :
            Outgoing(c) /\ frame[c].ret = "withdrawn" /\ frame[c].task = t
      BY <1>3, <2>2, WithdrawnRows
    <3>2. t \in Tasks
      BY <3>1 DEF Outgoing, Writing, Placed, Tasked, PCs
    <3>3. Gone(t)
      BY <3>1, <3>2 DEF Withdrawing
    <3>. QED  BY <1>3, <2>2, <3>2, <3>3, GoneStays, WithdrawnRows
  <2>. QED  BY <2>1, <2>2
<1>. QED  BY <1>1, <1>2, <1>3 DEF Withdrawing

-----------------------------------------------------------------------------
(***************************************************************************)
(* The theorems.                                                           *)
(***************************************************************************)
\* As long as nobody cancels or updates a task from outside, the table and
\* the runs of Do follow the lifecycle, through failed writes, timeouts,
\* panics, shutdowns and restarts.
THEOREM QueueImplementsLifecycle == Spec /\ [](calls = 0) => Implements
<1>1. Init => Lifecycle!Init
  BY DEF Init, Lifecycle!Init
<1>2. QueueInv /\ Exclusive /\ Undisturbed /\ GivenUp /\ (calls = 0)' /\ [Next]_vars
        => [Lifecycle!Next]_(Lifecycle!vars)
  BY LifecycleStep DEF QueueInv, Exclusive
<1>. QED  BY <1>1, <1>2, QuietInvariant, PTL DEF Spec, Implements, Lifecycle!Spec

\* As long as the database answers and nobody calls from outside, a task whose
\* row is not at its end is waiting, worked on or about to be resumed.
THEOREM NothingStranded == Spec /\ [](calls = 0 /\ faults = 0) => []NotStranded
<1>1. Placed /\ Steady /\ calls = 0 /\ faults = 0 => NotStranded
  <2>. SUFFICES ASSUME Placed, Cared, NEW t \in Tasks, db[t] \in Active
                PROVE  ~Unattended(t)
    BY DEF Steady, NotStranded
  <2>. QED  BY DEF Cared, Attended, Unattended
<1>. QED  BY <1>1, QueueInvariant, SteadyInvariant, PTL DEF QueueInv

\* Without calls of UpdateTask, a waiting task that CancelTask took off the
\* stack stays cancelled in the table and is never run, whatever other
\* goroutines, failed writes and restarts did in between.
THEOREM WithdrawnStaysWithdrawn == ASSUME ~Updates PROVE Spec => []WithdrawnNeverRuns
<1>1. Init => Withdrawing
  BY DEF Init, Withdrawing, Outgoing, Writing
<1>2. QueueInv /\ Exclusive /\ Withdrawing /\ [Next]_vars => Withdrawing'
  BY WithdrawingStep DEF QueueInv, Exclusive
<1>3. QueueInv /\ Withdrawing => WithdrawnNeverRuns
  BY AgentKinds
     DEF QueueInv, Stored, Withdrawing, Gone, Untouched, Claims, WithdrawnNeverRuns
<1>. QED  BY <1>1, <1>2, <1>3, ExclusiveInvariant, PTL DEF Spec
=============================================================================
