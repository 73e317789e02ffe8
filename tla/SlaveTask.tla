----------------------------- MODULE SlaveTask -----------------------------
(* Archive and extract workflows that a master node hands to slave nodes:    *)
(* workflows/archive.go, extract.go and upload.go, the calls of              *)
(* cluster/node.go, the handlers and the registry of the slave               *)
(* (service/node/task.go, queue/registry.go), and the choice of a node       *)
(* (cluster/pool.go).  An iteration of the master's task is a request and    *)
(* the use of its answer; the slave's queue is one step per status.          *)
EXTENDS Naturals, Sequences, FiniteSets

CONSTANTS Jobs, Archives,       \* the master's tasks; those that make an archive
          Nodes, NoNode,        \* slave nodes with the capabilities
          MaxRetry,             \* maxRetry of the master's queue
          MaxWork, MaxFaults    \* bounds of the model

ASSUME SlaveAssumption ==
    /\ Archives \subseteq Jobs /\ IsFiniteSet(Jobs)
    /\ Nodes # {} /\ IsFiniteSet(Nodes) /\ NoNode \notin Nodes
    /\ MaxRetry \in Nat /\ MaxWork \in Nat /\ MaxFaults \in Nat

VARIABLES
    row,       \* the row of each job: node, phase, slave task, archive, retries
    pool,      \* the nodes of the pool
    nextId, registry,  \* of each slave: the last id given, and id to task
    work,      \* every slave task ever made; 0 stands for none
    files,     \* the slave tasks whose archive is on their disk
    placed,    \* uploads and extractions that were done: job, archive
    displaced, \* jobs whose slave was restarted or replaced under them
    mishaps, faults

vars == <<row, pool, nextId, registry, work, files, placed, displaced, mishaps, faults>>

Ids == 1 .. MaxWork
Works == 1 .. Len(work)
Active(j) == row[j].status = "active"

Init ==
    /\ row = [j \in Jobs |-> [status |-> "active", phase |-> "start", node |-> NoNode,
                              task |-> 0, zip |-> 0, tries |-> 0]]
    /\ pool = Nodes
    /\ nextId = [n \in Nodes |-> 0]
    /\ registry = [n \in Nodes |-> [i \in Ids |-> 0]]
    /\ work = <<>>
    /\ files = {}
    /\ placed = {}
    /\ displaced = {}
    /\ mishaps = {}
    /\ faults = 0

Fault(what) ==
    /\ faults < MaxFaults
    /\ faults' = faults + 1
    /\ mishaps' = mishaps \cup {what}
NoFault == UNCHANGED <<mishaps, faults>>

-----------------------------------------------------------------------------
(* The slave's handlers.                                                     *)

(* CreateTaskInSlave: the id is taken, the task queued and registered.       *)
FreeID(n) ==  \* mutant: the first id that is free
    CHOOSE i \in Ids : registry[n][i] = 0 /\ \A k \in Ids : registry[n][k] = 0 => i <= k
LastID(n) == nextId[n]  \* mutant: the last id, not the next
NextID(n) == nextId[n] + 1

CreateTask(j, n, kind) ==
    /\ Len(work) < MaxWork
    /\ work' = Append(work, [job |-> j, kind |-> kind, node |-> n, id |-> NextID(n),
                             status |-> "queued", zip |-> row[j].zip])
    /\ nextId' = [nextId EXCEPT ![n] = NextID(n)]
    /\ registry' = [registry EXCEPT ![n][NextID(n)] = Len(work) + 1]

(* Get deletes what has failed, and what is completed if it is told to.      *)
ClearsAny(status, clear) == clear  \* mutant: running tasks too
Clears(status, clear) == (clear /\ status = "completed") \/ status = "error"

GetTask(n, id, clear) ==
    LET w == registry[n][id] IN
    /\ registry' = IF w # 0 /\ Clears(work[w].status, clear)
                   THEN [registry EXCEPT ![n][id] = 0] ELSE registry
    /\ UNCHANGED <<nextId, work>>

-----------------------------------------------------------------------------
(* The slave's queue.                                                        *)

SlaveBegins(w) ==
    /\ work[w].status = "queued"
    /\ work' = [work EXCEPT ![w].status = "processing"]
    /\ files' = IF work[w].kind = "compress" THEN files \cup {w} ELSE files
    /\ UNCHANGED <<row, pool, nextId, registry, placed, displaced, mishaps, faults>>

(* An upload opens the archive by its path, on its own disk.                 *)
CanOpen(w) == work[w].zip \in files /\ work[work[w].zip].node = work[w].node

SlaveEnds(w) ==
    LET uploads == work[w].kind = "upload"
        works == uploads => CanOpen(w)
    IN  /\ work[w].status = "processing"
        /\ work' = [work EXCEPT ![w].status = IF works THEN "completed" ELSE "error"]
        /\ placed' = IF works /\ work[w].kind # "compress"
                     THEN placed \cup {[job |-> work[w].job,
                                        zip |-> IF uploads THEN work[w].zip ELSE w]}
                     ELSE placed
        /\ UNCHANGED <<row, pool, nextId, registry, files, displaced, mishaps, faults>>

SlaveFails(w) ==
    /\ work[w].status = "processing"
    /\ Fault("failed")
    /\ work' = [work EXCEPT ![w].status = "error"]
    /\ UNCHANGED <<row, pool, nextId, registry, files, placed, displaced>>

(* Tasks and ids of a slave are in memory; its disk stays.                   *)
SlaveRestarts(n) ==
    /\ nextId[n] # 0
    /\ Fault("restart")
    /\ nextId' = [nextId EXCEPT ![n] = 0]
    /\ registry' = [registry EXCEPT ![n] = [i \in Ids |-> 0]]
    /\ work' = [w \in Works |->
          IF work[w].node = n /\ work[w].status \in {"queued", "processing"}
          THEN [work[w] EXCEPT !.status = "gone"] ELSE work[w]]
    /\ displaced' = displaced \cup
          {j \in Jobs : Active(j) /\ row[j].node = n /\ row[j].task # 0}
    /\ UNCHANGED <<row, pool, files, placed>>

-----------------------------------------------------------------------------
(* The master's queue.                                                       *)

(* Cleanup removes the folder the archive was made in: a path with the id of *)
(* a slave task, on the node of this iteration.                              *)
Folder(state) ==
    IF state.zip = 0 THEN {}
    ELSE {f \in files : work[f].node = state.node /\ work[f].id = work[state.zip].id}

Keep(j, state) == row' = [row EXCEPT ![j] = state] /\ UNCHANGED files
End(j, state, status) ==
    /\ row' = [row EXCEPT ![j] = [state EXCEPT !.status = status]]
    /\ files' = files \ Folder(state)

(* An error is retried unless it is critical.                                *)
RetryUncounted(j, state) == Keep(j, state)  \* mutant: no retry is counted
Retry(j, state) ==
    IF state.tries < MaxRetry THEN Keep(j, [state EXCEPT !.tries = @ + 1])
    ELSE End(j, state, "error")

-----------------------------------------------------------------------------
(* An iteration of a job: a node, a request to it, and the next state.       *)

(* allocateNode: the node of the state if the pool has it, any other if not. *)
Allocated(j) == IF row[j].node \in pool THEN {row[j].node} ELSE pool
At(j, n) == [row[j] EXCEPT !.node = n]
Moves(j, n) == displaced' = IF row[j].phase # "start" /\ n # row[j].node
                            THEN displaced \cup {j} ELSE displaced

Creates(j) == row[j].phase = "start" \/ (row[j].phase = "uploading" /\ row[j].task = 0)
Kind(j) == IF row[j].phase = "uploading" THEN "upload"
           ELSE IF j \in Archives THEN "compress" ELSE "extract"
ClearsOnComplete(j) == row[j].phase = "uploading" \/ j \notin Archives

Asks(j, n) == IF Creates(j) THEN CreateTask(j, n, Kind(j))
              ELSE GetTask(n, row[j].task, ClearsOnComplete(j))

Created(j, n) == [At(j, n) EXCEPT !.phase = IF @ = "start" THEN "working" ELSE @,
                                  !.task = NextID(n)]

(* The summary brings the path of the archive that was compressed; an        *)
(* extraction keeps nothing of it.                                           *)
Archive(w) == IF work[w].kind = "compress" /\ work[w].status = "completed" THEN w ELSE 0
Compressing(j) == row[j].phase = "working" /\ j \in Archives
Told(j, n, w) == [At(j, n) EXCEPT !.zip = IF Compressing(j) THEN Archive(w) ELSE @]

Proceeds(j, state) ==
    CASE state.phase = "uploading" -> Keep(j, [state EXCEPT !.phase = "complete"])
      [] state.phase = "working" /\ j \in Archives ->
             Keep(j, [state EXCEPT !.phase = "uploading", !.task = 0])
      [] state.phase = "working" /\ j \notin Archives -> End(j, state, "completed")

(* awaitSlaveCompressing, awaitSlaveExtractComplete,                         *)
(* createAndAwaitSlaveUploading: a task that is not found is retried, one    *)
(* that has failed is not.                                                   *)
Uses(j, n) ==
    LET w == registry[n][row[j].task] IN
    IF Creates(j) THEN Keep(j, Created(j, n))
    ELSE CASE w = 0 -> Retry(j, At(j, n))
           [] w # 0 /\ work[w].status = "completed" -> Proceeds(j, Told(j, n, w))
           [] w # 0 /\ work[w].status = "error" -> End(j, Told(j, n, w), "error")
           [] OTHER -> Keep(j, Told(j, n, w))

Asking(j, n) == /\ Active(j) /\ row[j].phase # "complete"
                /\ n \in Allocated(j)
                /\ Moves(j, n)

(* The answer is used before anything else happens to the job: it is in the  *)
(* hands of the iteration, which needs nothing else.                         *)
Request(j) == \E n \in Nodes :
    /\ Asking(j, n) /\ Asks(j, n) /\ Uses(j, n)
    /\ UNCHANGED <<pool, placed>> /\ NoFault

NoneAvailable(j) ==
    /\ Active(j) /\ pool = {}
    /\ Retry(j, row[j])
    /\ UNCHANGED <<pool, nextId, registry, work, placed, displaced>> /\ NoFault

(* The master itself may be chosen when the node of the state is gone: it    *)
(* does not know the phases of a job on a slave (CriticalErr), and removes   *)
(* no folder there.                                                          *)
MasterRefuses(j) ==
    /\ Active(j) /\ row[j].phase # "start" /\ row[j].node \notin pool
    /\ row' = [row EXCEPT ![j].status = "error"]
    /\ UNCHANGED <<pool, nextId, registry, work, files, placed, displaced>> /\ NoFault

(* completeUpload, and Cleanup, which only logs a slave it cannot reach.     *)
Complete(j) ==
    /\ Active(j) /\ row[j].phase = "complete"
    /\ \E n \in Allocated(j) :
          \/ End(j, At(j, n), "completed") /\ NoFault
          \/ /\ Fault("kept")
             /\ row' = [row EXCEPT ![j] = [At(j, n) EXCEPT !.status = "completed"]]
             /\ UNCHANGED files
    /\ UNCHANGED <<pool, nextId, registry, work, placed, displaced>>

Unreachable(j) == \E n \in Nodes :
    /\ Asking(j, n)
    /\ Fault("unreachable") /\ Retry(j, At(j, n))
    /\ UNCHANGED <<pool, nextId, registry, work, placed>>

(* The slave has done what was asked; its answer is lost, or comes after the *)
(* time of the task is over, or the master restarts and knows only the row.  *)
AnswerLost(j) == \E n \in Nodes :
    /\ Asking(j, n) /\ Asks(j, n)
    /\ \/ Fault("lost") /\ Retry(j, At(j, n))
       \/ Fault("timeout") /\ End(j, At(j, n), "error")
       \/ Fault("crash") /\ UNCHANGED <<row, files>>
    /\ UNCHANGED <<pool, placed>>

(* An administrator suspends a node or resumes it: Upsert.                   *)
Upsert(n) ==
    /\ Fault("upsert")
    /\ pool' = IF n \in pool THEN pool \ {n} ELSE pool \cup {n}
    /\ UNCHANGED <<row, nextId, registry, work, files, placed, displaced>>

-----------------------------------------------------------------------------
Iteration(j) == Request(j) \/ Complete(j) \/ NoneAvailable(j) \/ MasterRefuses(j)
SlaveWorks(w) == w \in Works /\ (SlaveBegins(w) \/ SlaveEnds(w))

Next ==
    \/ \E j \in Jobs : Iteration(j) \/ Unreachable(j) \/ AnswerLost(j)
    \/ \E w \in Ids : SlaveWorks(w)
    \/ \E w \in Works : SlaveFails(w)
    \/ \E n \in Nodes : SlaveRestarts(n) \/ Upsert(n)

(* The queues of both nodes go on.                                           *)
Fairness == /\ \A j \in Jobs : WF_vars(Iteration(j))
            /\ \A w \in Ids : WF_vars(SlaveWorks(w))

Spec == Init /\ [][Next]_vars /\ Fairness

-----------------------------------------------------------------------------
TypeOK ==
    /\ row \in [Jobs -> [status : {"active", "completed", "error"},
                         phase : {"start", "working", "uploading", "complete"},
                         node : Nodes \cup {NoNode}, task : 0 .. MaxWork,
                         zip : 0 .. Len(work), tries : 0 .. MaxRetry]]
    /\ pool \subseteq Nodes /\ displaced \subseteq Jobs
    /\ nextId \in [Nodes -> 0 .. MaxWork]
    /\ registry \in [Nodes -> [Ids -> 0 .. Len(work)]]
    /\ \A w \in Works :
          work[w] \in [job : Jobs, kind : {"compress", "extract", "upload"}, node : Nodes,
                       id : Ids, zip : 0 .. Len(work),
                       status : {"queued", "processing", "completed", "error", "gone"}]
    /\ files \subseteq Works
    /\ placed \subseteq [job : Jobs, zip : Works]
    /\ faults \in 0 .. MaxFaults

(* A job that is completed has had its own archive uploaded, or its own      *)
(* archive extracted, whatever other jobs, failures, retries and crashes did *)
(* in between; only a job whose slave was restarted or replaced while it     *)
(* held the id of a task may have been told of somebody else's (GetTask by   *)
(* an id that starts again at one).                                          *)
Own(j, p) == p.job = j /\ work[p.zip].job = j
CompletedMeansDone ==
    \A j \in Jobs \ displaced :
        row[j].status = "completed" => \E p \in placed : Own(j, p)

(* A job fails only for a cause outside: while nothing but unreachable       *)
(* slaves, and not more often than it is retried, has gone wrong, no answer  *)
(* is missed because a task was cleared too early, and no archive is gone    *)
(* because another job cleaned up.                                           *)
FailureHasCause ==
    (mishaps \subseteq {"unreachable"} /\ faults <= MaxRetry) =>
        \A j \in Jobs : row[j].status # "error"

(* Once every job has ended and nothing went wrong, the slaves hold no       *)
(* archive, and no task but the compressions, which nobody clears.           *)
EndedLeavesNothing ==
    (mishaps = {} /\ \A j \in Jobs : ~Active(j)) =>
        /\ files = {}
        /\ \A n \in Nodes, i \in Ids :
              registry[n][i] # 0 => work[registry[n][i]].kind = "compress"

(* Jobs that share slaves do one another no harm (Get, NextID, Cleanup):     *)
(* both of the above.                                                        *)
HarmlessWithoutFaults == FailureHasCause /\ EndedLeavesNothing

(* Every job ends: an answer that cannot be had any more costs a retry.      *)
JobsEnd == \A j \in Jobs : <>~Active(j)
=============================================================================
