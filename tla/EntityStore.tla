---------------------------- MODULE EntityStore ----------------------------
(* Files, the entities they link to, the storage their owner has used, and   *)
(* the recycling of entities no file links to any more: inventory/file.go,   *)
(* inventory/user.go and tx.go, fs/dbfs/manage.go and upload.go, and         *)
(* manager/recycle.go.  An operation reads the file with its entities, then  *)
(* locks its path, then runs one transaction on what it had read, and adds   *)
(* the storage difference after the commit.  Every entity has size 1.        *)
EXTENDS Integers, FiniteSets, FiniteSetsExt

CONSTANTS Files, Entities,       \* rows that can be created; entities by id
          Ops, None,
          Quota,                 \* max_storage of the owner's group
          Retention,             \* values of the owner's setting to keep old versions
          Calls,                 \* operations that are called
          MaxCalls, MaxFaults    \* bounds of the model

ASSUME StoreAssumption ==
    /\ IsFiniteSet(Files) /\ IsFiniteSet(Ops)
    /\ IsFiniteSet(Entities) /\ Entities \subseteq Nat
    /\ None \notin Files \cup Entities \cup Ops
    /\ Quota \in Nat \ {0} /\ Retention \subseteq BOOLEAN
    /\ Calls \subseteq {"delete", "copy", "unlink", "revert", "create", "update"}
    /\ MaxCalls \in Nat /\ MaxFaults \in Nat

VARIABLES
    file,     \* rows of files with the entities they link to
    entity,   \* rows of entities
    blobs,    \* entities whose blob is in the storage
    used,     \* users.storage
    locks,    \* path of a file -> the operation that holds it, or None
    op,       \* the operations under way
    tasks,    \* explicit recycle tasks in the database, each a set of ids
    worker,   \* the worker of the recycle queue
    born,     \* entities created so far
    mishaps,  \* what happened that the bookkeeping does not survive
    calls, faults

vars == <<file, entity, blobs, used, locks, op, tasks, worker, born, mishaps,
          calls, faults>>
database == <<file, entity, used, born>>
recycling == <<blobs, tasks, worker>>
counters == <<calls, faults>>

(* state: "new" (no row yet), "live" or "gone".                              *)
NoFile == [state |-> "new", entities |-> {}, primary |-> None]
NoRow == [exists |-> FALSE, refs |-> 0, uploading |-> FALSE]
Row(refs, uploading) == [exists |-> TRUE, refs |-> refs, uploading |-> uploading]

(* What an operation has read of its file: its entities, those that are      *)
(* still uploading, and those of them no other file links to.                *)
Read(f) ==
    [live |-> file[f].state = "live",
     entities |-> file[f].entities,
     primary |-> file[f].primary,
     uploading |-> {e \in file[f].entities : entity[e].uploading},
     abandoned |-> {e \in file[f].entities : entity[e].uploading /\ entity[e].refs = 1}]

Nothing == [live |-> FALSE, entities |-> {}, primary |-> None,
            uploading |-> {}, abandoned |-> {}]
Idle == [pc |-> "idle", call |-> None, file |-> None, to |-> None, seen |-> Nothing,
         seenUsed |-> 0, version |-> None, diff |-> 0, stale |-> {}]
Resting == [pc |-> "rest", task |-> {}, batch |-> {}, diff |-> 0]

Live == {f \in Files : file[f].state = "live"}
Rows == {e \in Entities : entity[e].exists}
Stale == {e \in Rows : entity[e].refs <= 0}

Init ==
    /\ \E f \in Files, e \in Entities :
          /\ e = Min(Entities) /\ f = CHOOSE g \in Files : TRUE
          /\ file = [g \in Files |-> IF g = f THEN [state |-> "live", entities |-> {e},
                                                    primary |-> e]
                                     ELSE NoFile]
          /\ entity = [d \in Entities |-> IF d = e THEN Row(1, FALSE) ELSE NoRow]
          /\ blobs = {e} /\ born = {e}
    /\ used = 1
    /\ locks = [f \in Files |-> None]
    /\ op = [o \in Ops |-> Idle]
    /\ tasks = {}
    /\ worker = Resting
    /\ mishaps = {}
    /\ calls = 0
    /\ faults = 0

Fault == faults < MaxFaults /\ faults' = faults + 1
Mishap(what, happens) == mishaps' = IF happens THEN mishaps \cup {what} ELSE mishaps

-----------------------------------------------------------------------------
(* Every operation: read, then lock.                                         *)

At(o, pc) == op[o].pc = pc

(* The file an operation locks: a copy locks only its destination.           *)
Target(o) == IF op[o].call = "copy" THEN op[o].to ELSE op[o].file

(* getFileByPath, before any lock.  The user, with users.storage, was loaded *)
(* when the request came.                                                    *)
Call(o, c, f) ==
    /\ c \in Calls \ {"create"} /\ file[f].state = "live"
    /\ At(o, "idle") /\ calls < MaxCalls
    /\ \E g \in Files, v \in Entities :
          /\ c = "copy" => file[g].state = "new"
          /\ c # "copy" => g = f
          /\ c \in {"unlink", "revert"} => v \in file[f].entities \ {file[f].primary}
          /\ c = "revert" => ~entity[v].uploading
          /\ c \notin {"unlink", "revert"} => v = Min(Entities)
          /\ op' = [op EXCEPT ![o] = [Idle EXCEPT !.pc = "lock", !.call = c, !.file = f,
                                                  !.to = g, !.seen = Read(f),
                                                  !.seenUsed = used, !.version = v]]
    /\ calls' = calls + 1
    /\ UNCHANGED <<database, recycling, locks, mishaps, faults>>

CallCreate(o, f) ==
    /\ "create" \in Calls /\ file[f].state = "new"
    /\ At(o, "idle") /\ calls < MaxCalls
    /\ op' = [op EXCEPT ![o] = [Idle EXCEPT !.pc = "lock", !.call = "create", !.file = f,
                                            !.seenUsed = used]]
    /\ calls' = calls + 1
    /\ UNCHANGED <<database, recycling, locks, mishaps, faults>>

(* acquireByPath: the lock is taken or refused.  ensureConsistency then      *)
(* compares the name, parent, owner and type of the files the database still *)
(* has: what it lets pass is a file that has other entities by now, or that  *)
(* is gone.                                                                  *)
Outdated(o) == op[o].call \notin {"copy", "create"} /\ op[o].seen # Read(op[o].file)

Acquire(o) ==
    /\ At(o, "lock")
    /\ IF locks[Target(o)] = None
       THEN /\ locks' = [locks EXCEPT ![Target(o)] = o]
            /\ op' = [op EXCEPT ![o].pc = "locked"]
            /\ Mishap("outdated", Outdated(o))
       ELSE /\ op' = [op EXCEPT ![o] = Idle]
            /\ UNCHANGED <<locks, mishaps>>
    /\ UNCHANGED <<database, recycling, counters>>

Unlocked(o) == [f \in Files |-> IF locks[f] = o THEN None ELSE locks[f]]

(* The transaction is rolled back; the lock is given up.                     *)
Refuse(o) ==
    /\ op' = [op EXCEPT ![o] = Idle]
    /\ locks' = Unlocked(o)
    /\ UNCHANGED <<database, recycling, mishaps>>

(* Adds n to reference_count of the rows in E; the others are not found.     *)
Refer(E, n) ==
    [e \in Entities |-> IF e \in E \cap Rows THEN [entity[e] EXCEPT !.refs = @ + n]
                        ELSE entity[e]]

Committed(o, diff, stale) ==
    op' = [op EXCEPT ![o].pc = "apply", ![o].diff = diff, ![o].stale = stale]

-----------------------------------------------------------------------------
(* Mutants: the storage difference counts only what became stale; everything *)
(* that was read is queued for recycling.                                    *)
DeleteTxCountsStale(o) ==
    /\ At(o, "locked") /\ op[o].call = "delete"
    /\ LET seen == op[o].seen.entities
           counted == Refer(seen, -1)
           stale == {e \in seen \cap Rows : counted[e].refs <= 0}
       IN  entity' = counted /\ Committed(o, -Cardinality(stale), stale)
    /\ file' = [file EXCEPT ![op[o].file] = [NoFile EXCEPT !.state = "gone"]]
    /\ UNCHANGED <<used, born, recycling, locks, mishaps, counters>>

DeleteTxRecyclesAll(o) ==
    /\ At(o, "locked") /\ op[o].call = "delete"
    /\ LET seen == op[o].seen.entities
       IN  /\ entity' = Refer(seen, -1)
           /\ Committed(o, -Cardinality(seen), seen \cap Rows)
    /\ file' = [file EXCEPT ![op[o].file] = [NoFile EXCEPT !.state = "gone"]]
    /\ UNCHANGED <<used, born, recycling, locks, mishaps, counters>>

(* fileClient.Delete: counts down what was read, and takes what has no       *)
(* reference left for recycling.                                             *)
DeleteTx(o) ==
    /\ At(o, "locked") /\ op[o].call = "delete"
    /\ LET seen == op[o].seen.entities
           counted == Refer(seen, -1)
       IN  /\ entity' = counted
           /\ Committed(o, -Cardinality(seen),
                        {e \in seen \cap Rows : counted[e].refs <= 0})
    /\ file' = [file EXCEPT ![op[o].file] = [NoFile EXCEPT !.state = "gone"]]
    /\ UNCHANGED <<used, born, recycling, locks, mishaps, counters>>

(* Adds one reference for each entity linked; the mutant counts nothing.     *)
Uncounted(E) == entity
LinkedOnce(E) == Refer(E, 1)

(* copyFiles and fileClient.Copy: the capacity is what the request had       *)
(* loaded; the source is not locked; the entities are linked as they were    *)
(* read, those still uploading left out.                                     *)
CopyTx(o) ==
    /\ At(o, "locked") /\ op[o].call = "copy"
    /\ LET seen == op[o].seen
           linked == seen.entities \ seen.uploading
       IN  IF /\ file[op[o].to].state = "new"
              /\ op[o].seenUsed + Cardinality(seen.entities) <= Quota
           THEN /\ file' = [file EXCEPT ![op[o].to] =
                               [state |-> "live", entities |-> linked \cap Rows,
                                primary |-> seen.primary]]
                /\ entity' = LinkedOnce(linked)
                /\ Committed(o, Cardinality(linked), {})
                /\ mishaps' = mishaps \cup {"copied"} \cup
                               (IF linked \subseteq Rows \ Stale THEN {} ELSE {"resurrected"})
                /\ UNCHANGED <<used, born, recycling, locks>>
           ELSE Refuse(o)
    /\ UNCHANGED counters

(* deleteEntity: not in a transaction.                                       *)
UnlinkTx(o) ==
    /\ At(o, "locked") /\ op[o].call = "unlink"
    /\ LET v == op[o].version IN
       IF v \in Rows
       THEN /\ entity' = Refer({v}, -1)
            /\ file' = [file EXCEPT ![op[o].file].entities = @ \ {v}]
            /\ Committed(o, -1, {})
            /\ UNCHANGED <<used, born, recycling, locks, mishaps>>
       ELSE Refuse(o)
    /\ UNCHANGED counters

(* setCurrentVersion, of a version that was read.                            *)
RevertTx(o) ==
    /\ At(o, "locked") /\ op[o].call = "revert"
    /\ IF file[op[o].file].state = "live"
       THEN /\ file' = [file EXCEPT ![op[o].file].primary = op[o].version]
            /\ Committed(o, 0, {})
            /\ UNCHANGED <<entity, used, born, recycling, locks, mishaps>>
       ELSE Refuse(o)
    /\ UNCHANGED counters

(* PrepareUpload: the storage is reserved first, in the transaction.  An     *)
(* update unlinks the placeholders of abandoned uploads it had read.         *)
ReservedAsSeen(o) == op[o].seenUsed + 1 <= Quota  \* mutant: what the request had loaded
Reserved(o) == used + 1 <= Quota

(* The row of the new entity.                                                *)
Insert(f, e, rest) ==
    /\ file' = [file EXCEPT ![f].state = "live", ![f].entities = (@ \ rest) \cup {e}]
    /\ entity' = [Refer(rest, -1) EXCEPT ![e] = Row(1, TRUE)]
    /\ born' = born \cup {e}

PrepareTx(o) ==
    /\ At(o, "locked") /\ op[o].call \in {"create", "update"}
    /\ LET f == op[o].file
           rest == op[o].seen.abandoned
           fresh == Entities \ born
       IN  IF /\ Reserved(o)
              /\ file[f].state = IF op[o].call = "create" THEN "new" ELSE "live"
              /\ fresh # {}
           THEN LET e == Min(fresh) IN
                /\ Insert(f, e, rest)
                /\ used' = used + 1
                /\ op' = [op EXCEPT ![o].pc = "upload", ![o].version = e,
                                    ![o].diff = -Cardinality(rest)]
                /\ UNCHANGED <<recycling, locks, mishaps>>
           ELSE Refuse(o)
    /\ UNCHANGED counters

(* The difference of the preparation is added, then the chunks arrive.       *)
UploadBlob(o) ==
    /\ At(o, "upload")
    /\ used' = used + op[o].diff
    /\ blobs' = blobs \cup {op[o].version}
    /\ op' = [op EXCEPT ![o].pc = "complete", ![o].diff = 0]
    /\ UNCHANGED <<file, entity, born, tasks, worker, locks, mishaps, counters>>

(* CompleteUpload, under the lock of the session: UpgradePlaceholder, and    *)
(* CapEntities, which keeps the newest version or all of them, as the owner  *)
(* has it set by then.                                                       *)
CompleteTx(o) ==
    /\ At(o, "complete")
    /\ \E keeps \in Retention :
          LET f == op[o].file
              e == op[o].version
              capped == IF keeps THEN {} ELSE file[f].entities \ {e}
          IN  /\ entity' = [Refer(capped, -1) EXCEPT ![e].uploading = FALSE]
              /\ file' = [file EXCEPT ![f].entities = @ \ capped, ![f].primary = e]
              /\ Committed(o, -Cardinality(capped), {})
    /\ UNCHANGED <<used, born, recycling, locks, mishaps, counters>>

(* The session runs out: the lock is free, the placeholder stays.            *)
AbandonUpload(o) ==
    /\ At(o, "complete")
    /\ op' = [op EXCEPT ![o] = Idle]
    /\ locks' = Unlocked(o)
    /\ UNCHANGED <<database, recycling, mishaps, counters>>

-----------------------------------------------------------------------------
(* CommitWithStorageDiff, after the commit; then the lock is released.       *)
ApplyStorageDiff(o) ==
    /\ At(o, "apply")
    /\ used' = used + op[o].diff
    /\ locks' = Unlocked(o)
    /\ op' = [op EXCEPT ![o] = IF op[o].stale = {} THEN Idle
                               ELSE [Idle EXCEPT !.pc = "queue", !.stale = op[o].stale]]
    /\ UNCHANGED <<file, entity, born, recycling, mishaps, counters>>

(* A failure is only logged.                                                 *)
ApplyFails(o) ==
    /\ At(o, "apply") /\ Fault
    /\ locks' = Unlocked(o)
    /\ op' = [op EXCEPT ![o] = IF op[o].stale = {} THEN Idle
                               ELSE [Idle EXCEPT !.pc = "queue", !.stale = op[o].stale]]
    /\ Mishap("unapplied", op[o].diff # 0)
    /\ UNCHANGED <<database, recycling, calls>>

(* manager.Delete queues an explicit task for the entities it made stale.    *)
QueueRecycling(o) ==
    /\ At(o, "queue")
    /\ tasks' = tasks \cup {op[o].stale}
    /\ op' = [op EXCEPT ![o] = Idle]
    /\ UNCHANGED <<database, blobs, worker, locks, mishaps, counters>>

-----------------------------------------------------------------------------
(* RecycleEntities.  StaleEntities returns the rows of the ids it is given,  *)
(* or, for the routine task, the rows without a reference.                   *)
TakeExplicit ==
    /\ worker.pc = "rest"
    /\ \E t \in tasks :
          worker' = [Resting EXCEPT !.pc = "delete", !.task = t, !.batch = t \cap Rows]
    /\ UNCHANGED <<database, blobs, tasks, locks, op, mishaps, counters>>

(* Mutant: the placeholders of abandoned uploads are passed over.            *)
TakeRoutineUploaded ==
    /\ worker.pc = "rest" /\ \E e \in Stale : ~entity[e].uploading
    /\ worker' = [Resting EXCEPT !.pc = "delete",
                                 !.batch = {e \in Stale : ~entity[e].uploading}]
    /\ UNCHANGED <<database, blobs, tasks, locks, op, mishaps, counters>>

TakeRoutine ==
    /\ worker.pc = "rest" /\ Stale # {}
    /\ worker' = [Resting EXCEPT !.pc = "delete", !.batch = Stale]
    /\ UNCHANGED <<database, blobs, tasks, locks, op, mishaps, counters>>

(* The driver reports the blobs it could not delete.                         *)
DeleteBlobs ==
    /\ worker.pc = "delete"
    /\ \E failed \in SUBSET worker.batch :
          /\ IF failed = {} THEN UNCHANGED faults ELSE Fault
          /\ blobs' = blobs \ (worker.batch \ failed)
          /\ worker' = [worker EXCEPT !.pc = "remove", !.batch = @ \ failed]
    /\ UNCHANGED <<database, tasks, locks, op, mishaps, calls>>

(* RemoveEntitiesByID: the storage of the owner is reduced for the files     *)
(* that still link to the entity, whose links go with the row.               *)
RemoveRows ==
    /\ worker.pc = "remove"
    /\ LET gone == worker.batch
           counted == {e \in gone : entity[e].exists /\ entity[e].refs > 0}
       IN  /\ entity' = [e \in Entities |-> IF e \in gone THEN NoRow ELSE entity[e]]
           /\ file' = [f \in Files |-> [file[f] EXCEPT !.entities = @ \ gone]]
           /\ worker' = [worker EXCEPT
                 !.pc = "apply",
                 !.diff = -Cardinality({p \in Files \X counted :
                                           p[2] \in file[p[1]].entities})]
    /\ UNCHANGED <<used, born, blobs, tasks, locks, op, mishaps, counters>>

(* The task ends.  One that met errors is not tried again: Do returns the    *)
(* error of marshalling its state in place of the one that it met.           *)
EndTask ==
    /\ worker.pc = "apply"
    /\ used' = used + worker.diff
    /\ tasks' = tasks \ {worker.task}
    /\ worker' = Resting
    /\ UNCHANGED <<file, entity, born, blobs, locks, op, mishaps, counters>>

-----------------------------------------------------------------------------
(* The process stops and starts again: locks and whatever was under way are  *)
(* gone, the tasks of the recycle queue are resumed.                         *)
Restart ==
    /\ Fault
    /\ locks' = [f \in Files |-> None]
    /\ op' = [o \in Ops |-> Idle]
    /\ worker' = Resting
    /\ Mishap("unapplied", worker.diff # 0 \/ \E o \in Ops : op[o].diff # 0)
    /\ UNCHANGED <<database, blobs, tasks, calls>>

-----------------------------------------------------------------------------
Transaction(o) ==
    \/ DeleteTx(o) \/ CopyTx(o) \/ UnlinkTx(o) \/ RevertTx(o)
    \/ PrepareTx(o) \/ UploadBlob(o) \/ CompleteTx(o) \/ AbandonUpload(o)

Operation(o) ==
    \/ \E f \in Files : (\E c \in Calls : Call(o, c, f)) \/ CallCreate(o, f)
    \/ Acquire(o)
    \/ Transaction(o)
    \/ ApplyStorageDiff(o) \/ ApplyFails(o) \/ QueueRecycling(o)

Recycle == TakeExplicit \/ TakeRoutine \/ DeleteBlobs \/ RemoveRows \/ EndTask

Next == (\E o \in Ops : Operation(o)) \/ Recycle \/ Restart

(* The worker runs, and the routine task is queued every 15 minutes.         *)
Fairness ==
    /\ WF_vars(TakeExplicit) /\ WF_vars(TakeRoutine)
    /\ WF_vars(DeleteBlobs \/ RemoveRows \/ EndTask)

Spec == Init /\ [][Next]_vars /\ Fairness

-----------------------------------------------------------------------------
TypeOK ==
    /\ \A f \in Files :
          /\ file[f].state \in {"new", "live", "gone"}
          /\ file[f].entities \subseteq Entities
          /\ file[f].primary \in Entities \cup {None}
    /\ entity \in [Entities -> [exists : BOOLEAN, refs : Int, uploading : BOOLEAN]]
    /\ blobs \subseteq born /\ born \subseteq Entities
    /\ used \in Int
    /\ locks \in [Files -> Ops \cup {None}]
    /\ \A o \in Ops :
          /\ op[o].pc \in {"idle", "lock", "locked", "upload", "complete", "apply", "queue"}
          /\ op[o].stale \subseteq Entities /\ op[o].diff \in Int
    /\ tasks \subseteq SUBSET Entities
    /\ worker.pc \in {"rest", "delete", "remove", "apply"}
    /\ worker.batch \subseteq Entities
    /\ mishaps \subseteq {"outdated", "copied", "resurrected", "unapplied"}
    /\ calls \in 0 .. MaxCalls /\ faults \in 0 .. MaxFaults

Linking(e) == {f \in Live : e \in file[f].entities}
Linked == Cardinality({p \in Live \X Entities : p[2] \in file[p[1]].entities})
Owed == [o \in Ops |-> op[o].diff]
Pending == MapThenSumSet(LAMBDA o : Owed[o], Ops) + worker.diff

(* The count of references is the number of files that link to the entity,   *)
(* whatever is copied, deleted, unlinked, uploaded and recycled at the same  *)
(* time, unless an operation went on with a file it had read before another  *)
(* one changed it.                                                           *)
RefsCountLinks ==
    "outdated" \notin mishaps =>
        \A e \in Rows : entity[e].refs = Cardinality(Linking(e))

(* The storage of the owner is the size of what his files link to, plus what *)
(* committed transactions have yet to add.                                   *)
UsedIsLinked == mishaps \subseteq {"copied"} => used + Pending = Linked

(* A file's versions have their rows and, once uploaded, their blobs, and    *)
(* the current one is among them: recycling takes nothing a file needs,      *)
(* unless a copy linked an entity that had no reference any more.            *)
VersionsKept ==
    mishaps \cap {"outdated", "resurrected"} = {} =>
        \A f \in Live :
            /\ file[f].entities \subseteq Rows
            /\ \A e \in file[f].entities : entity[e].uploading \/ e \in blobs
            /\ file[f].primary \in file[f].entities \cup {None}

(* Uploads that run at once never take more than the quota together: the     *)
(* reservation is the check (Tx.ReserveStorage).  A copy has no reservation. *)
UploadsWithinQuota ==
    mishaps = {} => Linked <= Quota

(* An entity that has lost its last reference is removed in the end, though  *)
(* a driver fails, the process restarts or its explicit task is lost, unless *)
(* it is linked again.                                                       *)
StaleRecycled == \A e \in Entities : e \in Stale ~> e \notin Stale

(* Comment: "StaleEntities returns all stale entities of given IDs"          *)
(* (fs/fs.go:58).                                                            *)
ExplicitIsStale == [][TakeExplicit => worker'.batch \subseteq Stale]_vars

(* Comment: "This is to make sure there's no modification between            *)
(* navigator's first query and lock acquisition" (fs/dbfs/lock.go:228-229).   *)
UnmodifiedWhenLocked ==
    [][\A o \in Ops : Acquire(o) /\ op'[o].pc = "locked" => ~Outdated(o)]_vars
=============================================================================
