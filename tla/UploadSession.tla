--------------------------- MODULE UploadSession ---------------------------
(* One chunked upload through this server: pkg/filemanager/manager/upload.go,*)
(* fs/dbfs/upload.go and service/explorer/upload.go.  The session lives in   *)
(* the key-value store, the lock of its path in the lock system of this      *)
(* process (its token is in the session), a mutex for its progress in a map  *)
(* of the process, and the placeholder entity in the database.  Each         *)
(* request of the client is a handler; a step ends where the handler lets    *)
(* another one see or change shared state.                                   *)
EXTENDS Naturals, FiniteSets

CONSTANTS Chunks, Handlers, None,
          Retention,                          \* values of the setting to keep old versions
          MaxRequests, MaxMutexes, MaxFaults  \* bounds of the model

ASSUME UploadAssumption ==
    /\ Chunks # {} /\ Chunks \subseteq Nat /\ IsFiniteSet(Chunks)
    /\ None \notin Handlers /\ None \notin Chunks /\ None \notin {"old", "new"}
    /\ Retention \subseteq BOOLEAN
    /\ MaxRequests \in Nat /\ MaxMutexes \in Nat /\ MaxFaults \in Nat

(* No session and a session without chunks are told apart.                   *)
ASSUME NoSessionAssumption == \A received \in SUBSET Chunks : received # None

VARIABLES
    kv,        \* None, or the chunks the session in the store has received
    lock,      \* lock of the path: "free", "session", "held" (confirmed) or "cancel"
    file,      \* the file, its entities and the state of the new one
    disk,      \* chunks whole in the new entity's blob
    map,       \* the session's entry of uploadSessionLocks, NoMutex: none
    owner,     \* mutex -> the handler that holds it, or None
    h,         \* the handlers of chunks
    creator,   \* the request that creates the session
    canceller, \* the request that cancels it
    acked,     \* chunks answered with success
    claims,    \* handlers that were told to complete the upload
    spoilt,    \* what happened that may keep a complete upload from ending well
    expired, requests, faults

vars == <<kv, lock, file, disk, map, owner, h, creator, canceller, acked,
          claims, spoilt, expired, requests, faults>>
counters == <<expired, requests, faults>>
progress == <<acked, claims>>

NoMutex == 0
Mutexes == 1 .. MaxMutexes
Entities == {"old", "new"}

(* exists; entities that are linked to it; files.primary_entity; whether     *)
(* upload_session_id of the new entity is set.                               *)
NewFile == [exists |-> FALSE, entities |-> {}, primary |-> None, placeholder |-> FALSE]
OldFile == [NewFile EXCEPT !.exists = TRUE, !.entities = {"old"}, !.primary = "old"]
Prepared(f) == [f EXCEPT !.exists = TRUE, !.entities = @ \cup {"new"},
                         !.placeholder = TRUE]

IdleHandler == [pc |-> "idle", chunk |-> None, seen |-> NewFile, mutex |-> NoMutex,
                got |-> {}]

Init ==
    /\ kv = None
    /\ lock = "free"
    /\ file \in {NewFile, OldFile}
    /\ disk = {}
    /\ map = NoMutex
    /\ owner = [m \in Mutexes |-> None]
    /\ h = [r \in Handlers |-> IdleHandler]
    /\ creator = "start"
    /\ canceller = [pc |-> "start", seen |-> NewFile, confirmed |-> FALSE]
    /\ acked = {}
    /\ claims = 0
    /\ spoilt = {}
    /\ expired = FALSE
    /\ requests = 0
    /\ faults = 0

Fault == faults < MaxFaults /\ faults' = faults + 1
Spoil(why) == spoilt' = spoilt \cup {why}

-----------------------------------------------------------------------------
(* CreateUploadSession.                                                      *)

(* PrepareUpload: one transaction under the lock of the path, which is kept. *)
Prepare ==
    /\ creator = "start" /\ lock = "free"
    /\ creator' = "prepared"
    /\ lock' = "session"
    /\ file' = Prepared(file)
    /\ UNCHANGED <<kv, disk, map, owner, h, canceller, progress, spoilt, counters>>

(* Once the lock is out of the session, the metadata cannot be written or    *)
(* the transaction not be committed: nobody knows the lock's token any more. *)
PrepareFails ==
    /\ creator = "start" /\ lock = "free" /\ Fault
    /\ creator' = "failed"
    /\ lock' = "session"
    /\ Spoil("prepare")
    /\ UNCHANGED <<kv, file, disk, map, owner, h, canceller, progress, expired, requests>>

(* Mutant: the first chunk of the file is taken for received.                *)
StoreSessionFromZero ==
    /\ creator = "prepared"
    /\ creator' = "created"
    /\ kv' = {0}
    /\ UNCHANGED <<lock, file, disk, map, owner, h, canceller, progress, spoilt, counters>>

(* The driver's token, then the session is stored.                           *)
StoreSession ==
    /\ creator = "prepared"
    /\ creator' = "created"
    /\ kv' = {}
    /\ UNCHANGED <<lock, file, disk, map, owner, h, canceller, progress, spoilt, counters>>

(* Mutant: what was prepared is removed, the lock stays.                     *)
CreateFailsLocked ==
    /\ creator = "prepared" /\ Fault
    /\ creator' = "unlocked"
    /\ UNCHANGED <<kv, lock, file, disk, map, owner, h, canceller, progress, spoilt,
                   expired, requests>>

(* Either fails: OnUploadFailed unlocks first and then removes what was      *)
(* prepared.                                                                 *)
CreateFails ==
    /\ creator = "prepared" /\ Fault
    /\ creator' = "unlocked"
    /\ lock' = "free"
    /\ UNCHANGED <<kv, file, disk, map, owner, h, canceller, progress, spoilt,
                   expired, requests>>

RemovePrepared ==
    /\ creator = "unlocked"
    /\ creator' = "failed"
    /\ file' = IF file.primary = None THEN NewFile ELSE OldFile
    /\ map' = NoMutex
    /\ UNCHANGED <<kv, lock, disk, owner, h, canceller, progress, spoilt, counters>>

-----------------------------------------------------------------------------
(* A chunk: LocalUpload and processChunkUpload.                              *)

At(r, pc) == h[r].pc = pc
Go(r, pc) == h' = [h EXCEPT ![r].pc = pc]
Fail(r) == h' = [h EXCEPT ![r] = IdleHandler]

(* The client sends any chunk that was not acknowledged, or one again whose  *)
(* answer it missed.  The handler finds the session, or refuses.             *)
GetSession(r, c) ==
    /\ creator = "created"
    /\ requests < MaxRequests
    /\ requests' = requests + 1
    /\ At(r, "idle")
    /\ kv # None
    /\ h' = [h EXCEPT ![r] = [IdleHandler EXCEPT !.pc = "confirm", !.chunk = c]]
    /\ UNCHANGED <<kv, lock, file, disk, map, owner, creator, canceller, progress,
                   spoilt, expired, faults>>

(* ConfirmUploadSession: the file is read, its lock confirmed and, when the  *)
(* chunk is found valid, let go.  Confirm refuses a lock that another        *)
(* handler holds.                                                            *)
ConfirmUploadSession(r) ==
    /\ At(r, "confirm")
    /\ IF file.exists /\ lock = "session"
       THEN lock' = "held" /\ Go(r, "held")
       ELSE UNCHANGED lock /\ Fail(r)
    /\ UNCHANGED <<kv, file, disk, map, owner, creator, canceller, progress,
                   spoilt, counters>>

Unheld == IF expired THEN "free" ELSE "session"

ReleaseLock(r) ==
    /\ At(r, "held")
    /\ lock' = Unheld
    /\ Go(r, "write")
    /\ UNCHANGED <<kv, file, disk, map, owner, creator, canceller, progress,
                   spoilt, counters>>

(* Put seeks to the chunk's offset, which the blob must already reach, and   *)
(* copies the body over what is there.                                       *)
Put(r) ==
    /\ At(r, "write")
    /\ \A c \in Chunks : c < h[r].chunk => c \in disk
    /\ disk' = disk \cup {h[r].chunk}
    /\ Go(r, "mark")
    /\ UNCHANGED <<kv, lock, file, map, owner, creator, canceller, progress,
                   spoilt, counters>>

(* The body ends early, or the offset is beyond the end of the blob.         *)
PutFails(r) ==
    /\ At(r, "write")
    /\ Fail(r)
    /\ UNCHANGED <<kv, lock, file, disk, map, owner, creator, canceller, progress,
                   spoilt, counters>>

(* MarkChunkUploaded.  lockUploadSession makes the entry if there is none;   *)
(* the handler then waits for the mutex it got, in the map or not any more.  *)
FetchMutex(r) ==
    /\ At(r, "mark")
    /\ \E m \in Mutexes :
          /\ IF map # NoMutex THEN m = map
             ELSE /\ owner[m] = None /\ \A s \in Handlers : h[s].mutex # m
                  /\ \A n \in Mutexes : n < m =>
                        owner[n] # None \/ \E s \in Handlers : h[s].mutex = n
          /\ map' = m
          /\ h' = [h EXCEPT ![r].pc = "wait", ![r].mutex = m]
    /\ UNCHANGED <<kv, lock, file, disk, owner, creator, canceller, progress,
                   spoilt, counters>>

(* Mutants: nobody waits for the mutex; the mutex of a session that is gone  *)
(* stays locked.                                                             *)
LoadProgressUnlocked(r) ==
    /\ At(r, "wait") /\ kv # None
    /\ h' = [h EXCEPT ![r].pc = "save", ![r].got = kv]
    /\ UNCHANGED <<kv, lock, file, disk, map, owner, creator, canceller, progress,
                   spoilt, counters>>

LoadProgressKeeping(r) ==
    /\ At(r, "wait") /\ owner[h[r].mutex] = None
    /\ owner' = [owner EXCEPT ![h[r].mutex] = r]
    /\ IF kv = None
       THEN Fail(r) /\ acked' = acked \cup {h[r].chunk}
       ELSE h' = [h EXCEPT ![r].pc = "save", ![r].got = kv] /\ UNCHANGED acked
    /\ UNCHANGED <<kv, lock, file, disk, map, creator, canceller, claims, spoilt, counters>>

LoadProgress(r) ==
    /\ At(r, "wait") /\ owner[h[r].mutex] = None
    /\ IF kv = None
       THEN \* completed or cancelled elsewhere: the chunk is answered with success
            /\ h' = [h EXCEPT ![r] = IdleHandler]
            /\ acked' = acked \cup {h[r].chunk}
            /\ UNCHANGED owner
       ELSE /\ h' = [h EXCEPT ![r].pc = "save", ![r].got = kv]
            /\ owner' = [owner EXCEPT ![h[r].mutex] = r]
            /\ UNCHANGED acked
    /\ UNCHANGED <<kv, lock, file, disk, map, creator, canceller, claims, spoilt, counters>>

(* Mutant: the number of chunks is rounded down, not up.                     *)
SaveProgressRoundedDown(r) ==
    /\ At(r, "save")
    /\ LET got == h[r].got \cup {h[r].chunk}
           last == Cardinality(got) = Cardinality(Chunks) - 1
       IN  /\ kv' = got
           /\ IF last
              THEN h' = [h EXCEPT ![r].pc = "read", ![r].got = {}, ![r].mutex = NoMutex]
                   /\ claims' = claims + 1 /\ UNCHANGED acked
              ELSE Fail(r) /\ acked' = acked \cup {h[r].chunk} /\ UNCHANGED claims
    /\ owner' = [owner EXCEPT ![h[r].mutex] = None]
    /\ UNCHANGED <<lock, file, disk, map, creator, canceller, spoilt, counters>>

(* The progress is written back, whether or not the session is still there.  *)
SaveProgress(r) ==
    /\ At(r, "save")
    /\ LET got == h[r].got \cup {h[r].chunk}
           last == h[r].got # Chunks /\ got = Chunks
       IN  /\ kv' = got
           /\ IF last
              THEN h' = [h EXCEPT ![r].pc = "read", ![r].got = {}, ![r].mutex = NoMutex]
                   /\ claims' = claims + 1 /\ UNCHANGED acked
              ELSE Fail(r) /\ acked' = acked \cup {h[r].chunk} /\ UNCHANGED claims
    /\ owner' = [owner EXCEPT ![h[r].mutex] = None]
    /\ UNCHANGED <<lock, file, disk, map, creator, canceller, spoilt, counters>>

(* Writing it back fails (Redis): the chunk is answered with an error.       *)
SaveProgressFails(r) ==
    /\ At(r, "save") /\ Fault
    /\ Fail(r)
    /\ owner' = [owner EXCEPT ![h[r].mutex] = None]
    /\ UNCHANGED <<kv, lock, file, disk, map, creator, canceller, progress, spoilt,
                   expired, requests>>

-----------------------------------------------------------------------------
(* CompleteUpload, by the handler that received the last chunk.              *)

CompletionFails(r) == Fail(r) /\ Spoil("completion")

ReadPlaceholder(r) ==
    /\ At(r, "read")
    /\ IF file.exists
       THEN h' = [h EXCEPT ![r].pc = "relock", ![r].seen = file] /\ UNCHANGED spoilt
       ELSE CompletionFails(r)
    /\ UNCHANGED <<kv, lock, file, disk, map, owner, creator, canceller, progress, counters>>

(* The lock is confirmed and let go at once: it stays the session's.         *)
ConfirmPlaceholder(r) ==
    /\ At(r, "relock")
    /\ IF lock = "session" THEN Go(r, "commit") /\ UNCHANGED spoilt ELSE CompletionFails(r)
    /\ UNCHANGED <<kv, lock, file, disk, map, owner, creator, canceller, progress, counters>>

(* UpgradePlaceholder and CapEntities work on the entities as they were read *)
(* before the lock was confirmed.                                            *)
Upgraded(seen, keeps) ==
    [file EXCEPT !.placeholder = FALSE, !.primary = "new",
                 !.entities = IF keeps THEN @ ELSE @ \ (seen.entities \ {"new"})]

Commit(r) ==
    /\ At(r, "commit")
    /\ IF file.exists /\ "new" \in h[r].seen.entities
       THEN /\ \E keeps \in Retention : file' = Upgraded(h[r].seen, keeps)
            /\ Go(r, "unlock") /\ UNCHANGED spoilt
       ELSE CompletionFails(r) /\ UNCHANGED file
    /\ UNCHANGED <<kv, lock, disk, map, owner, creator, canceller, progress, counters>>

CommitFails(r) ==
    /\ At(r, "commit") /\ Fault
    /\ CompletionFails(r)
    /\ UNCHANGED <<kv, lock, file, disk, map, owner, creator, canceller, progress,
                   expired, requests>>

(* Unlock refuses a lock that a handler has confirmed; the session and the   *)
(* lock then stay, although the file is complete.                            *)
UnlockCompleted(r) ==
    /\ At(r, "unlock")
    /\ IF lock = "session"
       THEN lock' = "free" /\ Go(r, "forget") /\ UNCHANGED spoilt
       ELSE UNCHANGED lock /\ Fail(r) /\ Spoil("unlock")
    /\ UNCHANGED <<kv, file, disk, map, owner, creator, canceller, progress, counters>>

DeleteSession(r) ==
    /\ At(r, "forget")
    /\ kv' = None
    /\ Go(r, "drop")
    /\ UNCHANGED <<lock, file, disk, map, owner, creator, canceller, progress,
                   spoilt, counters>>

DropMutex(r) ==
    /\ At(r, "drop")
    /\ map' = NoMutex
    /\ acked' = acked \cup {h[r].chunk}
    /\ Fail(r)
    /\ UNCHANGED <<kv, lock, file, disk, owner, creator, canceller, claims, spoilt, counters>>

-----------------------------------------------------------------------------
(* CancelUploadSession.                                                      *)

CancelAt(pc) == canceller.pc = pc
CancelTo(pc) == canceller' = [canceller EXCEPT !.pc = pc]

(* The session is found and the file read with its entities.                 *)
ReadToCancel ==
    /\ CancelAt("start") /\ creator = "created"
    /\ kv # None /\ file.exists
    /\ canceller' = [canceller EXCEPT !.pc = "confirm", !.seen = file]
    /\ UNCHANGED <<kv, lock, file, disk, map, owner, h, creator, progress, spoilt, counters>>

(* A lock that is confirmed and let go is the cancelling request's as well;  *)
(* if Confirm refuses, a lock is asked for, which clashes with a held one.   *)
LockToCancel ==
    /\ CancelAt("confirm")
    /\ CASE lock = "session" ->
              UNCHANGED lock /\ canceller' = [canceller EXCEPT !.pc = "check",
                                                               !.confirmed = TRUE]
         [] lock = "free" -> lock' = "cancel" /\ CancelTo("check")
         [] OTHER -> UNCHANGED lock /\ CancelTo("start")
    /\ UNCHANGED <<kv, file, disk, map, owner, h, creator, progress, spoilt, counters>>

(* The request gives up its own lock when it returns.                        *)
Relinquish == lock' = IF lock = "cancel" THEN "free" ELSE lock

(* The placeholder is looked for among the entities that were read.          *)
CheckPlaceholder ==
    /\ CancelAt("check")
    /\ IF canceller.seen.placeholder
       THEN CancelTo("delete") /\ UNCHANGED lock
       ELSE CancelTo("start") /\ Relinquish
    /\ UNCHANGED <<kv, file, disk, map, owner, h, creator, progress, spoilt, counters>>

(* With no other entity the file is deleted; otherwise the new entity is     *)
(* unlinked from it.                                                         *)
DeletePlaceholder ==
    /\ CancelAt("delete")
    /\ file' = IF canceller.seen.entities = {"new"} THEN NewFile
               ELSE [file EXCEPT !.entities = @ \ {"new"}]
    /\ CancelTo("unlock")
    /\ UNCHANGED <<kv, lock, disk, map, owner, h, creator, progress, spoilt, counters>>

(* A failed Unlock is only logged.                                           *)
UnlockCancelled ==
    /\ CancelAt("unlock")
    /\ lock' = IF lock \in {"session", "cancel"} THEN "free" ELSE lock
    /\ spoilt' = IF lock = "held" THEN spoilt \cup {"unlock"} ELSE spoilt
    /\ CancelTo("forget")
    /\ UNCHANGED <<kv, file, disk, map, owner, h, creator, progress, counters>>

ForgetCancelled ==
    /\ CancelAt("forget")
    /\ kv' = None
    /\ CancelTo("drop")
    /\ UNCHANGED <<lock, file, disk, map, owner, h, creator, progress, spoilt, counters>>

DropCancelled ==
    /\ CancelAt("drop")
    /\ map' = NoMutex
    /\ CancelTo("done")
    /\ Spoil("cancelled")
    /\ UNCHANGED <<kv, lock, file, disk, owner, h, creator, progress, counters>>

-----------------------------------------------------------------------------
(* The time of the session is over: the store and the lock system forget it. *)
(* Progress that is saved later lives for a second more.                     *)
Expire ==
    /\ creator \in {"created", "failed"}
    /\ kv # None \/ lock = "session"
    /\ kv' = None
    /\ expired' = TRUE
    /\ lock' = IF lock = "session" THEN "free" ELSE lock
    /\ UNCHANGED <<file, disk, map, owner, h, creator, canceller, progress, spoilt,
                   requests, faults>>

(* The store is in memory, or a Redis server that survives the process.      *)
Restart ==
    /\ creator = "created" /\ Fault
    /\ kv' \in {kv, None}
    /\ lock' = "free"
    /\ map' = NoMutex
    /\ owner' = [m \in Mutexes |-> None]
    /\ h' = [r \in Handlers |-> IdleHandler]
    /\ CancelTo("start")
    /\ Spoil("restart")
    /\ UNCHANGED <<file, disk, creator, progress, expired, requests>>

-----------------------------------------------------------------------------
Chunk(r) ==
    \/ ConfirmUploadSession(r) \/ ReleaseLock(r)
    \/ Put(r) \/ PutFails(r)
    \/ FetchMutex(r) \/ LoadProgress(r) \/ SaveProgress(r) \/ SaveProgressFails(r)

Complete(r) ==
    \/ ReadPlaceholder(r) \/ ConfirmPlaceholder(r)
    \/ Commit(r) \/ CommitFails(r)
    \/ UnlockCompleted(r) \/ DeleteSession(r) \/ DropMutex(r)

Cancel ==
    \/ ReadToCancel \/ LockToCancel \/ CheckPlaceholder \/ DeletePlaceholder
    \/ UnlockCancelled \/ ForgetCancelled \/ DropCancelled

Next ==
    \/ Prepare \/ PrepareFails \/ StoreSession \/ CreateFails \/ RemovePrepared
    \/ \E r \in Handlers :
          (\E c \in Chunks : GetSession(r, c)) \/ Chunk(r) \/ Complete(r)
    \/ Cancel
    \/ Expire \/ Restart

(* The process schedules its requests.                                       *)
Fairness == \A r \in Handlers : WF_vars(Chunk(r) \/ Complete(r))

Spec == Init /\ [][Next]_vars /\ Fairness

-----------------------------------------------------------------------------
TypeOK ==
    /\ kv \in (SUBSET Chunks) \cup {None}
    /\ lock \in {"free", "session", "held", "cancel"}
    /\ file.entities \subseteq Entities /\ file.primary \in Entities \cup {None}
    /\ disk \subseteq Chunks /\ acked \subseteq Chunks
    /\ map \in {NoMutex} \cup Mutexes
    /\ owner \in [Mutexes -> Handlers \cup {None}]
    /\ \A r \in Handlers :
          /\ h[r].pc \in {"idle", "confirm", "held", "write", "mark", "wait", "save",
                          "read", "relock", "commit", "unlock", "forget", "drop"}
          /\ h[r].chunk \in Chunks \cup {None} /\ h[r].got \subseteq Chunks
          /\ h[r].mutex \in {NoMutex} \cup Mutexes
    /\ creator \in {"start", "prepared", "created", "unlocked", "failed"}
    /\ canceller.pc \in {"start", "confirm", "check", "delete", "unlock", "forget",
                         "drop", "done"}
    /\ spoilt \subseteq {"prepare", "completion", "unlock", "restart", "cancelled"}
    /\ claims \in Nat /\ requests \in 0 .. MaxRequests
    /\ faults \in 0 .. MaxFaults

Quiet == /\ \A r \in Handlers : At(r, "idle")
         /\ canceller.pc \in {"start", "done"}

(* However chunks are retried and whatever fails, at most one request is     *)
(* ever told to complete the upload, also when CompleteUpload throws away    *)
(* the mutex that others wait for and a late save brings the session back    *)
(* (MarkChunkUploaded); unless a cancellation has thrown it away.            *)
OneCompletion == "cancelled" \notin spoilt => claims <= 1

(* Comment: "Only the caller that transitioned the tracker from incomplete   *)
(* to complete is allowed to trigger CompleteUpload" (upload.go:304).        *)
ClaimedOnce == claims <= 1

(* A file that was completed holds every chunk, however its chunks were      *)
(* retried, refused and counted by requests that overlap (processChunkUpload,*)
(* MarkChunkUploaded).                                                       *)
WholeWhenComplete == file.primary = "new" => disk = Chunks

(* When every chunk has been acknowledged and nothing runs any more, the     *)
(* upload is complete, unless it was cancelled, its time ran out, the        *)
(* process restarted or the one completion it gets failed.                   *)
AckedMeansComplete ==
    Quiet /\ acked = Chunks /\ canceller.pc = "start" /\ ~expired
          /\ spoilt \cap {"completion", "restart"} = {}
      => file.primary = "new"

(* A session that is over, or never came to be, leaves its path unlocked,    *)
(* unless an Unlock came while another handler had the lock confirmed, or    *)
(* PrepareUpload lost its token (until its time is over).                    *)
GoneMeansFree ==
    Quiet /\ creator \in {"created", "failed"} /\ kv = None
          /\ spoilt \cap {"unlock", "prepare"} = {}
      => lock = "free"

(* Every request comes to an end: nobody waits for ever for the mutex of a   *)
(* session, or for one that was thrown away.                                 *)
RequestsEnd == \A r \in Handlers : ~At(r, "idle") ~> At(r, "idle")

(* Comment: "Only one placeholder entity, just delete this file" and "Delete *)
(* place holder entity" (dbfs/upload.go:509,514): what a cancellation        *)
(* deletes is an upload that has not been completed.                         *)
CancelDeletesPlaceholder ==
    [][DeletePlaceholder => file.placeholder]_vars
=============================================================================
