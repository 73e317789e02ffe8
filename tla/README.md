# A TLA+ verification of CloudRevo

CloudRevo is a self-hosted cloud drive: a Go server that stores files on local
disks or object stores, runs long jobs in background queues, and serves web
clients, WebDAV clients and office viewers. This directory specifies the parts
of it whose correctness depends on the order in which goroutines, requests,
failures and restarts happen. It is written against the source under `src/`;
`PROJECT.json` maps every definition that models code to the lines it models.

It covers the **task queue** (`pkg/queue`), the **lock system**
(`pkg/filemanager/lock` with the sessions of `fs/dbfs`), the **event feed**
(`pkg/filemanager/eventhub`), **chunked uploads** (`manager/upload.go`,
`fs/dbfs/upload.go`), **files, entities, quota and recycling**
(`inventory`, `manage.go`, `manager/recycle.go`), **the tree of files**
(`manage.go`, `dbfs/lock.go`), **remote downloads** and the
**workflows handed to slave nodes** (`workflows`, `pkg/cluster`,
`service/node`).

## 1. Inventory

| Component | State it keeps | Operations | What is hard | What makes it correct |
| --- | --- | --- | --- | --- |
| Task queue, `pkg/queue` | LIFO list, registry, `activeCancels`, busy count, `ready` and `quit` channels; one row per task | `QueueTask`, `CancelTask`, `UpdateTask`, `Start`, `Shutdown`; worker goroutines | status read and written without a lock; abandoned `Do` goroutines; shutdown and restart; lost wake-ups | a task is in one place; `Do` never overlaps itself; a finished task stays finished; every accepted task ends |
| Lock system, `pkg/filemanager/lock` | tree of nodes with reference counts, token index, expiry heap, held flags | `Create`, `Unlock`, `Confirm`, `Refresh`, expiry | four indexes kept in step over batches, rollbacks, expiry and confirmations | no two clashing locks; all-or-nothing batches; a confirmed lock stays |
| Lock sessions, `dbfs/lock.go` | tokens of one operation, stacked per nested acquisition | `acquireByPath`, `Release`, `Exclude` | failing release, forced unlock, tokens handed to clients | no lock without an end is forgotten |
| Event hub, `pkg/filemanager/eventhub` | subscribers per folder, event buffers, rows for offline clients | `Subscribe`, `Publish`, debounced flush, `setOnline` | events merged, dropped, or replayed out of order | a client that applies what it receives ends with the state of the folder |
| Upload sessions, `manager/upload.go`, `dbfs/upload.go` | session in the KV store, per-session mutex, sentinel task, lock token | `CreateUploadSession`, `MarkChunkUploaded`, `CompleteUpload`, `CancelUploadSession` | parallel chunks, retries, cancel against completion, crash after the last chunk | one completion; no lost chunk; every session ends completed or cleaned |
| Files, entities, quota, `inventory/file.go`, `user.go`, `tx.go` | rows, reference counts, used storage | create, copy, delete, cap versions, commit with storage difference | the difference is applied after the commit | used storage equals the sum of the entities |
| Entity recycling, `manager/recycle.go` | stale entities, blobs | collection of references and blobs | blobs first, rows later; crash in between | no referenced entity loses its blob |
| Remote download, `workflows/remote_download.go`, `pkg/downloader` | task state with phase, handle, transferred files | `Do` per phase, `CancelDownload`, `SetDownloadTarget` | handlers share the state object with `Do` | each selected file is transferred once |
| Node pool, `pkg/cluster/pool.go` | weighted nodes per capability | `Get`, `Upsert` | smooth weighted round robin under updates | picks in proportion to weights |
| Credential manager, `pkg/credmanager` | credentials in the KV store, per-key locks | `Obtain`, `Upsert`, `RefreshAll` | credential read before its lock | one refresh per expiry |
| KV cache, `pkg/cache` | entries with expiry | `Get`, `Set`, `Delete`, collection | collector against writer | a value that has not expired is found |
| Chunk upload, `pkg/filemanager/chunk` | chunk position, retry buffer, back-off | `Process`, `Next` | retry of a stream that was partly read | each chunk is sent once in order |
| Virtual file system, `dbfs` navigators and `manage.go` | SQL rows with a parent, unique by parent and name; path locks | create, rename, soft delete, delete, restore, move, copy | paths are read before they are locked; what is below a folder moves with it; new paths in several transactions | no cycle, nothing lost, an operation does what it was asked for where it was asked |
| Archive, extract, import, thumbnails, media meta, search | files | one `Do` each | external tools | - |
| Storage drivers, encryption, WebDAV, WOPI, accounts, sharing, admin, HTTP, settings, cron | mostly none | request handlers | external services | - |

How they interact. HTTP handlers create tasks and call `QueueTask`; the start
loop hands tasks to worker goroutines, whose `Do` calls the file manager. The
file manager takes path locks from the lock system before it changes rows in a
transaction, commits with a storage difference, publishes events to the hub
and queues recycling and metadata tasks. Uploads hold a path lock from
`PrepareUpload` to completion; its token lives in the KV store together with
the session. WebDAV and viewers take, confirm, refresh and give back locks by
token. On a restart only the database (and a persistent KV store) survives;
queues resume their pending rows, locks are gone.

`PROJECT.json` lists under `hazards` each place where one of these can go
wrong, at its line, with the property that covers it or the reason there is none.

## 2. Modules

| Module | Role |
| --- | --- |
| `TaskQueue` | the queue, its scheduler, workers, status machine and task table |
| `TaskLifecycle` | what the queue promises about one task (abstract) |
| `MCTaskQueue` | symmetry for TLC |
| `TaskQueue_proofs` | type correctness, busy count, wake-ups, one carrier, exclusive `Do`, finished tasks stay finished; the queue implements `TaskLifecycle`, no task is stranded, withdrawn tasks stay withdrawn |
| `MemLock` | the lock system and the requests that use it |
| `PathLocks` | what the lock system promises (abstract) |
| `MemLockRepeat` | `MemLock` with an unlock request that repeats a token |
| `MCMemLock` | the tree of paths and symmetry for TLC |
| `MemLock_proofs` | type correctness, agreement of the four indexes, no lock without an owner, the refinement of `PathLocks` |
| `Debounce` | the merging of a list of events, as a fold over the list |
| `EventHub` | subscribers, stored rows, operations that emit, the SSE handlers; extends `Debounce` |
| `MCEventHub` | the streams for TLC |
| `EventHub_proofs` | type correctness, buffers are on their way, closed subscribers stay silent, merging shows what it merges, clients converge |
| `UploadSession` | one chunked upload and its cancellation |
| `UploadSession_proofs` | type correctness, one completion, a completed file is whole, an acknowledged one complete, no lock outlives its session |
| `EntityStore` | files, entities, storage, and the recycling worker |
| `EntityStore_proofs` | type correctness, references, versions, storage and quota |
| `RemoteDownload` | one remote download task, its requests and its downloader |
| `RemoteDownload_proofs` | type correctness, a completed download has every file, files are uploaded once, nothing is left behind |
| `FileTree` | the tree of an owner's files under concurrent operations |
| `MCFileTree` | symmetry for TLC |
| `FileTree_proofs` | the files are a tree, what was read is still there, locked paths stand, no move into itself |
| `SlaveTask` | archives and extractions on slave nodes, the slaves' handlers, the node pool |
| `SlaveTask_proofs` | type correctness, a completed job is done, jobs do one another no harm |

### TaskQueue

Each goroutine is an agent with a program counter: `Workers` are the slots of
`queue.work`, `Callers` are HTTP handlers, `Starter` is the goroutine of
`Start`. A step is what an agent does between two points where another one can
interfere. `transitStatus` takes no lock, so it is three steps: `Lookup` (read
the status, find the transition, run its cleanup), `Assign` (the task object,
which `taskClient.Update` writes before the statement) and `Exec` (the row, or
a failure). `frame` holds what the Go stack holds: the task, the new status and
where to return to.

| Code | Actions |
| --- | --- |
| `QueueTask` | `Submit` (new row), `Enqueue`, `Push`, `SetRegistry` |
| `CancelTask` | `Cancel`, then `Signal` or `Remove`, then the transition |
| `getOwnedActiveDownloadTask`, then `UpdateTask` | `Update`, then `ReadStatus`, `Assign`, `Exec` |
| `Start`, `start`, `fifoScheduler.Request` | `Resume`, `EnterLoop`, `LoopSchedule`, `LoopWait`, `Request`, `Pop`, `Dispatch` |
| `work`, `run` | `Register`, `StartDo`, `DoReturns`, `DoPanics`, `ContextEnds`, `DoEndsLate`, `CheckCanceled`, `Done`, `Recover`, `Reschedule`, `Unregister` |
| `Shutdown`, process end and start | `Shutdown`, `Restart`, `NilTask`, `Reboot` |

`executing` is the set of workers whose `Do` goroutine has not returned: after a
timeout or a cancellation `run` goes on and `Do` is left behind, which is what
`DoExclusive` is about. `withdrawn` and `aborted` are history variables:
cancellations that were reported as done. `NilTask` is the panic of `Request`
on an emptied list, which nothing recovers and which therefore ends the process.

Abstractions. `Do` is an outcome out of `Outcomes`; a retry is an outcome
"suspending", a failure without a retry "error", and which of the two a failing
run becomes is left open. No `Do` in the repository asks to be iterated at once
(returns "processing"), so the loop of `work` ends after one round. A resume
time is a set of tasks that are due. `Shutdown` is the setting of the flags
and the cancellation of the root context as one step.

### MemLock

All calls of the lock system run under one mutex. `call` is the call that has
it; its steps are to collect expired locks (`Collect`), to create the locks of
a batch (`CreateOne`, `Granted`) or to take them back after a conflict
(`RemoveOne`, `Removed`), to look up and remove tokens (`Examine`,
`RemoveOne`), `Confirm` and `Refresh`. A path stands for its node, which
exists while its `refCount` is not 0. `Above` gives the ancestors that
`walkToRoot` visits.

`Clients` are requests: file operations that lock with infinite duration and
release at the end (`Operate`, `Release`), requests for locks that outlive
them (`Keep`: upload sessions, WebDAV `LOCK`, viewers), clients that give such
locks back (`Discard`), confirm (`AskConfirm`, `Unhold`) and refresh them
(`AskRefresh`), and users who unlock what somebody else's operation holds,
with the token the conflict named (`ForceUnlock`). `left` and `forced` are history.

Abstractions. A namespace is a tree of its own, so one is modelled. Tokens are
fresh (`uuid.NewV4`); the caller's own tokens of WOPI are left out. A session
has one frame of its token stack. Owners and applications, which only
describe conflicts, are left out. Time passes between calls only (`Expire`):
a call reads the clock before it takes the mutex.

### Debounce and EventHub

`Debounce` is `DebounceEvents` over the events of each file: `Fold` is the
switch of its first loop, `Merge` the fold of the list, `DebounceEvents` the
list that is emitted. `Apply` is what a client does with an event.

`EventHub` keeps what the server really has (`server`: the place of each file)
beside what a client shows (`view`). An operation commits (`Commit`), reads the
subscribers (`GetSubscribers`) and publishes to each of them (`Publish`) in
separate steps, as `fs/dbfs/events.go` does without the hub's mutex. A
subscriber object outlives its place in the hub: a timer that fired
(`TimerFires`) waits for the mutex (`flushes`), and an operation may hold an
object that has been closed and replaced. The SSE handlers are `Conns`:
`Subscribe` (new, or `SetOnline` with the stored rows), `ClientLists`,
`HandlerSends`, `ClientLeaves`, and the two halves of `Unsubscribe`, `Stop` and
`SetOffline`. `Expire`, `Close` and `Restart` end subscribers.

Abstractions. A folder has no folders above it whose subscribers would hear of
its files too. The rows of a client are read and deleted in one step, which are
two statements in `inventory/fs_event.go`: both run under the mutexes of the
hub and of the subscriber, so a row can come in between only from another
stream of the same client, and is then lost as `EventHubKept` shows such rows to
be; `FeedConverges` and the run are about one stream for each client. The
modify event of an upload is published before the next operation on the file
(see section 4).

Named losses. `view` becomes `Unknown`, and the client is not followed any
further, when events are known to be lost: the channel is full, the owner or
the rows cannot be read or written, stored events are put behind newer ones, a
file is deleted, restored and deleted again within one list, or the client
lists the folder before events of the past have been merged. `Converged`
speaks of everything else.

### UploadSession

One session: `kv` is the entry of the key-value store, `lock` the lock of the
path, `file` the row with its entities, `disk` the chunks in the blob, `map`
the entry of `uploadSessionLocks`, `owner` who has which mutex. A handler of a
chunk (`h`) gets the session, confirms the lock and lets it go, writes, then
marks the chunk under the session's mutex (`FetchMutex`, `LoadProgress`,
`SaveProgress`, or `SaveProgressFails` when the store does not take it), and completes the upload if it was told to (`ReadPlaceholder`
to `DropMutex`). The canceller reads, confirms or takes a lock, deletes and
unlocks without the mutex, as `CancelUploadSession` does. `spoilt` records what
a complete upload does not survive. The setting to keep old
versions (`Retention`) may have either value at each completion. With the store in memory the map of
received chunks is shared by reference; it is only touched under the mutex, so
a copy is the same.

### EntityStore

An operation reads the file with its entities (`Call`), locks the path
(`Acquire`), runs one transaction on what it had read (`DeleteTx`, `CopyTx`,
`UnlinkTx`, `RevertTx`, `PrepareTx`, `CompleteTx`) and adds the storage
difference after the commit (`ApplyStorageDiff`, or `ApplyFails`, which is only
logged). The worker of the recycle queue takes an explicit task or the routine
one, deletes blobs, then rows, then applies the storage difference. Every
entity has size 1. `mishaps` records what the bookkeeping is known not to
survive: an operation that went on with an outdated read, a copy (whose
capacity check reserves nothing), a copy that linked an entity without a
reference, a difference that was never applied.

### FileTree

`rows` is the table of files of one owner: a row has a parent, a name, a type
and, in the trash, the path it had. A path begins with the root of the user or
with `None`, for the trash, and is walked down name by name, as the navigators
do (`Walk`, `Resolve`). A request (`req`) goes through the steps that `manage.go`
takes: read with no lock, lock, compare, commit.

| Code | Actions |
| --- | --- |
| `getFileByPath` of `Rename`, `SoftDelete`, `Delete` | `ReadTarget` |
| the closest ancestor in `Create` | `ReadAncestor` |
| `MoveOrCopy` | `ReadDestination`, `ReadSource` |
| `Restore`, which calls `MoveOrCopy` | `ReadTrash`, `ReadOrigin`, `ReadSource` |
| the children that a navigator keeps | `Cached`, `Hidden`, `Database`: the source of a move is walked on what was read for its destination |
| `acquireByPath` | `Lock` (all the paths of `Wanted`, or none), `EnsureConsistency` |
| the transactions | `Rename`, `SoftDelete`, `WalkBelow` and `Delete`, `Move`, `Copy`, `CreateFolder`, `CreateFile` |

`seen` are the rows an operation has read, the chain of ancestors included,
which is what `ensureConsistency` compares (`Both`: a row that is above the
source and above the destination is compared once, as it was read for the
source); rows that are gone are not missed by it, and what then stops an operation is a foreign key or an update that
finds no row. `Without` is the foreign key on the parent (`SetNull`), `Child`
the unique index on parent and name.

`TornReads` says whether another request may rename or move a folder between
the two reads of a move, so that one row has two paths in what was read. The
code does not notice, and can move a folder into itself (section 4); the run
`FileTree` and the theorems are about the behaviours in which this does not
happen (`Torn`), the run `FileTreeCycle` about the others.

Abstractions. A path is read in one step: the walk goes name by name, but every
row of the chain is compared again under the lock. A transaction is one step,
but for a deletion, which lists what is in the folder (`WalkBelow`) and then
deletes what it has listed, whatever came into the folder meanwhile; the locks
are given up in the step that commits last. The random name of
a file in the trash is a number; paths in the trash begin differently, so they
clash with nobody's. A copy may fail because the rows are used up, as it may for
want of capacity. Requests have one target each.

### RemoteDownload

The worker of the queue (`Pickup`, `Transit`, `Timeout`), the goroutine in
`Do` (`Begin` to `Marshal`), requests on the same task object (`CancelDownload`,
`SetDownloadTarget`, `ControlDownload`, `Summarize`, `Delete`) and an external
downloader whose descriptors are followed by the tasks of their content.
A selection of files is two steps, the state (`SetDownloadTarget`) and the row
(`UpdateTask`); if the row cannot be written (`UpdateFails`),
`restoreDownloadSelection` puts back the snapshot it took before (`undo`), over
whatever `Do` has done since. A snapshot of a state without transferred files
has no map for them (`unmade`).
`mem.private` is what would be persisted, `mem.state` what `Do` and the requests
share, `db` the row. `mishaps` names what nobody could clean up: a download
whose creation was never heard of, a content task not known yet, a downloader
that could not be reached, a process that ended, or a snapshot that was put
back, before a transfer was saved.
Requests come one at a time; pausing is a request, and a paused download may
stay so. A transfer that is cancelled (`StopTransfer`) is taken to stop with
all its files; the code returns without waiting for those under way, which touch
nothing but the destination and the map of transferred files.

### SlaveTask

Jobs of the master are iterations of a request to a slave and the use of its
answer (`Request`); the request may not arrive (`Unreachable`) or its answer may
be lost, come after the time of the task, or meet a master that restarted
(`AnswerLost`). A slave gives out ids from a counter in memory (`NextID`), keeps
its tasks in a registry in memory, and starts again at one after a restart
(`SlaveRestarts`). `Allocated` is `weightedNodePool.Get`: the preferred node if
it is there, any other if not. The other may be the master itself, which ends a
job whose phase it does not know (`MasterRefuses`); jobs that begin on the
master stay there and are not modelled. `displaced` are the jobs whose slave was
restarted or replaced while they held the id of a task.

Abstractions. The weights of the round robin (any node may be chosen), the
progress of the slave's work, the payload of a task. Compression, extraction
and upload by a slave are one step each; the remote transfer
(`slaveTransfer`) is the same protocol and is left out.

## 3. Runs

| Run | Checks | Instance |
| --- | --- | --- |
| `TaskQueueOneTask` | `TypeOK`, `DoExclusive`, `OneCarrier`, `FinishedNeverStarted` | 1 task, 2 worker slots, limit 1, 2 handlers, 2 calls, updates, timeouts; 2.3 million states |
| `TaskQueueTwoTasks` | `BusyAccounted`, `OneExtraWorker`, `NoLostWakeup`, `WithdrawnNeverRuns` | 2 tasks, 3 slots, limit 1, 1 cancellation, suspensions and panics; 7.0 million |
| `TaskQueueRestart` | `Implements` (`TaskLifecycle`) | 2 tasks, 1 restart, 1 failed write, timeouts; 2.3 million |
| `TaskQueueLive` | `NotStranded`, `EveryTaskEnds` | 2 tasks, completions and suspensions, fair; 0.2 million |
| `MemLock` | `TypeOK`, `IndexesAgree`, `NoOrphanLock`, `Implements` (`PathLocks`) | 4 paths, 3 tokens, 2 requests, batches of 2; 0.6 million |
| `EventHub` | `Converged`, `BufferHasTimer`, `ClosedStaysSilent` | 1 file, 2 folders of which 1 is watched, 1 client with 2 connections, 2 subscriber objects, 3 operations, 1 fault |
| `UploadSession` | `TypeOK`, `OneCompletion`, `WholeWhenComplete`, `AckedMeansComplete`, `GoneMeansFree`, `RequestsEnd` | 2 chunks, 2 handlers, 5 requests, a cancellation, 1 fault; 1.0 million |
| `EntityStore` | `RefsCountLinks`, `UsedIsLinked`, `VersionsKept`, `UploadsWithinQuota`, `StaleRecycled` | 3 files, 3 entities, 2 operations at a time out of 6 kinds, 3 in all, 1 fault; 0.5 million |
| `RemoteDownload` | `CompletedHasAll`, `EndedLeavesNothing`, `UploadedOnce`, `Ends` | 2 files, 2 downloads, 1 retry, 2 tries, 2 requests, 2 faults; 1.1 million |
| `SlaveTask` | `TypeOK`, `CompletedMeansDone`, `HarmlessWithoutFaults`, `JobsEnd` | an archive and an extraction, 2 slaves, 1 retry, 2 faults of 8 kinds; 0.8 million |
| `FileTree` | `Rooted`, `StillThere`, `LockedPathsStand` | the root and 3 rows, 2 names, paths of up to 3 names, 2 requests at a time of 7 kinds, 3 in all; 1.5 million up to symmetry |
| `FileTreeCycle` | `NotIntoItself` is violated | the root and 2 rows, a rename and a move, `TornReads` |

The type invariants of `EventHub`, `EntityStore`, `RemoteDownload` and
`FileTree` (`TypeOK` of each) hold on the same instances; they are kept out of the
runs, which are about what could go wrong.

Bounds and why they are enough. The number of workers that can be busy is at
most one above the limit (proved), so two slots for a limit of 1 show an
abandoned worker beside a new one, and three slots leave one spare. One task
is enough for races of handlers and workers about a task, two for the order of
the list, for a top that hides what is below it and for a limit of one to be
overcommitted; with suspensions a cancellation meets a task that waits, one
that is being requeued and one that is being taken. `MaxCalls`, `MaxCrashes` and `MaxFaults` bound what the
environment does; one of each reaches every step at which it can fall, as any
step may come before or after it. For locks, "/", "/dir", "/dir/file" and
"/other" have every relation two paths can have (same, ancestor, sibling
branch), and batches of two reach a conflict after a success, a
conflict within the batch, and a path twice in a batch. Tokens are used again
once forgotten, so three of them bound the locks that exist at a time, not in
all. Events of different files are merged apart, so one file shows every merge;
three operations on it give every list the fold can join in two steps, and two
subscriber objects a closed one beside its successor. Two chunks and two
handlers show a first, a last and a repeated chunk at once; five requests leave
room for a retry of each and one late comer. Two mutexes are a dropped one and
its successor. Three entities are one that exists, one uploaded by each of two
operations; three files the original, a copy and a new one. A tree
of a root and two rows, with every shape and type two rows can have, is enough
for two folders to be moved into each other, for a file to be put into a folder
that leaves, and for a folder with something in it to be deleted; the third row
is what is created or copied meanwhile, and the third operation what puts a
file into the trash first or takes a place that became free. Two files of a
download are one that succeeds and one that fails. Two jobs show one disturbing
the other; six slave tasks are never used up by two jobs with two faults.
Symmetry of tasks, workers, callers, tokens and clients is used for safety
only.

Deadlock is not an error where the bounds stop the environment or an idle
system waits: in every run but those of the lock system, where it is checked.

Fairness. `FairSpec` of `TaskQueue`: weak fairness of each goroutine, as the Go
scheduler runs a goroutine that can run, database calls return, and `Do`
returns or runs out of time (`DoStep`); weak fairness of the clock; strong
fairness of `Completes`, as a task that is run again and again completes some
day, by a retry limit or the finite work of the repository's tasks; weak
fairness of a restart after a shutdown, which `docker-compose.yml:80`
(`restart: unless-stopped`) asks for. Nothing is assumed of handlers beyond
finishing what they began, and nothing of new submissions. `UploadSession`: each
handler goes on. `EntityStore`: the recycle worker goes on, and the routine task
comes again and again, as its cron setting says; nothing is assumed of
operations. `RemoteDownload`: the worker and the downloader go on and a process
that ended is started again; nothing is assumed of requests. `SlaveTask`: the
queues of both nodes go on; nothing is assumed of what fails. `EventHub` has no
fairness and no liveness property.

## 4. Where the code departs from what it says

| Property | What the run shows |
| --- | --- |
| `NotIntoItself` | `fs/dbfs/manage.go:622`: "cannot move or copy folder to itself or its descendant"; `fs/dbfs/lock.go:228-229`: "make sure there's no modification in between". `MoveOrCopy` reads the destination and then the source. If another request renames `/a` to `/b` in between, a move of `/b` into `/a` reads one row under two paths: neither path is above the other, the locks of `/b` and `/a/b` do not clash, and `ensureConsistency` compares the row only as it was read for the source (`lock.go:239`: "This file and its ancestors are already included"). The folder becomes its own parent and is out of reach from the root. With a folder above renamed, a folder goes below itself in the same way. |

Further statements that do not hold, each with a configuration that shows a
counterexample (`tlc -config <cfg> <module>`), kept beside the runs:

| Configuration, module | Property | What it shows |
| --- | --- | --- |
| `TaskQueueCancel`, `MCTaskQueue` | `CancelPersists` | `pkg/queue/queue.go:26`: "CancelTask persists cancellation for queued, suspended, or processing tasks." The handler's transition races that of the worker; after a successful `CancelTask` the row can say "processing" or "completed" and `Do` can run. |
| `TaskQueueUpdate`, `MCTaskQueue` | `UpdateKeepsStatus` | `pkg/queue/queue.go:28`: "without changing the task lifecycle status". The status written was read earlier and can overwrite the end of the task. |
| `TaskQueueStranded`, `MCTaskQueue` | `NotStranded` | `pkg/queue/task.go:465`: a task that suspends itself is queued again. When the write of the suspension before it fails (`task.go:461`) the error is dropped (`queue.go:338`): the object is suspended, the row still says "processing", and the task is on no list until the process starts again. |
| `TaskQueueRequest`, `MCTaskQueue` | `RequestFindsTask` | `pkg/queue/scheduler.go:67` reads the count without the lock; a concurrent `Remove` leaves nothing to take, and the nil entry is dereferenced in a goroutine without a recover. |
| `MemLockRepeat`, `MCMemLock` | `RefCountExact` | `lock/memlock.go:390`: "refCount is the number of self-or-descendent nodes that are explicitly locked." An unlock request that repeats a token counts it down twice. |
| `EventHubKept`, `MCEventHub` | `KeptForReconnect` | `eventhub.go:20`: "Buffered events will be kept for when the subscriber reconnects". The rows of a client are taken, or deleted, with another of its streams. |
| `EventHubModify`, `MCEventHub` | `ModifyNotLost` | `event.go:42` says that a modification after a rename is told of; the merge drops it. |
| `UploadCancel`, `UploadSession` | `CancelDeletesPlaceholder` | `dbfs/upload.go:509,514` speak of the placeholder; a cancellation that read the file before a completion deletes the completed upload. |
| `EntityRecycle`, `EntityStore` | `ExplicitIsStale` | `fs/fs.go:58`: "StaleEntities returns all stale entities of given IDs". With ids given it returns them all, stale or not. |
| `EntityOutdated`, `EntityStore` | `UnmodifiedWhenLocked` | `fs/dbfs/lock.go:228-229`: "This is to make sure there's no modification between navigator's first query and lock acquisition." The check compares name, parent, owner and type of the rows that still exist; a second deletion of a file passes it, and counts references and storage down once more. |
| `FileTreeKind`, `FileTree` | `FolderMeansFolder` | `fs/dbfs/manage.go:55`: "File with the same name but different type already exist", an error when it is seen in the first read. `CreateFolder` ignores a conflict of names (`inventory/file.go:1107`) and returns the row that is there: a file made meanwhile is returned as the folder that was asked for. |
| `DownloadPanic`, `RemoteDownload` | `PanicsAreHandled` | `pkg/queue/queue.go:301` handles panics inside the worker; a time limit that passes before `Do` has set its state makes `Cleanup` panic, and again in the handler of the panic, which ends the process. |

`ClaimedOnce` of `UploadSession` (`manager/upload.go:304`) is broken by a
cancellation that drops the session under a handler; `OneCompletion` says what
is left of it.

Also seen, and without a configuration: `pkg/setting/provider.go:662` reads a
worker number under a key with a trailing comma, so the setting is never found;
`manager/recycle.go:109` shadows the error of a recycling, so that an explicit
task is never retried (modelled: `EndTask`); `Summarize` of a download redacts
the save path in the state it shares with `Do`, so that asking for the list of
files during a transfer makes the transfer fail (modelled: `Summarize`); a slave
never clears a completed compression from its registry (modelled, and excepted
in `EndedLeavesNothing`); a rename locks the old name and not the new one, so
that a path that is locked can change (modelled, and excepted in
`LockedPathsStand`); two first requests of a user can each make a root folder
(`dbfs.go:711`, not modelled); `CreateUploadSession` loses the token of its lock when
an error follows `Exclude` (modelled: `PrepareFails`); when a user has unlocked
one of the locks of an operation, its `Release` fails and the others stay
without an end (modelled, and excepted in `NoOrphanLock`); a storage difference
that cannot be applied after the commit is only logged (modelled: `ApplyFails`,
and excepted in `UsedIsLinked`); a selection of files whose row cannot be
written puts back a state without a map of transferred files, and a transfer
that has begun meanwhile writes into it and ends the process (modelled:
`UploadPanics`); the modify event of an upload is published after its lock is
given up (`dbfs/upload.go:397-404`), so that it may follow the deletion of the
file, and a creation (a restore from the trash) that joins it in one list is
then ignored (`event.go:71`; not modelled).

## 5. Proofs

Of the queue, for every number of tasks, workers and callers
and every bound, from `QueueAssumption` alone (positive worker limit, finite
set of worker slots, disjoint agents):

* `TypeCorrect`, `BusyCountsWorkers`, `AtMostOneExtra`, `WakeupsReachTheLoop`
  (`TaskQueue_proofs`). `BusyAccounted` is not inductive without knowing where
  an agent can be: `Placed` and `Stored` say which program points need a task
  and what the shared state can hold. `AtMostOneExtra` counts tokens: a token
  is in the channel or in the hands of the start loop until it has become a
  busy worker, and `Wakes` bounds busy workers and tokens together; from it
  both the bound and the absence of lost wake-ups follow. `QueueInv` is the
  conjunction.
* `TaskInOnePlace`, `NoConcurrentDo`, `FinishedStayFinished`
  (`TaskQueue_proofs`). `OneCarrier` is inductive together with `Placed`.
  `DoExclusive` needs more, as an abandoned `Do` is in nobody's hands:
  `Exclusive` is stated over claims, held by the agent that may still run,
  queue or persist the task and by a worker whose `Do` has not returned. A
  task has at most one claim and, while claimed, is not on the stack
  (`OneClaim`); a worker whose `Do` was left behind is past the point where
  it could queue the task again (`LeftBehind`); whoever writes that a task
  completed or failed, `UpdateTask` with the status it has read included, does so
  when nobody can run the task any more (`Settling`); and the row of a task
  about to be run says neither (`Unfinished`), from which the action property
  follows at `StartDo`.
* `QueueImplementsLifecycle`, `NothingStranded`, `WithdrawnStaysWithdrawn`
  (`TaskQueue_proofs`). A row is written only by the agent that claims the
  task, as long as nobody calls from outside, so `Rows` can say for each
  program point what the row of the agent's task is and for what purpose the
  agent will write it; a run that was given up ends in no other way
  (`GivenUp`). Every step of the queue is then a step of `TaskLifecycle` or
  leaves its variables alone. For `NothingStranded`, the object and the row of
  a task agree except between their two writes (`InStep`), and a row that is
  not at its end has somebody to attend to it (`Cared`). A task that was
  withdrawn is on no stack and in no hands, except those of the handler that is
  writing that it is cancelled (`Withdrawing`).
  The hypotheses are those under which the code keeps the promise. The first
  theorem holds for behaviours without calls of `CancelTask` and `UpdateTask`,
  with crashes and failed writes; the second without faults as well; the third
  without `UpdateTask`, with cancellations and faults. With the calls,
  the promises are false: `TaskQueueCancel.cfg` and the hazards at
  `queue.go:244` and `queue.go:426` are about that. The runs of these properties
  stay within the same hypotheses.

Of the lock system, for any finite tree of paths, any tokens, batches and
requests, from `LockAssumption` alone:

* `IndexesAlwaysAgree` and `LocksTypeCorrect` (`MemLock_proofs`). The counter
  of a node is the cardinality of the set of locks at or below it; `Link` adds
  one element to that set along the way to the root and `Unlink` takes one
  away (`LinkAgrees`, `UnlinkAgrees`). `LockInv` adds to the indexes that only
  locked nodes are held or can expire (`Attached`), and that what a call has
  made is locked and what it is about to remove is held by nobody (`CallInv`):
  without the last, an unlock could take a held lock off the tree and leave
  its flag.
* `NoLockForgotten` (`MemLock_proofs`). `OwnInv` follows a token from the batch
  that makes it to the answer that hands it out: the tokens of a call are new
  (`New`), a request that works has the locks it was granted (`Own`), and they
  are still there unless it is giving them back (`Standing`). Two parts are
  conditional on nobody having unlocked by force, after which a `Release` can
  fail with locks left; the property excepts what was left so (`left`).
* `LocksImplementPathLocks` (`MemLock_proofs`): every step of `MemLock` is a
  step of `PathLocks` or a stutter. The locks in force are those in the tree
  less what has expired and less what an unfinished batch has made. `ForceInv`
  says that no two locks in the tree clash (`Apart`), whether in force or not;
  that `canCreate`, which reads only counters and flags of nodes above, refuses
  exactly when there is a clash (from `LockInv`); that what is due has been
  collected before a call acts (`Collected`); that a batch has made what was
  wanted so far (`Made`), so that its last step makes the whole batch
  appear at once; and that a batch is taken back only if it could not be
  granted (`Refused`).

Of an upload, for any set of chunks, any number of requests, mutexes and
faults, from `UploadAssumption` alone:

* `UploadTypeCorrect`, `OneRequestCompletes` and `CompleteIsWhole`
  (`UploadSession_proofs`). The mutex of a session is dropped when the upload
  completes, and `lockUploadSession` may then make a second one, so that
  "one saver at a time" is not an invariant. `UploadInv` splits the life of a
  session in three: before it is stored nothing happens (`Started`); until
  somebody claims the completion, or a cancellation, there is one mutex
  (`OneMutex`), hence one saver (`Held`); and afterwards whoever stores the
  session again stores all its chunks (`AfterClaim`), so that nobody can find
  it short of the last one and claim a second time. `Written` says that what
  is counted as received is in the blob, from which a completed file is whole.
* `AcknowledgedIsComplete` (`UploadSession_proofs`). As long as nothing
  disturbed the upload and nobody claimed its completion, the stored session is
  there, is short of some chunk, and has counted every chunk that was acknowledged
  (`Counted`); once it is claimed, the file is complete or the handler that
  claimed it is on its way (`Pursued`). So an upload whose every chunk was
  acknowledged was claimed. Needed besides: `None`, which stands for no
  session, is not a set of chunks (`NoSessionAssumption`).
* `SessionGoneIsUnlocked` (`UploadSession_proofs`). A confirmed lock is
  confirmed by one handler (`HeldByOne`), a lock that is the canceller's own is
  given back (`Cancelling`), and a lock of the session has its session
  (`LockedWithSession`), except after an `Unlock` that came while another
  handler had the lock confirmed, or a `PrepareUpload` that lost its token.

Of the entity store, for any finite sets of files, entities and operations, any
quota, number of calls and faults, from `StoreAssumption` alone (entities are
numbers, as ids are; `None` is none of the others; the quota has room for the
file the owner starts with):

* `StoreTypeCorrect`, `ReferencesAreLinks`, `VersionsAreKept`
  (`EntityStore_proofs`). A transaction is computed from what its operation had
  read, so the invariant has to say what has become of that meanwhile.
  `Locking` says that an operation past `Acquire` holds the path it changes,
  `Rowed` that links are to entities that were made, `Noted` what a read
  can say of itself for good. `CleanInv`: while no operation went
  on with an outdated read, the counts are the cardinalities of the sets of
  linking files (`Counted`), and what an operation under lock knows of its file
  is right as far as rows of entities go (`HeldRows`): the worker removes rows
  without a lock, and only of entities with no reference. `SafeInv`:
  while besides no copy linked an entity without a reference, what is noted for
  recycling, in an operation, a task or the worker's batch, has no link and
  gets none any more (`Doomed`), which is why files keep their
  versions (`Kept`).
* `UsedStorageIsLinked`, `UploadsStayInQuota` (`EntityStore_proofs`). `Owing`:
  the storage counted plus the differences that committed transactions have
  still to add is the number of links; `Roomy`: an upload reserves inside its
  transaction, so what is still to be added is never positive, and the links
  stay below the quota.

The steps are of three shapes, and the lemmas are about the shapes: `Quiet`
(reads, locks, differences, answers: no row changes), `Wrote` (a
transaction replaces the row of the file whose lock is held, and the counts
follow), `Worked` (the worker removes blobs and rows of entities nobody links
to). The sum over the operations is a fold of the community modules, and that
it changes by what one operation's term changes (`SumChange`) is an induction
over a finite set. No installed prover applies an induction theorem
with an operator as its parameter; the lemmas take a smallest counterexample instead
(`SmallestSet`, from the well-foundedness of strict inclusion).

Of a remote download, for any finite set of files, any number of downloads,
retries, tries, requests and faults, from `DownloadAssumption` alone:

* `DownloadTypeCorrect`, `CompletedDownloadHasAll` and `FilesUploadedOnce`
  (`RemoteDownload_proofs`). The state of a task exists three times, in the
  row, in the private state and in `m.state`, and requests copy one over
  another while `Do` works. `Honest` says that each copy is true of the
  destination (what it calls transferred is stored, and in the seeding phase
  everything is), which survives any copying; `InPhase` that `Do` works on a
  state in the phase that brought it there. For `FilesUploadedOnce` no copy
  that will be worked on may have forgotten a file either (`Remembered`): while
  `Do` transfers that is `m.state`, otherwise the private state, and the row
  of an object nobody has touched since the process started. The snapshot that a
  failed selection puts back is never ahead of the other copies, and truthful
  (`Snapshot`). `Typed` also
  shows that only a task still in its first phase has no handle, so that a
  monitored download exists.
* `EndedDownloadLeavesNothing` (`RemoteDownload_proofs`). Each copy of the state
  may be the one that a `Cleanup` or a cancellation starts from, and they may
  name different handles, as a content task replaces the one it follows.
  `Tidy` says that each handle that any copy holds leads to everything the task
  still has at the downloader (`Named`), that a task that knows no handle has
  nothing there, and that one that is over has nothing either; `Order` that the
  copies learn of a handle in turn: the state `Do` works on, then the
  private state, then the row. `Tidy` speaks of behaviours without the mishaps
  the property names.

Of the event feed, for any finite or infinite sets of files, names, folders,
clients, streams and connections and any bounds, from `StreamsAssumption`,
`BoundsAssumption` and `NoneAssumption` (the value that stands for no name, no
place and no stream is none of them) alone:

* `FeedTypeCorrect` (`EventHub_proofs`). What is flushed is a merged list, so
  the merging has to be shown to yield events of the files: `DebounceEvents` is
  a fold of the community modules over a list, and `DebounceMerges` unrolls it
  into the list of what has been merged after each event. That this unrolling
  exists is an induction over the length of the list, done with a smallest
  counterexample (`LeastExists`) because no installed prover applies an
  induction theorem.
* `OnlineBuffersAreSent` (`EventHub_proofs`). Whether a subscriber is online
  does not suffice: one that is offline may keep its buffer with no timer, when
  the owner cannot be read, and be online again a step later. `Timed` says of
  every open subscriber that its buffer is on its way as long as the database
  has not failed, and of the online ones until it has failed twice. With two
  failures (one while the events are stored, one while they are taken back) the
  code does leave an online subscriber with a buffer nobody flushes until the
  next event comes, and the theorem says nothing of that.
* `ClosedSubscribersStaySilent` (`EventHub_proofs`). `Fit` says that a closed
  subscriber has nothing buffered and `Served` that the hub has open ones only,
  each under its own stream, and that one that is being stopped stays in the
  hub until `setOffline`; so neither a late flush nor a late `Publish` finds
  anything to send, and what a new handler is given is open.
* `DebounceShows` (`EventHub_proofs`). After each event of a list, what has been
  merged holds at most one event of a file (`OneEach`), and that one stands for
  all the events so far of the file (`Stands`): it suits what the client showed
  before the list and takes it to what the client would show now. The one
  exception is a file deleted, restored and deleted again within a list
  (`DeletedTwice`): the second deletion cancels the restoration, and the first
  is forgotten, so that the file stays in the listing. The model counts it
  among the named losses.
* `FeedConverges` (`EventHub_proofs`). What is on its way to a client is in four
  places: the channel, the rows, the buffer, and an operation that has still to
  publish. `Carries` says that the first three, in this order, take the listing
  to some name of the file, and `Arrives` that what is still to be published
  takes that name to where the file is (`EventsDue`, for every kind of
  operation). `Followed` says so of every stream and every file; every other
  part of `ConvInv` is what a step needs to keep it: who is open is in the hub
  (`InHub`), a client has one connection that is not leaving and it reads the
  hub's channel (`Live`), an operation holds subscribers of the right stream
  (`Held`, `Shaped`). A flush keeps `Carries` by `DebounceShows`
  (`CarriesFlushed`), and it may only merge what is not behind rows; hence the
  conjunct of `Tracked` that an online subscriber has no rows. The theorem has
  one hypothesis, `OneStreamEach`: no client watches two folders at once. The
  rows of two folders of one client are not told apart in the database, and
  `EventHubKept` shows one taking the other's.

Every step changes one subscriber (`Changed`) or none, but for `close`, which
changes those it is called for; `Good` is what each step has to keep.

Of jobs on slave nodes, for any nodes and jobs and any bounds, from
`SlaveAssumption` alone:

* `SlaveTypeCorrect`, `CompletedJobIsDone` (`SlaveTask_proofs`). A slave knows a
  task by an id that comes from a counter (`Registered`), so a job whose slave
  stayed what it was holds the id of a task made for it (`Mine`), and what a
  completed task has placed is of its own job (`Delivered`).
* `JobsDoNoHarm` (`SlaveTask_proofs`). While slaves are at worst out of reach
  and not more often than a job is retried (`Calm`), every slave task is awaited
  by its job, kept for the archive it made, or over with nothing left of it, and
  no job has used more tries than there were faults (`Peace`). When all jobs
  have ended nobody awaits or keeps anything, so nothing is left.

Of the tree of files, for any ids, names, depth and requests, from
`TreeAssumption` alone, under the hypothesis `~TornReads`: no request renames or
moves a folder between the two reads of a move so that one file is read under
two paths. Without it a folder can end in itself, as `FileTreeCycle` shows, so
neither `Rooted` nor `NotIntoItself` holds.

* `FilesAreATree`, `WhatIsReadIsStillThere` (`FileTree_proofs`). A transaction
  acts on what was read before any lock, so the invariant has to say what that
  is worth. `IInv` has three parts. `Tree`: the rows are a tree with unique
  names in each folder, rooted in the user's root or in the trash. `Asking`: what
  a request has read shows its file at the path it was asked for (`HasRead`) and
  is right about what never changes (`Snapshot`), and after
  `ensureConsistency`, which compares each row that is still there, the file is
  at that path in the database (`Placed`). `Locking`: from `Lock` on a request
  holds the paths of `Held`, none above, at or below one of another's. The
  argument turns on four facts. A file is on one path (`OnePath`), and a path
  leads to one file (`OneFile`). What two requests change is at paths they have
  locked, so no row on the way down a locked path is changed by another
  (`OthersStand`). What `Delete` has listed is still all of what is below its
  target when it is deleted (`Gathered`, `WithoutIs`), as nobody else gets at what
  is below a locked path, so nothing is left without a parent. A move of the source leaves the way to its destination alone, because
  the comparison of the two paths was made on reads in which each file has
  one path (`Avoiding`, `BothLead`), so no cycle can close.
* `OthersLeaveLockedPaths` (`FileTree_proofs`). A request's transaction neither
  takes a row off another's locked path nor puts one there: what it moves,
  makes, copies or deletes is at a path it has locked itself (`InPlace`) and
  two such paths are not above each other (`NoClash`). A rename does not lock
  the name it gives, and is the exception of the property.
* `WholeReadsKeepOutOfItself` (`FileTree_proofs`): under the same hypothesis
  `NotIntoItself` holds, which `FileTreeCycle` shows to fail without it. So the
  torn read is the only way to the cycle of section 4.

`Walk` is a recursive function over all numbers, whose value for each of them
is a theorem (`WalkRule`). Every statement about walks of any length is then
proved from the least depth at which it would fail (`LeastExists`): no
induction theorem is used.

Each proof has a step per action of `Next` and one per conjunct the action
disturbs; the temporal steps use PTL.

Only model-checked: the liveness properties (`EveryTaskEnds`, `RequestsEnd`,
`StaleRecycled`, `Ends`, `JobsEnd`), which are out of the prover's reach, as is
what they rest on, `ENABLED`. Every invariant and every other temporal property
of the runs is a theorem, under the hypotheses named above.

## 6. Not modelled

In the queue: metrics other than the busy count, back-off, subscriptions to
progress, and a task submitted in the moment between the start of the process
and the query of its pending rows (`queue.go:112`), which would be resumed a
second time: the model reads the rows when the process starts, and `OneCarrier`
and `DoExclusive` are stated under that assumption. In the lock system: nested
session frames, chosen tokens, the panics of `hold` and `unhold` on an
inconsistent flag (unreachable, as `IndexesAgree` and the refinement show). In
the event feed: handlers of shared folders that lose their permission, which
leave as any client does. In uploads: storage providers with callbacks and the
sentinel task, relays, encryption. In the entity store: folders, batches of
files and owners. In the tree: shares and the navigators of other owners,
symbolic links, searches and listings, properties and metadata other than the
place a file is restored to, locks that a user breaks by force, batches of
several targets. In downloads: the transfer through a slave, the subset of
files, the data race of a cancelled transfer on `Transferred`, the counters of a
retry. In slave workflows: weights, partial progress, the node's health check.
The credential manager reads a credential before it takes its lock and writes
its map of locks under a read lock; neither is modelled. The remaining components have no state that two actors share, or are
clients of external services, or generated code; each has its reason in
`PROJECT.json`.

## 7. Plan

1. Nested frames of a lock session.
2. Small modules: credential refresh under its per-key lock, smooth weighted
   round robin against a counting reference, chunk retry.
