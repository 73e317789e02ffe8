--------------------------- MODULE RemoteDownload ---------------------------
(* One remote download on the master node: workflows/remote_download.go,     *)
(* driven by the worker of its queue (pkg/queue work and run), asked of by   *)
(* the requests of service/explorer/workflows.go, and carried out by an      *)
(* external downloader.  The steps of the queue itself are in TaskQueue: a   *)
(* transition of status is one step here.                                    *)
EXTENDS Naturals, FiniteSets

CONSTANTS Files,                  \* files of the download, all selected
          WaitForSeeding,         \* setting of the node
          MaxTried, MaxRetry,     \* GetTaskStatusMaxTries, maxRetry
          MaxHandles, MaxRequests, MaxFaults  \* bounds of the model

ASSUME DownloadAssumption ==
    /\ Files # {} /\ IsFiniteSet(Files)
    /\ WaitForSeeding \in BOOLEAN
    /\ MaxTried \in Nat \ {0} /\ MaxRetry \in Nat
    /\ MaxHandles \in Nat /\ MaxRequests \in Nat /\ MaxFaults \in Nat

VARIABLES
    db,       \* the row of the task: status, private state, retries
    up,       \* the process runs
    mem,      \* the task object: private state, m.state (or none), m.d is set;
              \* the snapshot of a selection under way, a map it has taken away
    do,       \* the goroutine in Do
    waiting,  \* the worker waits for it
    dl,       \* the downloader's tasks
    temp,     \* the downloaded files are on disk
    stored,   \* files uploaded to the destination
    request,  \* the request under way
    mishaps,  \* what happened that the bookkeeping does not survive
    requests, faults

vars == <<db, up, mem, do, waiting, dl, temp, stored, request, mishaps,
          requests, faults>>
outside == <<dl, temp, stored>>
counters == <<requests, faults>>

Terminal == {"completed", "error", "canceled"}
Handles == 1 .. MaxHandles
NoHandle == [id |-> 0, parent |-> 0]
Absent == [state |-> "absent", by |-> 0]
Task(state) == [Absent EXCEPT !.state = state]

(* RemoteDownloadTaskState: seen, a Status was received; root, its SavePath  *)
(* is not empty.                                                             *)
NewState == [phase |-> "new", handle |-> NoHandle, seen |-> FALSE, root |-> FALSE,
             tried |-> 0, transferred |-> {}]
Loaded(private) == [private |-> private, known |-> FALSE, state |-> NewState,
                    client |-> FALSE, undo |-> NewState, unmade |-> FALSE]
IdleDo == [pc |-> "idle", handle |-> 0, left |-> {}, failed |-> FALSE, next |-> "none"]

Init ==
    /\ db = [status |-> "queued", private |-> NewState, retries |-> 0]
    /\ up = TRUE
    /\ mem = Loaded(NewState)
    /\ do = IdleDo
    /\ waiting = FALSE
    /\ dl = [h \in Handles |-> Absent]
    /\ temp = FALSE
    /\ stored = {}
    /\ request = "idle"
    /\ mishaps = {}
    /\ requests = 0
    /\ faults = 0

Fault == faults < MaxFaults /\ faults' = faults + 1
NoFault == UNCHANGED faults
Mishap(what, happens) == mishaps' = IF happens THEN mishaps \cup {what} ELSE mishaps

-----------------------------------------------------------------------------
(* The downloader: external.                                                 *)

Alive(h) == dl[h].state \in {"active", "paused", "done", "seeding", "failed"}

(* A descriptor (a .torrent file) is followed by the task of its content.    *)
Followed(h) ==
    /\ dl[h].state = "active" /\ \A g \in Handles : dl[g].by # h
    /\ \E g \in Handles :
          /\ dl[g] = Absent
          /\ dl' = [dl EXCEPT ![h] = [state |-> "followed", by |-> g],
                              ![g] = Task("active")]
    /\ UNCHANGED temp

Finished(h) ==
    \/ /\ dl[h].state = "active"
       /\ \E s \in {"done", "seeding", "failed"} : dl' = [dl EXCEPT ![h].state = s]
       /\ temp' = TRUE
    \/ /\ dl[h].state = "seeding"
       /\ dl' = [dl EXCEPT ![h].state = "done"]
       /\ UNCHANGED temp

Downloads == /\ \E h \in Handles : Followed(h) \/ Finished(h)
             /\ UNCHANGED <<db, up, mem, do, waiting, stored, request, mishaps, counters>>

(* Gopeed's Cancel: the task and the one it follows are deleted, with the    *)
(* folder they share.                                                        *)
DeletedAlone(h) == [dl EXCEPT ![h.id] = Task("gone")]  \* mutant: without its parent
Deleted(h) == [g \in Handles |-> IF g \in {h.id, h.parent} THEN Task("gone") ELSE dl[g]]
HasChild(h) == h.id # 0 /\ dl[h.id].state = "followed"

CancelAt(h) ==
    /\ dl' = Deleted(h)
    /\ temp' = FALSE
    /\ Mishap("child", HasChild(h))

-----------------------------------------------------------------------------
(* Transitions of the queue.                                                 *)

(* Cleanup dereferences m.state, and m.d when there is a handle.             *)
Panics == ~mem.known \/ (mem.state.handle # NoHandle /\ ~mem.client)

(* A downloader that cannot be reached is only logged; the folder is then    *)
(* removed by its SavePath.                                                  *)
Cleanup ==
    IF mem.state.handle = NoHandle
    THEN UNCHANGED <<dl, temp, mishaps, faults>>
    ELSE \/ CancelAt(mem.state.handle) /\ NoFault
         \/ /\ Fault
            /\ temp' = (temp /\ ~(mem.state.seen /\ mem.state.root))
            /\ Mishap("kept", TRUE)
            /\ UNCHANGED dl

Persist(status) == db' = [db EXCEPT !.status = status, !.private = mem.private]

(* A panic of Cleanup is recovered by work, whose own transition to Error    *)
(* panics again: the process ends.                                           *)
End(status) ==
    IF Panics
    THEN up' = FALSE /\ UNCHANGED <<db, dl, temp, mishaps, faults>>
    ELSE Cleanup /\ Persist(status) /\ UNCHANGED up

Pickup ==
    /\ up /\ db.status \in {"queued", "suspending"} /\ do.pc = "idle"
    /\ Persist("processing")
    /\ do' = [IdleDo EXCEPT !.pc = "start"]
    /\ waiting' = TRUE
    /\ UNCHANGED <<up, mem, outside, request, mishaps, counters>>

(* run, then work: an error is retried unless it is critical.                *)
Suspend == Persist("suspending") /\ UNCHANGED <<up, dl, temp, mishaps, faults>>

Retry ==
    /\ db' = [db EXCEPT !.status = "suspending", !.private = mem.private,
                        !.retries = @ + 1]
    /\ UNCHANGED <<up, dl, temp, mishaps, faults>>

Transit ==
    /\ up /\ do.pc = "returned"
    /\ CASE ~waiting -> UNCHANGED <<db, up, dl, temp, mishaps, faults>>
         [] waiting /\ do.next = "suspending" -> Suspend
         [] waiting /\ do.next = "retry" /\ db.retries < MaxRetry -> Retry
         [] waiting /\ do.next = "retry" /\ db.retries >= MaxRetry -> End("error")
         [] waiting /\ do.next = "critical" -> End("error")
         [] waiting /\ do.next \in {"completed", "canceled"} -> End(do.next)
    /\ do' = IdleDo
    /\ waiting' = FALSE
    /\ UNCHANGED <<mem, stored, request, requests>>

(* The execution time, counted over all iterations, is over: the worker      *)
(* goes, Do is left to itself.  It may be over before Do has set m.state,    *)
(* when the iterations before a restart have used it up.                     *)
Timeout ==
    /\ up /\ waiting /\ do.pc \notin {"idle", "returned"}
    /\ mem.known \/ db.private # NewState
    /\ faults < MaxFaults
    /\ IF Panics
       THEN up' = FALSE /\ faults' = faults + 1 /\ UNCHANGED <<db, dl, temp, mishaps>>
       ELSE /\ faults' = faults + 1
            /\ Persist("error")
            /\ UNCHANGED up
            /\ IF mem.state.handle = NoHandle
               THEN UNCHANGED <<dl, temp>> /\ Mishap("orphan", do.pc = "created")
               ELSE CancelAt(mem.state.handle)
    /\ waiting' = FALSE
    /\ UNCHANGED <<mem, do, stored, request, requests>>

-----------------------------------------------------------------------------
(* Do.                                                                       *)

Doing(pc) == up /\ do.pc = pc
Return(next) == do' = [do EXCEPT !.pc = "marshal", !.next = next]
Set(state) == mem' = [mem EXCEPT !.state = state]
doFrame == <<db, up, waiting, request, requests>>

(* The state is read from the private state, a node and its downloader are   *)
(* found.                                                                    *)
Begin ==
    /\ Doing("start")
    /\ mem' = [mem EXCEPT !.known = TRUE, !.state = mem.private, !.client = TRUE,
                          !.unmade = FALSE]
    /\ do' = [do EXCEPT
          !.pc = CASE mem.private.phase = "new" -> "create"
                   [] mem.private.phase \in {"monitor", "seeding"} -> "monitor"
                   [] mem.private.phase = "transfer" -> "transfer",
          !.left = Files \ mem.private.transferred]
    /\ UNCHANGED <<doFrame, outside, mishaps, faults>>

(* No node, or no downloader: the private state is left as it was.           *)
NodeFails ==
    /\ Doing("start") /\ Fault
    /\ mem' = [mem EXCEPT !.known = TRUE, !.state = mem.private]
    /\ do' = [do EXCEPT !.pc = "returned", !.next = "retry"]
    /\ UNCHANGED <<doFrame, outside, mishaps>>

(* createDownloadTask.                                                       *)
Create ==
    /\ Doing("create")
    /\ IF mem.state.handle # NoHandle
       THEN Set([mem.state EXCEPT !.phase = "monitor"]) /\ Return("suspending")
            /\ UNCHANGED <<dl, mishaps>>
       ELSE /\ UNCHANGED mem
            /\ \/ Return("critical") /\ UNCHANGED <<dl, mishaps>>
               \/ \E h \in Handles :
                     /\ dl[h] = Absent
                     /\ dl' = [dl EXCEPT ![h] = Task("active")]
                     /\ do' = [do EXCEPT !.pc = "created", !.handle = h]
                     /\ Mishap("orphan", ~waiting)
    /\ UNCHANGED <<doFrame, temp, stored, faults>>

TakeHandle ==
    /\ Doing("created")
    /\ Set([mem.state EXCEPT !.handle = [id |-> do.handle, parent |-> 0],
                             !.phase = "monitor"])
    /\ Return("suspending")
    /\ UNCHANGED <<doFrame, outside, mishaps, faults>>

(* The request fails, or its answer is lost.                                 *)
CreateFails ==
    /\ up /\ do.pc \in {"create", "created"} /\ Fault
    /\ mem.state.handle = NoHandle
    /\ Return("retry")
    /\ Mishap("orphan", do.pc = "created")
    /\ UNCHANGED <<doFrame, mem, outside>>

(* Mutant: the tries are not counted.                                        *)
InfoFailsUncounted == Set(mem.state) /\ Return("suspending")

(* monitor.                                                                  *)
InfoFails ==
    LET tried == mem.state.tried + 1
    IN  /\ Set([mem.state EXCEPT !.tried = tried])
        /\ Return(IF tried >= MaxTried THEN "retry" ELSE "suspending")

Unreachable ==
    /\ Doing("monitor") /\ Fault
    /\ InfoFails
    /\ UNCHANGED <<doFrame, outside, mishaps>>

(* remoteDownloadReadyForTransfer: every file is on disk.                    *)
Observed(state) ==
    LET seen == [mem.state EXCEPT !.seen = TRUE, !.root = TRUE, !.tried = 0]
        first == mem.state.phase = "monitor"
    IN  CASE state = "done" /\ first /\ ~temp -> Set(seen) /\ Return("critical")
          [] state \in {"done", "seeding"} /\ first /\ temp ->
                Set([seen EXCEPT !.phase = "transfer"]) /\ Return("suspending")
          [] state = "done" /\ ~first -> Set(seen) /\ Return("completed")
          [] state = "seeding" /\ ~first /\ ~WaitForSeeding ->
                Set(seen) /\ Return("completed")
          [] state = "failed" -> Set(seen) /\ Return("critical")
          [] OTHER -> Set(seen) /\ Return("suspending")

(* validateFiles: the destination has no room, or refuses a name.            *)
Refused ==
    /\ ~mem.state.seen
    /\ Set([mem.state EXCEPT !.seen = TRUE, !.root = TRUE])
    /\ Return("critical")

Monitor ==
    /\ Doing("monitor")
    /\ LET h == mem.state.handle
           t == dl[h.id]
       IN  CASE t.state \in {"gone", "absent"} /\ mem.state.seen ->
                   UNCHANGED mem /\ Return("canceled")
             [] t.state \in {"gone", "absent"} /\ ~mem.state.seen -> InfoFails
             [] t.state = "followed" ->
                   /\ Set([mem.state EXCEPT !.handle = [id |-> t.by, parent |-> h.id]])
                   /\ Return("suspending")
             [] OTHER -> Observed(t.state) \/ Refused
    /\ UNCHANGED <<doFrame, outside, mishaps, faults>>

(* masterTransfer: one file.  A file that exists is not overwritten.         *)
Uploadable(f) == f \in do.left /\ f \notin stored /\ mem.state.root /\ temp

Upload(f) ==
    /\ Doing("transfer") /\ Uploadable(f) /\ ~mem.unmade
    /\ stored' = stored \cup {f}
    /\ Set([mem.state EXCEPT !.transferred = @ \cup {f}])
    /\ do' = [do EXCEPT !.left = @ \ {f}]
    /\ UNCHANGED <<doFrame, dl, temp, mishaps, faults>>

(* The file is stored, but a snapshot without the map of transferred files   *)
(* was put back meanwhile: its goroutine panics and ends the process.        *)
UploadPanics(f) ==
    /\ Doing("transfer") /\ Uploadable(f) /\ mem.unmade
    /\ stored' = stored \cup {f}
    /\ up' = FALSE
    /\ Mishap("repeat", TRUE)
    /\ UNCHANGED <<db, mem, do, waiting, dl, temp, request, counters>>

UploadFails(f) ==
    /\ Doing("transfer") /\ f \in do.left
    /\ IF Uploadable(f) THEN Fault ELSE NoFault
    /\ do' = [do EXCEPT !.left = @ \ {f}, !.failed = TRUE]
    /\ UNCHANGED <<doFrame, mem, outside, mishaps>>

(* Mutant: what failed is passed over.                                       *)
EndTransferAnyway ==
    /\ Doing("transfer") /\ do.left = {}
    /\ Set([mem.state EXCEPT !.phase = "seeding"]) /\ Return("suspending")
    /\ UNCHANGED <<doFrame, outside, mishaps, faults>>

EndTransfer ==
    /\ Doing("transfer") /\ do.left = {}
    /\ IF do.failed
       THEN UNCHANGED mem /\ Return("retry")
       ELSE Set([mem.state EXCEPT !.phase = "seeding"]) /\ Return("suspending")
    /\ UNCHANGED <<doFrame, outside, mishaps, faults>>

(* Its context was cancelled.                                                *)
StopTransfer ==
    /\ Doing("transfer") /\ ~waiting /\ do.left # {}
    /\ Return("retry")
    /\ UNCHANGED <<doFrame, mem, outside, mishaps, faults>>

(* Mutant: after an error the private state stays as it was.                 *)
MarshalUnlessFailed ==
    /\ Doing("marshal")
    /\ mem' = [mem EXCEPT !.private = IF do.next = "retry" THEN @ ELSE mem.state]
    /\ do' = [do EXCEPT !.pc = "returned"]
    /\ UNCHANGED <<doFrame, outside, mishaps, faults>>

(* The state becomes the private state, also after an error.                 *)
Marshal ==
    /\ Doing("marshal")
    /\ mem' = [mem EXCEPT !.private = mem.state]
    /\ do' = [do EXCEPT !.pc = "returned"]
    /\ UNCHANGED <<doFrame, outside, mishaps, faults>>

-----------------------------------------------------------------------------
(* Requests, one at a time, on the object the worker uses.                   *)

Asked == up /\ request = "idle" /\ requests < MaxRequests /\ requests' = requests + 1
Held == IF mem.known THEN mem.state ELSE mem.private
requestFrame == <<up, do, stored>>

(* CancelDownloadTask.  What waits in the queue is taken out, and nothing is *)
(* cleaned up, although a restart queues a task again that has a handle.     *)
CancelQueued ==
    /\ Asked /\ db.status = "queued" /\ do.pc = "idle"
    /\ Persist("canceled")
    /\ Mishap("kept", mem.private.handle # NoHandle)
    /\ UNCHANGED <<requestFrame, mem, waiting, dl, temp, request, faults>>

CancelDownload ==
    /\ Asked /\ db.status \in {"suspending", "processing"}
    /\ IF Held.handle = NoHandle
       THEN mem' = [mem EXCEPT !.known = TRUE, !.state = Held]
            /\ UNCHANGED <<dl, temp, mishaps>>
       ELSE mem' = [mem EXCEPT !.known = TRUE, !.state = Held, !.client = TRUE]
            /\ CancelAt(Held.handle)
    /\ request' = "cancel"
    /\ UNCHANGED <<requestFrame, db, waiting, faults>>

(* CancelTask: the worker, if any, is told to stop and goes.                 *)
CancelTask ==
    /\ up /\ request = "cancel"
    /\ request' = "idle"
    /\ IF db.status \in {"suspending", "processing"}
       THEN /\ Persist("canceled")
            /\ waiting' = FALSE
            /\ IF mem.state.handle = NoHandle
               THEN UNCHANGED <<dl, temp, faults>> /\ Mishap("orphan", do.pc = "created")
               ELSE Cleanup
       ELSE UNCHANGED <<db, waiting, dl, temp, mishaps, faults>>
    /\ UNCHANGED <<requestFrame, mem, requests>>

(* SetDownloadFiles: the summary it asks for redacts the path in the state   *)
(* itself, whether or not the files are then set.                            *)
Summarize ==
    /\ Asked /\ db.status \notin Terminal
    /\ mem' = [mem EXCEPT !.known = TRUE, !.state = [Held EXCEPT !.root = FALSE]]
    /\ request' = IF db.status \in {"suspending", "processing"} /\ Held.phase = "monitor"
                  THEN "target" ELSE "idle"
    /\ UNCHANGED <<requestFrame, db, waiting, dl, temp, mishaps, faults>>

SetDownloadTarget ==
    /\ up /\ request = "target"
    /\ IF mem.client /\ mem.state.seen /\ Alive(mem.state.handle.id)
       THEN /\ mem' = [mem EXCEPT !.private = mem.state, !.undo = mem.state]
            /\ request' = "set"
       ELSE UNCHANGED mem /\ request' = "idle"
    /\ UNCHANGED <<requestFrame, db, waiting, dl, temp, mishaps, counters>>

(* ControlDownload: pause or continue, then the status is asked for.         *)
ControlDownload ==
    /\ Asked /\ db.status \in {"suspending", "processing"}
    /\ LET h == Held.handle.id
       IN  /\ h # 0 /\ dl[h].state \in {"active", "paused"}
           /\ dl' = [dl EXCEPT ![h].state = IF @ = "active" THEN "paused" ELSE "active"]
           /\ LET state == [Held EXCEPT !.seen = TRUE, !.root = TRUE]
              IN  mem' = [mem EXCEPT !.private = state, !.known = TRUE,
                                     !.state = state, !.client = TRUE]
    /\ request' = "update"
    /\ UNCHANGED <<requestFrame, db, waiting, temp, mishaps, faults>>

(* queue.UpdateTask: the private state is written, whatever it is by now.    *)
UpdateTask ==
    /\ up /\ request \in {"set", "update"}
    /\ request' = "idle"
    /\ db' = [db EXCEPT !.private = mem.private]
    /\ mem' = [mem EXCEPT !.undo = NewState]
    /\ UNCHANGED <<requestFrame, waiting, dl, temp, mishaps, counters>>

(* The row cannot be written.  After a selection, restoreDownloadSelection   *)
(* puts the snapshot of before it back, whatever Do has done since; a map of *)
(* transferred files that was empty then is none now.                        *)
UpdateFails ==
    /\ up /\ request \in {"set", "update"} /\ Fault
    /\ request' = "idle"
    /\ IF request = "set"
       THEN /\ mem' = [mem EXCEPT !.private = mem.undo, !.state = mem.undo,
                                  !.undo = NewState,
                                  !.unmade = mem.undo.transferred = {}]
            /\ Mishap("repeat", mem.undo.transferred # mem.state.transferred)
       ELSE UNCHANGED <<mem, mishaps>>
    /\ UNCHANGED <<requestFrame, db, waiting, dl, temp, requests>>

(* The user deletes a task that has ended: what the row still names is       *)
(* cancelled first.                                                          *)
Delete ==
    /\ Asked /\ db.status \in Terminal
    /\ IF db.private.handle = NoHandle THEN UNCHANGED <<dl, temp, mishaps>>
       ELSE CancelAt(db.private.handle)
    /\ db' = [db EXCEPT !.status = "deleted"]
    /\ UNCHANGED <<requestFrame, mem, waiting, request, faults>>

-----------------------------------------------------------------------------
Kill ==
    /\ up /\ Fault
    /\ up' = FALSE
    /\ UNCHANGED <<db, mem, do, waiting, outside, request, mishaps, requests>>

(* The process is started again: unfinished tasks are queued.                *)
Start ==
    /\ ~up
    /\ up' = TRUE
    /\ db' = [db EXCEPT !.status = IF @ = "processing" THEN "queued" ELSE @]
    /\ mem' = Loaded(db.private)
    /\ do' = IdleDo
    /\ waiting' = FALSE
    /\ request' = "idle"
    /\ mishaps' = mishaps
          \cup (IF \/ do.pc = "created"
                   \/ mem.state.handle # NoHandle /\ db.private.handle = NoHandle
                THEN {"orphan"} ELSE {})
          \cup (IF mem.state.transferred \subseteq db.private.transferred
                THEN {} ELSE {"repeat"})
    /\ UNCHANGED <<outside, counters>>

-----------------------------------------------------------------------------
Worker ==
    \/ Pickup \/ Begin \/ NodeFails
    \/ Create \/ TakeHandle \/ CreateFails
    \/ Monitor \/ Unreachable
    \/ (\E f \in Files : Upload(f) \/ UploadPanics(f) \/ UploadFails(f)) \/ EndTransfer \/ StopTransfer
    \/ Marshal \/ Transit

Requests ==
    \/ CancelQueued \/ CancelDownload \/ CancelTask
    \/ Summarize \/ SetDownloadTarget
    \/ ControlDownload \/ UpdateTask \/ UpdateFails
    \/ Delete

Next == Worker \/ Timeout \/ Requests \/ Downloads \/ Kill \/ Start

(* The queue schedules its worker, a download that is not paused comes to an *)
(* end, a process that has ended is started again.                           *)
Fairness == WF_vars(Worker) /\ WF_vars(Downloads) /\ WF_vars(Start)

Spec == Init /\ [][Next]_vars /\ Fairness

-----------------------------------------------------------------------------
IsState(state) ==
    /\ state.phase \in {"new", "monitor", "transfer", "seeding"}
    /\ state.handle.id \in 0 .. MaxHandles /\ state.handle.parent \in 0 .. MaxHandles
    /\ state.seen \in BOOLEAN /\ state.root \in BOOLEAN
    /\ state.tried \in Nat
    /\ state.transferred \subseteq Files

TypeOK ==
    /\ db.status \in Terminal \cup {"queued", "processing", "suspending", "deleted"}
    /\ db.retries \in 0 .. MaxRetry
    /\ IsState(db.private) /\ IsState(mem.private)
    /\ IsState(mem.state) /\ IsState(mem.undo)
    /\ up \in BOOLEAN /\ waiting \in BOOLEAN /\ temp \in BOOLEAN
    /\ mem.known \in BOOLEAN /\ mem.client \in BOOLEAN /\ mem.unmade \in BOOLEAN
    /\ do.pc \in {"idle", "start", "create", "created", "monitor", "transfer",
                  "marshal", "returned"}
    /\ do.next \in {"none", "suspending", "completed", "canceled", "retry", "critical"}
    /\ \A h \in Handles :
          /\ dl[h].state \in {"absent", "active", "paused", "done", "seeding",
                              "failed", "followed", "gone"}
          /\ dl[h].by \in 0 .. MaxHandles
    /\ stored \subseteq Files
    /\ request \in {"idle", "cancel", "target", "set", "update"}
    /\ mishaps \subseteq {"child", "kept", "orphan", "repeat"}
    /\ requests \in 0 .. MaxRequests /\ faults \in 0 .. MaxFaults

(* A task that is completed has stored every file, whatever was retried,     *)
(* written by a request, or lost by a restart in the meantime.               *)
CompletedHasAll == db.status = "completed" => stored = Files

(* A task that has ended, in whatever way, leaves nothing behind in the      *)
(* downloader or on its disk, unless a download was created that nobody      *)
(* heard of, its content task was not known yet, or Cleanup could not reach  *)
(* the downloader or was left out.                                           *)
EndedLeavesNothing ==
    (db.status \in Terminal /\ do.pc = "idle" /\ mishaps \subseteq {"repeat"})
      => ~temp /\ \A h \in Handles : dl[h].state \in {"absent", "gone"}

(* A file is uploaded once: what is stored is known as transferred when the  *)
(* next attempt comes to it, although it fails on other files, is retried,   *)
(* or a request writes the state; unless the process ended in between.       *)
UploadedOnce ==
    (up /\ do.pc = "transfer" /\ "repeat" \notin mishaps) => do.left \cap stored = {}

(* Every task ends: its retries run out, and no race of a request with the   *)
(* worker leaves it suspended for ever, unless the user leaves it paused.    *)
Ends ==
    db.status \notin Terminal \cup {"deleted"}
      ~> (db.status \in Terminal \/ \E h \in Handles : dl[h].state = "paused")

(* Comment: "to handle panic cases from inside the worker in such case, we   *)
(* start a new goroutine" (pkg/queue/queue.go:301): a panic never ends the   *)
(* process.                                                                  *)
PanicsAreHandled == [][(Transit \/ Timeout) => up']_vars
=============================================================================
