------------------------ MODULE RemoteDownload_proofs ------------------------
(***************************************************************************)
(* Proofs about one remote download, for any set of files, any number of   *)
(* downloads, retries, requests and faults.                                *)
(***************************************************************************)
EXTENDS RemoteDownload, TLAPS

(***************************************************************************)
(* Records.  A task that is not new has a handle, and only that of a task  *)
(* with a handle has a status.                                             *)
(***************************************************************************)
Handle == {NoHandle} \cup [id : Handles, parent : 0 .. MaxHandles]
State == [phase : {"new", "monitor", "transfer", "seeding"}, handle : Handle,
          seen : BOOLEAN, root : BOOLEAN, tried : Nat, transferred : SUBSET Files]
Bound(state) == /\ state \in State
                /\ state.phase = "new" <=> state.handle = NoHandle
                /\ state.seen => state.handle # NoHandle
Row == [status : Terminal \cup {"queued", "processing", "suspending", "deleted"},
        private : State, retries : 0 .. MaxRetry]
Object == [private : State, known : BOOLEAN, state : State, client : BOOLEAN,
           undo : State, unmade : BOOLEAN]
Doer == [pc : {"idle", "start", "create", "created", "monitor", "transfer",
               "marshal", "returned"},
         handle : 0 .. MaxHandles, left : SUBSET Files, failed : BOOLEAN,
         next : {"none", "suspending", "completed", "canceled", "retry", "critical"}]
Download == [state : {"absent", "active", "paused", "done", "seeding",
                      "failed", "followed", "gone"},
             by : 0 .. MaxHandles]

(***************************************************************************)
(* Types, with what makes the handles that are used ones that exist.       *)
(***************************************************************************)
Recorded == db \in Row /\ mem \in Object /\ do \in Doer /\ dl \in [Handles -> Download]
Numbered ==
  /\ Bound(db.private) /\ Bound(mem.private) /\ Bound(mem.state) /\ Bound(mem.undo)
  /\ do.pc = "created" => do.handle \in Handles
  /\ \A h \in Handles : dl[h].state = "followed" => dl[h].by \in Handles
Flags ==
  /\ up \in BOOLEAN /\ waiting \in BOOLEAN /\ temp \in BOOLEAN
  /\ stored \subseteq Files
  /\ request \in {"idle", "cancel", "target", "set", "update"}
  /\ mishaps \subseteq {"child", "kept", "orphan", "repeat"}
  /\ requests \in 0 .. MaxRequests /\ faults \in 0 .. MaxFaults
Typed == Recorded /\ Numbered /\ Flags

(***************************************************************************)
(* The state a step of Do works on has a handle unless Do is creating the  *)
(* download.  Do follows a download that is not in the phase for it, by a  *)
(* snapshot put back, only when every file is stored.                      *)
(***************************************************************************)
InPhase ==
  /\ do.pc \notin {"idle", "start"} => mem.known
  /\ mem.client => mem.known
  /\ do.pc \in {"create", "created"} => mem.state.handle = NoHandle
  /\ do.pc \in {"monitor", "transfer"} => mem.state.handle # NoHandle
  /\ do.pc = "monitor" /\ mem.state.phase # "monitor" => stored = Files
  /\ do.pc \in {"idle", "start"} => do.next = "none" /\ ~do.failed
  /\ do.pc \in {"marshal", "returned"} => do.next # "none"

(***************************************************************************)
(* Each of the three copies of the state is true of the destination.       *)
(***************************************************************************)
Truthful(state) ==
  /\ state.transferred \subseteq stored
  /\ state.phase = "seeding" => stored = Files
Honest ==
  /\ Truthful(db.private) /\ Truthful(mem.private) /\ Truthful(mem.state)
  /\ do.pc = "transfer" /\ ~do.failed => Files \ do.left \subseteq stored
  /\ do.next = "completed" => stored = Files
  /\ db.status = "completed" => stored = Files

(***************************************************************************)
(* No copy that will be worked on has forgotten a file, unless a restart   *)
(* lost one: while Do runs its own state is complete, otherwise the        *)
(* private state is, and the row of an object nobody has touched.          *)
(***************************************************************************)
Remembered ==
  /\ ~mem.known => db.private = mem.private
  /\ do.pc = "transfer" => do.left \cap mem.state.transferred = {}
  /\ "repeat" \notin mishaps =>
        /\ stored \subseteq Held.transferred
        /\ do.pc \notin {"transfer", "marshal"} => stored \subseteq mem.private.transferred

(***************************************************************************)
(* The snapshot taken of the state before files are selected is not ahead  *)
(* of the state or of the private state, in its files or in its phase.     *)
(***************************************************************************)
Behind ==
  /\ mem.known
  /\ mem.undo.handle # NoHandle /\ mem.private.handle # NoHandle /\ mem.state.handle # NoHandle
  /\ mem.undo.transferred \subseteq mem.private.transferred
  /\ mem.undo.transferred \subseteq mem.state.transferred
  /\ Truthful(mem.undo)
  /\ mem.undo.phase # "monitor" => /\ mem.private.phase # "monitor" /\ mem.state.phase # "monitor"
                                   /\ do.pc = "monitor" => stored = Files
Snapshot ==
  /\ mem.undo.handle # NoHandle => request = "set"
  /\ request = "set" => Behind

Rest == InPhase /\ Honest /\ Remembered /\ Snapshot
DownloadInv == Typed /\ Rest

-----------------------------------------------------------------------------
(***************************************************************************)
(* The initial records have their types.                                   *)
(***************************************************************************)
LEMMA Fresh ==
  /\ Bound(NewState) /\ NewState.phase = "new" /\ NewState.transferred = {}
  /\ IdleDo \in Doer /\ IdleDo.pc = "idle" /\ IdleDo.next = "none" /\ ~IdleDo.failed
  /\ Absent \in Download /\ Absent.state = "absent"
  /\ \A s \in {"active", "gone"} : Task(s) \in Download /\ Task(s).state = s
<1>. USE DownloadAssumption DEF DownloadAssumption
<1>1. Bound(NewState) /\ NewState.phase = "new" /\ NewState.transferred = {}
  BY DEF Bound, NewState, State, Handle
<1>2. IdleDo \in Doer /\ IdleDo.pc = "idle" /\ IdleDo.next = "none" /\ ~IdleDo.failed
  BY DEF IdleDo, Doer
<1>3. Absent \in Download /\ Absent.state = "absent"
  BY DEF Absent, Download
<1>4. \A s \in {"active", "gone"} : Task(s) \in Download /\ Task(s).state = s
  BY <1>3 DEF Task, Download
<1>. QED  BY <1>1, <1>2, <1>3, <1>4

(***************************************************************************)
(* An object made from the row is that row's private state.                *)
(***************************************************************************)
LEMMA LoadedObject ==
  ASSUME NEW s, Bound(s)
  PROVE  /\ Loaded(s) \in Object /\ Loaded(s).private = s /\ Loaded(s).state = NewState
         /\ Loaded(s).undo = NewState /\ ~Loaded(s).known /\ ~Loaded(s).client
  BY Fresh DEF Loaded, Object, Bound

(***************************************************************************)
(* The invariant holds before anything is downloaded.                      *)
(***************************************************************************)
LEMMA InitInv == Init => DownloadInv
<1>. SUFFICES ASSUME Init PROVE DownloadInv
  OBVIOUS
<1>1. mem = Loaded(NewState) /\ do = IdleDo /\ db.private = NewState /\ db.status = "queued"
  BY DEF Init
<1>2. Typed
  <2>1. db \in Row
    BY Fresh, DownloadAssumption DEF DownloadAssumption, Init, Row, Bound
  <2>2. Recorded
    BY <1>1, <2>1, Fresh, LoadedObject DEF Recorded, Init
  <2>3. Numbered
    BY <1>1, Fresh, LoadedObject DEF Numbered, Init
  <2>4. Flags
    <3>1. 0 \in 0 .. MaxRequests /\ 0 \in 0 .. MaxFaults
      BY DownloadAssumption DEF DownloadAssumption
    <3>2. up = TRUE /\ waiting = FALSE /\ temp = FALSE /\ request = "idle"
      BY DEF Init
    <3>3. stored = {} /\ mishaps = {} /\ requests = 0 /\ faults = 0
      BY DEF Init
    <3>. QED  BY <3>1, <3>2, <3>3 DEF Flags
  <2>. QED  BY <2>2, <2>3, <2>4 DEF Typed
<1>3. Rest
  <2>1. InPhase /\ Honest /\ Remembered
    BY <1>1, Fresh, LoadedObject DEF Init, InPhase, Honest, Truthful, Remembered, Held
  <2>2. Snapshot
    BY <1>1, Fresh, LoadedObject DEF Init, Snapshot, NewState
  <2>. QED  BY <2>1, <2>2 DEF Rest
<1>. QED  BY <1>2, <1>3 DEF DownloadInv

-----------------------------------------------------------------------------
(***************************************************************************)
(* Cancelling at the downloader, for a handle that exists.                 *)
(***************************************************************************)
LEMMA CancelTyped ==
  ASSUME Typed, NEW h \in Handle, CancelAt(h)
  PROVE  /\ dl' \in [Handles -> Download] /\ temp' \in BOOLEAN
         /\ \A g \in Handles : dl'[g].state = "followed" => dl'[g].by \in Handles
         /\ mishaps' \subseteq {"child", "kept", "orphan", "repeat"}
         /\ mishaps \subseteq mishaps'
  BY Fresh DEF CancelAt, Deleted, Mishap, Typed, Recorded, Numbered, Flags

(***************************************************************************)
(* What a cleanup does to the downloader.                                  *)
(***************************************************************************)
Cleaned ==
  /\ dl' \in [Handles -> Download] /\ temp' \in BOOLEAN /\ faults' \in 0 .. MaxFaults
  /\ \A g \in Handles : dl'[g].state = "followed" => dl'[g].by \in Handles
  /\ mishaps' \subseteq {"child", "kept", "orphan", "repeat"}
  /\ "repeat" \in mishaps => "repeat" \in mishaps'
LEMMA CleanupTyped ==
  ASSUME Typed
  PROVE  /\ Cleanup => Cleaned
         /\ UNCHANGED <<dl, temp, mishaps, faults>> => Cleaned
<1>1. UNCHANGED <<dl, temp, mishaps, faults>> => Cleaned
  BY DEF Cleaned, Typed, Recorded, Numbered, Flags
<1>2. mem.state.handle \in Handle
  BY DEF Typed, Recorded, Object, State
<1>3. CancelAt(mem.state.handle) /\ NoFault => Cleaned
  BY <1>2, CancelTyped DEF NoFault, Cleaned, Typed, Flags
<1>4. ASSUME Fault, temp' \in BOOLEAN, Mishap("kept", TRUE), UNCHANGED dl
      PROVE  Cleaned
  BY <1>4, DownloadAssumption
     DEF DownloadAssumption, Fault, Mishap, Cleaned, Typed, Recorded, Numbered, Flags
<1>5. Cleanup => Cleaned
  BY <1>1, <1>3, <1>4 DEF Cleanup, Typed, Flags
<1>. QED  BY <1>1, <1>5

(***************************************************************************)
(* Transitions of the queue write the private state and a status.          *)
(***************************************************************************)
LEMMA Transition ==
  ASSUME Typed
  PROVE  /\ Suspend => Persist("suspending") /\ Cleaned
         /\ Retry /\ db.retries < MaxRetry =>
              /\ db' \in Row /\ db'.private = mem.private /\ db'.status = "suspending"
              /\ Cleaned
         /\ \A s : End(s) => (Persist(s) \/ UNCHANGED db) /\ Cleaned
         /\ \A s \in Terminal \cup {"queued", "processing", "suspending"} :
              Persist(s) => db' \in Row /\ db'.private = mem.private /\ db'.status = s
<1>. USE CleanupTyped
<1>1. Suspend => Persist("suspending") /\ Cleaned
  BY DEF Suspend
<1>2. Retry /\ db.retries < MaxRetry =>
              /\ db' \in Row /\ db'.private = mem.private /\ db'.status = "suspending"
              /\ Cleaned
  <2>. SUFFICES ASSUME Retry, db.retries < MaxRetry
                PROVE  /\ db' \in Row /\ db'.private = mem.private
                       /\ db'.status = "suspending" /\ Cleaned
    OBVIOUS
  <2>1. db \in Row /\ mem.private \in State
    BY DEF Typed, Recorded, Object
  <2>2. db.retries + 1 \in 0 .. MaxRetry
    BY <2>1, DownloadAssumption DEF DownloadAssumption, Row
  <2>. QED  BY <2>1, <2>2 DEF Retry, Row
<1>3. \A s : End(s) => (Persist(s) \/ UNCHANGED db) /\ Cleaned
  BY DEF End
<1>4. \A s \in Terminal \cup {"queued", "processing", "suspending"} :
              Persist(s) => db' \in Row /\ db'.private = mem.private /\ db'.status = s
  BY DEF Persist, Typed, Recorded, Row, Object
<1>. QED  BY <1>1, <1>2, <1>3, <1>4

-----------------------------------------------------------------------------
(***************************************************************************)
(* A new state of m.state.                                                 *)
(***************************************************************************)
LEMMA SetTyped ==
  ASSUME Recorded, NEW s, Bound(s), Set(s)
  PROVE  /\ mem' \in Object /\ mem'.state = s /\ mem'.private = mem.private
         /\ mem'.known = mem.known /\ mem'.client = mem.client /\ mem'.undo = mem.undo
  BY DEF Recorded, Set, Object, Bound

(***************************************************************************)
(* Do gives its result.                                                    *)
(***************************************************************************)
LEMMA ReturnTyped ==
  ASSUME Recorded, Return("suspending") \/ Return("completed") \/ Return("canceled")
                     \/ Return("retry") \/ Return("critical")
  PROVE  /\ do' \in Doer /\ do'.pc = "marshal"
         /\ do'.left = do.left /\ do'.failed = do.failed
  BY DEF Recorded, Return, Doer

(***************************************************************************)
(* The states a step or a request makes of another: they keep what is      *)
(* known of the files.                                                     *)
(***************************************************************************)
LEMMA Variants ==
  ASSUME NEW s, Bound(s), NEW tried \in Nat
  PROVE  /\ Bound([s EXCEPT !.tried = tried])
         /\ Bound([s EXCEPT !.root = FALSE])
         /\ s.handle # NoHandle =>
              /\ Bound([s EXCEPT !.seen = TRUE, !.root = TRUE])
              /\ Bound([s EXCEPT !.seen = TRUE, !.root = TRUE, !.tried = tried])
         /\ s.handle # NoHandle =>
              \A phase \in {"monitor", "transfer", "seeding"} :
                 /\ Bound([s EXCEPT !.phase = phase])
                 /\ Bound([s EXCEPT !.seen = TRUE, !.root = TRUE, !.tried = tried,
                                    !.phase = phase])
         /\ \A h \in Handle \ {NoHandle} :
               /\ s.handle # NoHandle => Bound([s EXCEPT !.handle = h])
               /\ Bound([s EXCEPT !.handle = h, !.phase = "monitor"])
         /\ \A f \in Files : Bound([s EXCEPT !.transferred = @ \cup {f}])
  BY DEF Bound, State

-----------------------------------------------------------------------------
(***************************************************************************)
(* Types, for a step of Do: the frame of the steps of the worker.          *)
(***************************************************************************)
LEMMA DoTyped ==
  ASSUME Typed, UNCHANGED doFrame, mem' \in Object, do' \in Doer, Bound(mem'.private),
         Bound(mem'.state), mem'.undo = mem.undo, do'.pc = "created" => do'.handle \in Handles,
         dl' \in [Handles -> Download],
         \A h \in Handles : dl'[h].state = "followed" => dl'[h].by \in Handles,
         temp' = temp, stored' \subseteq Files, faults' \in 0 .. MaxFaults,
         mishaps' \subseteq {"child", "kept", "orphan", "repeat"}
  PROVE  Typed'
  BY DEF Typed, Recorded, Numbered, Flags, doFrame

(***************************************************************************)
(* A step of Do that sets m.state or leaves it, and returns.               *)
(***************************************************************************)
LEMMA ReturnStep ==
  ASSUME Typed, UNCHANGED doFrame, UNCHANGED outside, UNCHANGED mishaps, faults' \in 0 .. MaxFaults,
         UNCHANGED mem \/ (\E s : Bound(s) /\ Set(s)),
         Return("suspending") \/ Return("completed") \/ Return("canceled")
           \/ Return("retry") \/ Return("critical")
  PROVE  Typed'
<1>1. mem' \in Object /\ Bound(mem'.private) /\ Bound(mem'.state) /\ mem'.undo = mem.undo
  BY SetTyped DEF Typed, Recorded, Numbered
<1>2. do' \in Doer /\ do'.pc = "marshal"
  BY ReturnTyped DEF Typed
<1>. QED  BY <1>1, <1>2, DoTyped DEF outside, Typed, Recorded, Numbered, Flags

(***************************************************************************)
(* A fault is one of the bounded number.                                   *)
(***************************************************************************)
LEMMA FaultTyped ==
  ASSUME Typed, Fault \/ NoFault \/ UNCHANGED faults \/ UNCHANGED counters
  PROVE  faults' \in 0 .. MaxFaults
  BY DownloadAssumption DEF DownloadAssumption, Fault, NoFault, counters, Typed, Flags

(***************************************************************************)
(* The steps of Do keep the types.                                         *)
(***************************************************************************)
LEMMA DoStepTyped ==
  ASSUME Typed, InPhase,
         \/ Begin \/ NodeFails \/ Create \/ TakeHandle \/ CreateFails
         \/ Monitor \/ Unreachable
         \/ (\E f \in Files : Upload(f) \/ UploadPanics(f) \/ UploadFails(f))
         \/ EndTransfer \/ StopTransfer \/ Marshal
  PROVE  Typed'
<1>. USE Fresh DEF Typed, Recorded, Numbered, Doing
<1>1. /\ mem \in Object /\ do \in Doer /\ Bound(mem.private) /\ Bound(mem.state)
      /\ mem.state.tried + 1 \in Nat /\ 0 \in Nat
  BY DEF Object, State, Bound
<1>2. faults' \in 0 .. MaxFaults
  BY FaultTyped DEF Begin, NodeFails, Create, TakeHandle, CreateFails, Monitor, Unreachable, Upload,
    UploadFails, UploadPanics, EndTransfer, StopTransfer, Marshal
<1>3. CASE Begin
  <2>1. mem' \in Object /\ Bound(mem'.private) /\ Bound(mem'.state) /\ mem'.undo = mem.undo
    BY <1>1, <1>3 DEF Begin, Object, Bound
  <2>2. mem.private.phase \in {"new", "monitor", "transfer", "seeding"}
    BY <1>1 DEF Bound, State
  <2>3. do' \in Doer /\ do'.pc # "created"
    BY <1>1, <1>3, <2>2 DEF Begin, Doer
  <2>. QED  BY <1>2, <1>3, <2>1, <2>3, DoTyped DEF Begin, outside, Flags
<1>4. CASE NodeFails
  <2>1. mem' \in Object /\ Bound(mem'.private) /\ Bound(mem'.state) /\ mem'.undo = mem.undo
    BY <1>1, <1>4 DEF NodeFails, Object, Bound
  <2>2. do' \in Doer /\ do'.pc # "created"
    BY <1>1, <1>4 DEF NodeFails, Doer
  <2>. QED  BY <1>2, <1>4, <2>1, <2>2, DoTyped DEF NodeFails, outside, Flags
<1>5. CASE Create
  <2>1. CASE mem.state.handle # NoHandle
    BY <1>1, <1>2, <1>5, <2>1, Variants, ReturnStep DEF Create, outside
  <2>2. CASE mem.state.handle = NoHandle
    <3>1. CASE Return("critical") /\ UNCHANGED <<dl, mishaps>>
      BY <1>2, <1>5, <2>2, <3>1, ReturnStep DEF Create, outside
    <3>2. ASSUME NEW h \in Handles, dl' = [dl EXCEPT ![h] = Task("active")],
                 do' = [do EXCEPT !.pc = "created", !.handle = h], Mishap("orphan", ~waiting)
          PROVE  Typed'
      <4>1. do' \in Doer /\ do'.pc = "created" /\ do'.handle = h
        <5>1. h \in 0 .. MaxHandles
          BY DownloadAssumption DEF DownloadAssumption, Handles
        <5>. QED  BY <1>1, <3>2, <5>1 DEF Doer
      <4>2. dl' \in [Handles -> Download]
            /\ \A g \in Handles : dl'[g].state = "followed" => dl'[g].by \in Handles
        BY <3>2
      <4>3. mishaps' \subseteq {"child", "kept", "orphan", "repeat"}
        BY <3>2 DEF Mishap, Flags
      <4>. QED  BY <1>1, <1>2, <1>5, <2>2, <4>1, <4>2, <4>3, DoTyped DEF Create, Flags
    <3>. QED  BY <1>5, <2>2, <3>1, <3>2 DEF Create
  <2>. QED  BY <2>1, <2>2
<1>6. CASE TakeHandle
  <2>1. [id |-> do.handle, parent |-> 0] \in Handle \ {NoHandle}
    BY <1>1, <1>6, DownloadAssumption DEF DownloadAssumption, TakeHandle, Handle, NoHandle, Handles
  <2>. QED  BY <1>1, <1>2, <1>6, <2>1, Variants, ReturnStep DEF TakeHandle
<1>7. CASE CreateFails
  <2>1. do' \in Doer /\ do'.pc # "created"
    BY <1>7, ReturnTyped DEF CreateFails
  <2>2. mishaps' \subseteq {"child", "kept", "orphan", "repeat"}
    BY <1>7 DEF CreateFails, Mishap, Flags
  <2>. QED  BY <1>1, <1>2, <1>7, <2>1, <2>2, DoTyped DEF CreateFails, outside, Flags
<1>8. CASE Monitor
  <2>1. UNCHANGED <<doFrame, outside, mishaps>>
    BY <1>8 DEF Monitor
  <2>2. mem.state.handle # NoHandle /\ mem.state.handle.id \in Handles /\ mem.state.handle \in Handle
    BY <1>1, <1>8 DEF Monitor, InPhase, Bound, Handle, State
  <2>3. InfoFails => Typed'
    <3>1. Bound([mem.state EXCEPT !.tried = mem.state.tried + 1])
      BY <1>1, Variants
    <3>. QED  BY <1>2, <2>1, <3>1, ReturnStep DEF InfoFails
  <2>4. ASSUME dl[mem.state.handle.id].state = "followed",
               Set([mem.state EXCEPT !.handle = [id |-> dl[mem.state.handle.id].by,
                                                 parent |-> mem.state.handle.id]]),
               Return("suspending")
        PROVE  Typed'
    <3>1. [id |-> dl[mem.state.handle.id].by, parent |-> mem.state.handle.id] \in Handle \ {NoHandle}
      BY <2>2, <2>4, DownloadAssumption DEF DownloadAssumption, Handle, NoHandle, Handles
    <3>. QED  BY <1>1, <1>2, <2>1, <2>2, <2>4, <3>1, Variants, ReturnStep
  <2>5. \A t : Observed(t) => Typed'
    BY <1>1, <1>2, <2>1, <2>2, Variants, ReturnStep DEF Observed
  <2>6. Refused => Typed'
    BY <1>1, <1>2, <2>1, <2>2, Variants, ReturnStep DEF Refused
  <2>7. UNCHANGED mem /\ Return("canceled") => Typed'
    BY <1>2, <2>1, ReturnStep
  <2>. QED  BY <1>8, <2>3, <2>4, <2>5, <2>6, <2>7 DEF Monitor
<1>9. CASE Unreachable
  BY <1>1, <1>2, <1>9, Variants, ReturnStep DEF Unreachable, InfoFails
<1>10. ASSUME NEW f \in Files, Upload(f) \/ UploadPanics(f) \/ UploadFails(f)
       PROVE  Typed'
  <2>1. CASE Upload(f)
    <3>1. do' \in Doer /\ do'.pc # "created"
      BY <1>1, <2>1 DEF Upload, Doer
    <3>2. Bound([mem.state EXCEPT !.transferred = @ \cup {f}])
      BY <1>1, Variants
    <3>3. /\ mem' \in Object /\ Bound(mem'.private) /\ Bound(mem'.state) /\ mem'.undo = mem.undo
          /\ stored' \subseteq Files
      BY <1>1, <2>1, <3>2, SetTyped DEF Upload, Flags
    <3>. QED  BY <1>2, <2>1, <3>1, <3>3, DoTyped DEF Upload, Flags
  <2>2. CASE UploadPanics(f)
    BY <1>1, <1>2, <2>2 DEF UploadPanics, Mishap, counters, Flags
  <2>3. CASE UploadFails(f)
    <3>1. do' \in Doer /\ do'.pc # "created"
      BY <1>1, <2>3 DEF UploadFails, Doer
    <3>. QED  BY <1>1, <1>2, <2>3, <3>1, DoTyped DEF UploadFails, outside, Flags
  <2>. QED  BY <1>10, <2>1, <2>2, <2>3
<1>11. CASE EndTransfer
  <2>1. mem.state.handle # NoHandle
    BY <1>11 DEF EndTransfer, InPhase
  <2>. QED  BY <1>1, <1>2, <1>11, <2>1, Variants, ReturnStep DEF EndTransfer
<1>12. CASE StopTransfer
  BY <1>2, <1>12, ReturnStep DEF StopTransfer
<1>13. CASE Marshal
  <2>1. mem' \in Object /\ Bound(mem'.private) /\ Bound(mem'.state) /\ mem'.undo = mem.undo
    BY <1>1, <1>13 DEF Marshal, Object, Bound
  <2>2. do' \in Doer /\ do'.pc # "created"
    BY <1>1, <1>13 DEF Marshal, Doer
  <2>. QED  BY <1>2, <1>13, <2>1, <2>2, DoTyped DEF Marshal, outside, Flags
<1>. QED  BY <1>3, <1>4, <1>5, <1>6, <1>7, <1>8, <1>9, <1>10, <1>11, <1>12, <1>13

-----------------------------------------------------------------------------
(***************************************************************************)
(* What a request works on.                                                *)
(***************************************************************************)
LEMMA HeldBound ==
  ASSUME Typed
  PROVE  Bound(Held) /\ Held \in State /\ Held.handle \in Handle
  BY DEF Typed, Numbered, Held, Bound, State

(***************************************************************************)
(* The transitions after an iteration of Do.                               *)
(***************************************************************************)
LEMMA TransitCases ==
  ASSUME Typed, InPhase, Transit
  PROVE  \/ UNCHANGED <<db, up, dl, temp, mishaps, faults>>
         \/ Suspend
         \/ db.retries < MaxRetry /\ Retry
         \/ \E s \in Terminal : End(s) /\ (s = "completed" => do.next = "completed")
<1>1. do \in Doer /\ db \in Row
  BY DEF Typed, Recorded
<1>2. /\ do.next \in {"none", "suspending", "completed", "canceled", "retry", "critical"}
      /\ db.retries < MaxRetry \/ db.retries >= MaxRetry
      /\ waiting \in BOOLEAN
  BY <1>1, DownloadAssumption DEF DownloadAssumption, Doer, Row, Typed, Flags
<1>3. do.next # "none"
  BY DEF Transit, InPhase
<1>4. CASE ~waiting
  BY <1>4 DEF Transit
<1>5. CASE waiting /\ do.next = "suspending"
  BY <1>5 DEF Transit
<1>6. CASE waiting /\ do.next = "retry" /\ db.retries < MaxRetry
  <2>1. ~(db.retries >= MaxRetry)
    BY <1>1, <1>6, DownloadAssumption DEF DownloadAssumption, Row
  <2>2. Transit => Retry
    BY <1>6, <2>1 DEF Transit
  <2>. QED  BY <1>6, <2>2
<1>7. CASE waiting /\ do.next = "retry" /\ db.retries >= MaxRetry
  BY <1>1, <1>7, DownloadAssumption DEF DownloadAssumption, Transit, Terminal, Row
<1>8. CASE waiting /\ do.next = "critical"
  BY <1>8 DEF Transit, Terminal
<1>9. CASE waiting /\ do.next \in {"completed", "canceled"}
  BY <1>9 DEF Transit, Terminal
<1>. QED  BY <1>2, <1>3, <1>4, <1>5, <1>6, <1>7, <1>8, <1>9

(***************************************************************************)
(* The other actions keep the types.                                       *)
(***************************************************************************)
LEMMA OtherTyped ==
  ASSUME Typed, InPhase,
         \/ Pickup \/ Transit \/ Timeout \/ Requests \/ Downloads \/ Kill \/ Start \/ UNCHANGED vars
  PROVE  Typed'
<1>. USE Fresh DEF Typed, Recorded, Numbered
<1>1. /\ mem \in Object /\ do \in Doer /\ db \in Row
      /\ Bound(mem.private) /\ Bound(mem.state) /\ Bound(mem.undo) /\ Bound(db.private)
  OBVIOUS
<1>2. /\ requests' = requests \/ Asked => requests' \in 0 .. MaxRequests
      /\ Fault \/ NoFault \/ faults' = faults => faults' \in 0 .. MaxFaults
  BY DownloadAssumption DEF DownloadAssumption, Asked, Fault, NoFault, Flags
<1>3. CASE Pickup
  <2>1. db' \in Row /\ db'.private = mem.private
    BY <1>3, Transition DEF Pickup
  <2>2. do' \in Doer /\ do'.pc # "created"
    BY <1>3 DEF Pickup, Doer
  <2>. QED  BY <1>1, <1>3, <2>1, <2>2 DEF Pickup, counters, outside, Flags
<1>4. CASE Transit
  <2>1. Cleaned /\ db' \in Row /\ Bound(db'.private) /\ up' \in BOOLEAN
    <3>1. CASE UNCHANGED <<db, up, dl, temp, mishaps, faults>>
      BY <1>1, <3>1, CleanupTyped DEF Flags
    <3>2. CASE Suspend
      BY <1>1, <3>2, Transition DEF Suspend, Flags
    <3>3. CASE db.retries < MaxRetry /\ Retry
      BY <1>1, <3>3, Transition DEF Retry, Flags
    <3>4. ASSUME NEW s \in Terminal, End(s)
          PROVE  Cleaned /\ db' \in Row /\ Bound(db'.private) /\ up' \in BOOLEAN
      <4>1. up' \in BOOLEAN
        BY <3>4 DEF End, Flags
      <4>. QED  BY <1>1, <3>4, <4>1, Transition
    <3>. QED  BY <1>4, <3>1, <3>2, <3>3, <3>4, TransitCases
  <2>. QED  BY <1>1, <1>2, <1>4, <2>1 DEF Transit, Cleaned, Flags
<1>5. CASE Timeout
  <2>1. db' \in Row /\ Bound(db'.private)
    BY <1>1, <1>5, Transition DEF Timeout, Terminal
  <2>2. mem.state.handle \in Handle
    BY <1>1 DEF Object, State
  <2>3. /\ dl' \in [Handles -> Download] /\ temp' \in BOOLEAN
        /\ \A g \in Handles : dl'[g].state = "followed" => dl'[g].by \in Handles
        /\ mishaps' \subseteq {"child", "kept", "orphan", "repeat"}
    BY <1>5, <2>2, CancelTyped DEF Timeout, Mishap, Flags
  <2>4. faults' \in 0 .. MaxFaults
    BY <1>2, <1>5 DEF Timeout, Fault
  <2>. QED  BY <1>1, <1>2, <1>5, <2>1, <2>3, <2>4 DEF Timeout, Flags
<1>6. CASE CancelQueued
  <2>1. db' \in Row /\ Bound(db'.private)
    BY <1>1, <1>6, Transition DEF CancelQueued, Terminal
  <2>. QED  BY <1>1, <1>2, <1>6, <2>1 DEF CancelQueued, Mishap, requestFrame, Flags
<1>7. CASE CancelDownload
  <2>1. mem' \in Object /\ mem'.private = mem.private /\ Bound(mem'.state) /\ mem'.undo = mem.undo
    BY <1>1, <1>7, HeldBound DEF CancelDownload, Object
  <2>2. CASE Held.handle = NoHandle
    BY <1>1, <1>2, <1>7, <2>1, <2>2 DEF CancelDownload, requestFrame, Flags
  <2>3. CASE Held.handle # NoHandle
    BY <1>1, <1>2, <1>7, <2>1, <2>3, HeldBound, CancelTyped DEF CancelDownload, requestFrame, Flags
  <2>. QED  BY <2>2, <2>3
<1>8. CASE CancelTask
  <2>1. db' \in Row /\ Bound(db'.private) /\ waiting' \in BOOLEAN
    BY <1>1, <1>8, Transition DEF CancelTask, Terminal, Flags
  <2>2. Cleaned
    <3>1. CASE UNCHANGED <<dl, temp, faults>> /\ Mishap("orphan", do.pc = "created")
      BY <3>1 DEF Mishap, Cleaned, Flags
    <3>. QED  BY <1>8, <3>1, CleanupTyped DEF CancelTask
  <2>. QED  BY <1>1, <1>2, <1>8, <2>1, <2>2 DEF CancelTask, Cleaned, requestFrame, Flags
<1>9. CASE Summarize
  <2>1. mem' \in Object /\ mem'.private = mem.private /\ Bound(mem'.state) /\ mem'.undo = mem.undo
    <3>1. Bound([Held EXCEPT !.root = FALSE])
      BY HeldBound, Variants, 0 \in Nat
    <3>. QED  BY <1>1, <1>9, <3>1 DEF Summarize, Object, Bound
  <2>. QED  BY <1>1, <1>2, <1>9, <2>1 DEF Summarize, requestFrame, Flags
<1>10. CASE SetDownloadTarget
  <2>1. mem' \in Object /\ Bound(mem'.private) /\ Bound(mem'.state) /\ Bound(mem'.undo)
    BY <1>1, <1>10 DEF SetDownloadTarget, Object, Bound
  <2>. QED  BY <1>1, <1>2, <1>10, <2>1 DEF SetDownloadTarget, requestFrame, counters, Flags
<1>11. CASE ControlDownload
  <2>1. Bound([Held EXCEPT !.seen = TRUE, !.root = TRUE])
    <3>1. Held.handle # NoHandle
      BY <1>11 DEF ControlDownload, NoHandle
    <3>. QED  BY <3>1, HeldBound, Variants, 0 \in Nat
  <2>2. mem' \in Object /\ Bound(mem'.private) /\ Bound(mem'.state) /\ mem'.undo = mem.undo
    BY <1>1, <1>11, <2>1 DEF ControlDownload, Object, Bound
  <2>3. PICK h \in 1 .. MaxHandles : \E s \in {"active", "paused"} : dl' = [dl EXCEPT ![h].state = s]
    <3>1. Held.handle.id # 0
      BY <1>11 DEF ControlDownload
    <3>2. Held.handle.id \in 1 .. MaxHandles
      BY <3>1, HeldBound DEF Handle, NoHandle, Handles
    <3>. QED  BY <1>11, <3>2 DEF ControlDownload
  <2>4. /\ dl' \in [Handles -> Download]
        /\ \A g \in Handles : dl'[g].state = "followed" => dl'[g].by \in Handles
    BY <2>3 DEF Download, Handles
  <2>. QED  BY <1>1, <1>2, <1>11, <2>2, <2>4 DEF ControlDownload, requestFrame, Flags
<1>12. CASE UpdateTask
  <2>1. db' \in Row /\ db'.private = mem.private
    BY <1>1, <1>12 DEF UpdateTask, Row, Object
  <2>2. mem' \in Object /\ mem'.private = mem.private /\ mem'.state = mem.state /\ Bound(mem'.undo)
    BY <1>1, <1>12 DEF UpdateTask, Object, Bound
  <2>. QED  BY <1>1, <1>12, <2>1, <2>2 DEF UpdateTask, requestFrame, counters, Flags
<1>13. CASE Delete
  <2>1. db' \in Row /\ db'.private = db.private
    BY <1>1, <1>13 DEF Delete, Row
  <2>2. db.private.handle \in Handle
    BY <1>1 DEF Bound, State
  <2>3. CASE UNCHANGED <<dl, temp, mishaps>>
    BY <1>1, <1>2, <1>13, <2>1, <2>3 DEF Delete, requestFrame, Flags
  <2>4. CASE CancelAt(db.private.handle)
    BY <1>1, <1>2, <1>13, <2>1, <2>2, <2>4, CancelTyped DEF Delete, requestFrame, Flags
  <2>. QED  BY <1>13, <2>3, <2>4 DEF Delete
<1>14. CASE Downloads
  <2>1. PICK h \in Handles : Followed(h) \/ Finished(h)
    BY <1>14 DEF Downloads
  <2>2. CASE Followed(h)
    <3>1. PICK g \in Handles : /\ dl[g] = Absent
                               /\ dl' = [dl EXCEPT ![h] = [state |-> "followed", by |-> g],
                                                   ![g] = Task("active")]
      BY <2>2 DEF Followed
    <3>2. [state |-> "followed", by |-> g] \in Download
      BY DownloadAssumption DEF DownloadAssumption, Download, Handles
    <3>3. /\ dl' \in [Handles -> Download]
          /\ \A i \in Handles : dl'[i].state = "followed" => dl'[i].by \in Handles
      BY <3>1, <3>2
    <3>. QED  BY <1>1, <1>14, <2>2, <3>3 DEF Followed, Downloads, counters, Flags
  <2>3. CASE Finished(h)
    <3>1. /\ dl' \in [Handles -> Download] /\ temp' \in BOOLEAN
          /\ \A i \in Handles : dl'[i].state = "followed" => dl'[i].by \in Handles
      <4>1. CASE dl[h].state = "active"
        <5>1. PICK s \in {"done", "seeding", "failed"} : dl' = [dl EXCEPT ![h].state = s]
          BY <2>3, <4>1 DEF Finished
        <5>2. temp' \in BOOLEAN
          BY <2>3, <4>1 DEF Finished
        <5>. QED  BY <5>1, <5>2 DEF Download
      <4>2. CASE dl[h].state = "seeding"
        <5>1. dl' = [dl EXCEPT ![h].state = "done"]
          BY <2>3, <4>2 DEF Finished
        <5>2. temp' \in BOOLEAN
          BY <2>3, <4>2 DEF Finished, Flags
        <5>. QED  BY <5>1, <5>2 DEF Download
      <4>. QED  BY <2>3, <4>1, <4>2 DEF Finished
    <3>. QED  BY <1>1, <1>14, <3>1 DEF Downloads, counters, Flags
  <2>. QED  BY <2>1, <2>2, <2>3
<1>15. CASE Kill
  BY <1>1, <1>2, <1>15 DEF Kill, outside, Flags
<1>16. CASE Start
  <2>1. db' \in Row /\ db'.private = db.private
    BY <1>1, <1>16 DEF Start, Row
  <2>2. mem' \in Object /\ Bound(mem'.private) /\ Bound(mem'.state) /\ Bound(mem'.undo)
    BY <1>1, <1>16, LoadedObject DEF Start
  <2>3. mishaps' \subseteq {"child", "kept", "orphan", "repeat"}
    BY <1>16 DEF Start, Flags
  <2>. QED  BY <1>1, <1>16, <2>1, <2>2, <2>3 DEF Start, outside, counters, Flags
<1>17. CASE UpdateFails
  <2>1. mem' \in Object /\ Bound(mem'.private) /\ Bound(mem'.state) /\ Bound(mem'.undo)
    BY <1>1, <1>17 DEF UpdateFails, Object, Bound
  <2>2. mishaps' \subseteq {"child", "kept", "orphan", "repeat"}
    BY <1>17 DEF UpdateFails, Mishap, Flags
  <2>. QED  BY <1>1, <1>2, <1>17, <2>1, <2>2 DEF UpdateFails, requestFrame, Flags
<1>18. CASE UNCHANGED vars
  BY <1>18 DEF vars, Flags
<1>. QED  BY <1>3, <1>4, <1>5, <1>6, <1>7, <1>8, <1>9, <1>10, <1>11, <1>12, <1>13, <1>14, <1>15, <1>16,
            <1>17, <1>18 DEF Requests

-----------------------------------------------------------------------------
(***************************************************************************)
(* A step that neither uploads nor sets a state: what is true stays so.    *)
(***************************************************************************)
LEMMA RestFrame ==
  ASSUME DownloadInv, UNCHANGED <<do, stored>>,
         mem'.private = mem.private, mem'.state = mem.state, mem'.known = mem.known,
         mem'.client = mem.client, "repeat" \in mishaps => "repeat" \in mishaps',
         \/ request' = request /\ mem'.undo = mem.undo
         \/ request' # "set" /\ request # "set" /\ mem'.undo = mem.undo
         \/ request' # "set" /\ mem'.undo = NewState,
         db'.private = mem.private \/ db'.private = db.private,
         db'.status = "completed" => db.status = "completed" \/ do.next = "completed"
  PROVE  Rest'
<1>1. InPhase' /\ Honest' /\ Remembered'
  BY DEF DownloadInv, Rest, InPhase, Honest, Truthful, Remembered, Held
<1>2. Snapshot'
  BY Fresh DEF DownloadInv, Rest, Snapshot, Behind, Truthful, NewState
<1>. QED  BY <1>1, <1>2 DEF Rest

(***************************************************************************)
(* The snapshot stays behind as long as nothing is taken back.             *)
(***************************************************************************)
LEMMA StillBehind ==
  ASSUME Rest, request' = request, mem'.undo = mem.undo, stored \subseteq stored', stored' \subseteq Files,
         Behind => /\ mem'.known /\ mem'.private.handle # NoHandle /\ mem'.state.handle # NoHandle
                   /\ mem.undo.transferred \subseteq mem'.private.transferred
                   /\ mem.undo.transferred \subseteq mem'.state.transferred
                   /\ mem.undo.phase # "monitor" =>
                         /\ mem'.private.phase # "monitor" /\ mem'.state.phase # "monitor"
                         /\ do'.pc = "monitor" => stored' = Files
  PROVE  Snapshot'
  BY DEF Rest, Snapshot, Behind, Truthful

(***************************************************************************)
(* The steps of Do.                                                        *)
(***************************************************************************)
LEMMA DoStepRest ==
  ASSUME DownloadInv,
         \/ Begin \/ NodeFails \/ Create \/ TakeHandle \/ CreateFails
         \/ Monitor \/ Unreachable
         \/ (\E f \in Files : Upload(f) \/ UploadPanics(f) \/ UploadFails(f))
         \/ EndTransfer \/ StopTransfer \/ Marshal
  PROVE  Rest'
<1>1. /\ mem \in Object /\ do \in Doer /\ Bound(mem.private) /\ Bound(mem.state)
      /\ mem.private \in State /\ mem.state \in State
      /\ stored \subseteq Files /\ mem.state.tried + 1 \in Nat
  BY DEF DownloadInv, Typed, Recorded, Numbered, Flags, Bound, State
<1>. USE DEF DownloadInv, Rest, Doing, doFrame
<1>2. Begin => Rest'
  <2>. SUFFICES ASSUME Begin PROVE Rest'
    OBVIOUS
  <2>1. UNCHANGED <<db, stored, mishaps>>
    BY DEF Begin, outside
  <2>2. mem'.known /\ mem'.client /\ mem'.private = mem.private /\ mem'.state = mem.private
    BY <1>1 DEF Begin, Object
  <2>3. /\ do'.left = Files \ mem.private.transferred /\ do'.failed = do.failed /\ do'.next = do.next
        /\ \/ do'.pc = "create" /\ mem.private.phase = "new"
           \/ do'.pc = "monitor" /\ mem.private.phase \in {"monitor", "seeding"}
           \/ do'.pc = "transfer" /\ mem.private.phase = "transfer"
    <3>1. PICK pc \in {"create", "monitor", "transfer"} :
             /\ do' = [do EXCEPT !.pc = pc, !.left = Files \ mem.private.transferred]
             /\ pc = "create" => mem.private.phase = "new"
             /\ pc = "monitor" => mem.private.phase \in {"monitor", "seeding"}
             /\ pc = "transfer" => mem.private.phase = "transfer"
      <4>1. mem.private.phase \in {"new", "monitor", "transfer", "seeding"}
        BY <1>1 DEF State
      <4>. QED  BY <4>1 DEF Begin
    <3>. QED  BY <1>1, <3>1 DEF Doer
  <2>4. InPhase'
    BY <1>1, <2>1, <2>2, <2>3 DEF InPhase, Bound, Honest, Truthful
  <2>5. Honest'
    BY <1>1, <2>1, <2>2, <2>3 DEF Honest, Truthful
  <2>6. Remembered'
    BY <2>1, <2>2, <2>3 DEF Remembered, Held, Begin
  <2>7. Snapshot'
    <3>1. mem'.undo = mem.undo
      BY <1>1 DEF Begin, Object
    <3>2. ASSUME Behind, mem.undo.phase # "monitor", do'.pc = "monitor"
          PROVE  stored' = Files
      BY <2>1, <2>3, <3>2 DEF Behind, Honest, Truthful
    <3>3. Behind => /\ mem.private.handle # NoHandle
                    /\ mem.undo.transferred \subseteq mem.private.transferred
                    /\ mem.undo.phase # "monitor" => mem.private.phase # "monitor"
      BY DEF Behind
    <3>. QED  BY <1>1, <2>1, <2>2, <3>1, <3>2, <3>3, StillBehind DEF Begin
  <2>. QED  BY <2>4, <2>5, <2>6, <2>7
<1>3. NodeFails => Rest'
  <2>. SUFFICES ASSUME NodeFails PROVE Rest'
    OBVIOUS
  <2>2. /\ mem'.known /\ mem'.client = mem.client /\ mem'.private = mem.private
        /\ mem'.state = mem.private /\ do'.pc = "returned" /\ do'.next = "retry"
        /\ UNCHANGED <<db, stored, mishaps>>
    BY <1>1 DEF NodeFails, outside, Object, Doer
  <2>4. InPhase'
    BY <2>2 DEF InPhase
  <2>5. Honest'
    BY <1>1, <2>2 DEF Honest, Truthful
  <2>6. Remembered'
    BY <2>2 DEF Remembered, Held, NodeFails
  <2>7. Snapshot'
    <3>1. mem'.undo = mem.undo
      BY <1>1 DEF NodeFails, Object
    <3>. QED  BY <1>1, <2>2, <3>1, StillBehind DEF Behind, NodeFails
  <2>. QED  BY <2>4, <2>5, <2>6, <2>7
<1>4. ASSUME NEW next \in {"suspending", "completed", "canceled", "retry", "critical"},
             Return(next), UNCHANGED <<db, stored>>, "repeat" \in mishaps => "repeat" \in mishaps',
             do.pc \notin {"idle", "start", "returned"},
             mem'.private = mem.private, mem'.known = mem.known, mem'.client = mem.client,
             request' = request, mem'.undo = mem.undo,
             mem.state.handle # NoHandle =>
                mem'.state.handle # NoHandle /\ mem'.state.phase \in {mem.state.phase, "transfer", "seeding"},
             mem'.state.transferred = mem.state.transferred,
             mem'.state.phase = "seeding" => mem.state.phase = "seeding" \/ stored = Files,
             next = "completed" => stored = Files
      PROVE  Rest'
  <2>1. do'.pc = "marshal" /\ do'.next = next
    BY <1>1, <1>4 DEF Return, Doer
  <2>2. InPhase'
    BY <1>4, <2>1 DEF InPhase
  <2>3. Honest'
    BY <1>1, <1>4, <2>1 DEF Honest, Truthful
  <2>4. Remembered'
    BY <1>4, <2>1 DEF Remembered, Held, InPhase
  <2>5. Snapshot'
    BY <1>1, <1>4, <2>1, StillBehind DEF Behind
  <2>. QED  BY <2>2, <2>3, <2>4, <2>5
<1>5. ASSUME NEW next \in {"suspending", "completed", "canceled", "retry", "critical"},
             Return(next), UNCHANGED <<db, stored>>, "repeat" \in mishaps => "repeat" \in mishaps',
             do.pc \notin {"idle", "start", "returned"}, NEW s, Bound(s), Set(s),
             request' = request,
             mem.state.handle # NoHandle =>
                s.handle # NoHandle /\ s.phase \in {mem.state.phase, "transfer", "seeding"},
             s.transferred = mem.state.transferred,
             s.phase = "seeding" => mem.state.phase = "seeding" \/ stored = Files,
             next = "completed" => stored = Files
      PROVE  Rest'
  BY <1>4, <1>5, SetTyped DEF Typed
<1>6. Create => Rest'
  <2>. SUFFICES ASSUME Create PROVE Rest'
    OBVIOUS
  <2>1. mem.state.handle = NoHandle
    BY DEF Create, InPhase
  <2>2. CASE mem.state.handle = NoHandle /\ Return("critical")
    BY <1>4, <2>2 DEF Create, outside, Mishap
  <2>3. CASE /\ mem.state.handle = NoHandle
             /\ \E h \in Handles : do' = [do EXCEPT !.pc = "created", !.handle = h]
    <3>1. /\ do'.pc = "created" /\ do'.next = do.next /\ do'.failed = do.failed
          /\ UNCHANGED <<mem, db, stored>>
          /\ "repeat" \in mishaps => "repeat" \in mishaps'
      BY <1>1, <2>3 DEF Create, Doer, Mishap, Return
    <3>2. InPhase' /\ Honest' /\ Remembered'
      BY <3>1 DEF InPhase, Honest, Truthful, Remembered, Held, Create
    <3>3. Snapshot'
      BY <1>1, <2>1, <3>1, StillBehind DEF Create, Behind
    <3>. QED  BY <3>2, <3>3
  <2>. QED  BY <2>1, <2>2, <2>3 DEF Create
<1>7. TakeHandle => Rest'
  <2>. SUFFICES ASSUME TakeHandle PROVE Rest'
    OBVIOUS
  <2>1. [id |-> do.handle, parent |-> 0] \in Handle \ {NoHandle}
    BY <1>1, DownloadAssumption
       DEF DownloadAssumption, TakeHandle, Handle, NoHandle, Handles, Typed, Numbered
  <2>2. Bound([mem.state EXCEPT !.handle = [id |-> do.handle, parent |-> 0], !.phase = "monitor"])
    BY <1>1, <2>1, Variants
  <2>3. mem.state.handle = NoHandle
    BY DEF TakeHandle, InPhase
  <2>. QED  BY <1>1, <1>5, <2>2, <2>3 DEF TakeHandle, outside, State
<1>8. CreateFails => Rest'
  BY <1>4 DEF CreateFails, outside, Mishap
<1>9. Monitor => Rest'
  <2>. SUFFICES ASSUME Monitor PROVE Rest'
    OBVIOUS
  <2>1. UNCHANGED <<db, stored, mishaps, request>> /\ do.pc = "monitor"
    BY DEF Monitor, outside
  <2>2. mem.state.handle # NoHandle /\ mem.state.handle.id \in Handles /\ mem.state.handle \in Handle
    BY <1>1, <2>1 DEF InPhase, Handle, State
  <2>3. InfoFails => Rest'
    <3>1. Bound([mem.state EXCEPT !.tried = mem.state.tried + 1])
      BY <1>1, Variants
    <3>. QED  BY <1>1, <1>5, <2>1, <3>1 DEF InfoFails, State
  <2>4. ASSUME dl[mem.state.handle.id].state = "followed",
               Set([mem.state EXCEPT !.handle = [id |-> dl[mem.state.handle.id].by,
                                                 parent |-> mem.state.handle.id]]),
               Return("suspending")
        PROVE  Rest'
    <3>1. [id |-> dl[mem.state.handle.id].by, parent |-> mem.state.handle.id] \in Handle \ {NoHandle}
      BY <2>2, <2>4, DownloadAssumption
         DEF DownloadAssumption, Handle, NoHandle, Handles, Typed, Numbered
    <3>2. Bound([mem.state EXCEPT !.handle = [id |-> dl[mem.state.handle.id].by,
                                              parent |-> mem.state.handle.id]])
      BY <1>1, <2>2, <3>1, Variants
    <3>. QED  BY <1>1, <1>5, <2>1, <2>4, <3>1, <3>2 DEF State
  <2>5. ASSUME NEW t, Observed(t)
        PROVE  Rest'
    <3>. DEFINE seen == [mem.state EXCEPT !.seen = TRUE, !.root = TRUE, !.tried = 0]
                onward == [mem.state EXCEPT !.seen = TRUE, !.root = TRUE, !.tried = 0,
                                            !.phase = "transfer"]
    <3>1. Bound(seen) /\ Bound(onward)
      BY <1>1, <2>2, Variants, 0 \in Nat
    <3>2. /\ seen.transferred = mem.state.transferred /\ seen.phase = mem.state.phase
          /\ onward.transferred = mem.state.transferred /\ onward.phase = "transfer"
          /\ seen.handle = mem.state.handle /\ onward.handle = mem.state.handle
      BY <1>1 DEF State
    <3>3. mem.state.phase # "monitor" => stored = Files
      BY <2>1 DEF InPhase
    <3>4. \/ Set(onward) /\ Return("suspending")
          \/ Set(seen) /\ (\/ Return("suspending") \/ Return("critical")
                           \/ Return("completed") /\ stored = Files)
      BY <2>5, <3>3 DEF Observed
    <3>. QED  BY <1>5, <2>1, <2>2, <3>1, <3>2, <3>4
  <2>6. Refused => Rest'
    <3>1. Bound([mem.state EXCEPT !.seen = TRUE, !.root = TRUE])
      BY <1>1, <2>2, Variants, 0 \in Nat
    <3>. QED  BY <1>1, <1>5, <2>1, <3>1 DEF Refused, State
  <2>7. UNCHANGED mem /\ Return("canceled") => Rest'
    BY <1>4, <2>1
  <2>. QED  BY <2>3, <2>4, <2>5, <2>6, <2>7 DEF Monitor
<1>10. Unreachable => Rest'
  <2>1. Bound([mem.state EXCEPT !.tried = mem.state.tried + 1])
    BY <1>1, Variants
  <2>. QED  BY <1>1, <1>5, <2>1 DEF Unreachable, InfoFails, outside, State
<1>11. ASSUME NEW f \in Files, Upload(f)
       PROVE  Rest'
  <2>1. /\ UNCHANGED <<db, mishaps>> /\ do.pc = "transfer" /\ f \in do.left
        /\ stored' = stored \cup {f} /\ Set([mem.state EXCEPT !.transferred = @ \cup {f}])
    BY <1>11 DEF Upload, Uploadable
  <2>2. Bound([mem.state EXCEPT !.transferred = @ \cup {f}])
    BY <1>1, Variants
  <2>3. /\ mem'.private = mem.private /\ mem'.known = mem.known /\ mem'.client = mem.client
        /\ mem'.state.transferred = mem.state.transferred \cup {f} /\ mem'.state.phase = mem.state.phase
        /\ mem'.state.handle = mem.state.handle
    BY <1>1, <2>1, <2>2, SetTyped DEF Typed, State
  <2>4. /\ do'.pc = "transfer" /\ do'.left = do.left \ {f} /\ do'.failed = do.failed
        /\ do'.next = do.next
    BY <1>1, <1>11, <2>1 DEF Upload, Doer
  <2>5. InPhase'
    BY <2>1, <2>3, <2>4 DEF InPhase
  <2>6. Honest'
    BY <1>1, <2>1, <2>3, <2>4 DEF Honest, Truthful
  <2>7. Remembered'
    BY <2>1, <2>3, <2>4 DEF Remembered, Held, InPhase
  <2>8. Snapshot'
    <3>1. mem'.undo = mem.undo /\ request' = request
      BY <1>11, <2>1, <2>2, SetTyped DEF Upload, Typed
    <3>. QED  BY <1>1, <2>1, <2>3, <2>4, <3>1, StillBehind DEF Behind
  <2>. QED  BY <2>5, <2>6, <2>7, <2>8
<1>15. ASSUME NEW f \in Files, UploadPanics(f)
       PROVE  Rest'
  <2>1. /\ UNCHANGED <<db, mem, do>> /\ do.pc = "transfer" /\ stored' = stored \cup {f}
        /\ "repeat" \in mishaps'
    BY <1>15 DEF UploadPanics, Mishap
  <2>2. InPhase' /\ Honest' /\ Remembered'
    BY <1>1, <2>1 DEF InPhase, Honest, Truthful, Remembered, Held
  <2>3. Snapshot'
    BY <1>1, <1>15, <2>1, StillBehind DEF UploadPanics, Behind
  <2>. QED  BY <2>2, <2>3
<1>16. ASSUME NEW f \in Files, UploadFails(f)
       PROVE  Rest'
  <2>1. UNCHANGED <<db, mem, stored, mishaps>> /\ do.pc = "transfer" /\ f \in do.left
    BY <1>16 DEF UploadFails, outside
  <2>2. do'.pc = "transfer" /\ do'.left = do.left \ {f} /\ do'.failed /\ do'.next = do.next
    BY <1>1, <1>16, <2>1 DEF UploadFails, Doer
  <2>3. InPhase' /\ Honest' /\ Remembered'
    BY <2>1, <2>2 DEF InPhase, Honest, Truthful, Remembered, Held
  <2>4. Snapshot'
    BY <1>1, <1>16, <2>1, <2>2, StillBehind DEF UploadFails, Behind
  <2>. QED  BY <2>3, <2>4
<1>12. EndTransfer => Rest'
  <2>. SUFFICES ASSUME EndTransfer PROVE Rest'
    OBVIOUS
  <2>1. CASE do.failed
    BY <1>4, <2>1 DEF EndTransfer, outside
  <2>2. CASE ~do.failed
    <3>1. mem.state.handle # NoHandle
      BY DEF EndTransfer, InPhase
    <3>2. Bound([mem.state EXCEPT !.phase = "seeding"])
      BY <1>1, <3>1, Variants
    <3>3. stored = Files
      BY <1>1, <2>2 DEF EndTransfer, Honest
    <3>. QED  BY <1>1, <1>5, <2>2, <3>1, <3>2, <3>3 DEF EndTransfer, outside, State
  <2>. QED  BY <2>1, <2>2
<1>13. StopTransfer => Rest'
  BY <1>4 DEF StopTransfer, outside
<1>14. Marshal => Rest'
  <2>. SUFFICES ASSUME Marshal PROVE Rest'
    OBVIOUS
  <2>1. /\ mem'.private = mem.state /\ mem'.known = mem.known /\ mem'.client = mem.client
        /\ mem'.state = mem.state /\ do'.pc = "returned" /\ do'.next = do.next
        /\ UNCHANGED <<db, stored, mishaps>> /\ do.pc = "marshal"
    BY <1>1 DEF Marshal, outside, Object, Doer
  <2>2. InPhase' /\ Honest'
    BY <2>1 DEF InPhase, Honest, Truthful
  <2>3. Remembered'
    BY <2>1 DEF Remembered, Held, InPhase
  <2>4. Snapshot'
    <3>1. mem'.undo = mem.undo /\ request' = request
      BY <1>1 DEF Marshal, Object
    <3>. QED  BY <1>1, <2>1, <3>1, StillBehind DEF Behind
  <2>. QED  BY <2>2, <2>3, <2>4
<1>. QED  BY <1>2, <1>3, <1>6, <1>7, <1>8, <1>9, <1>10, <1>11, <1>12, <1>13, <1>14, <1>15, <1>16

(***************************************************************************)
(* The steps of the queue, of the requests and of the downloader.          *)
(***************************************************************************)
LEMMA OtherRest ==
  ASSUME DownloadInv,
         \/ Pickup \/ Transit \/ Timeout \/ Requests \/ Downloads \/ Kill \/ Start \/ UNCHANGED vars
  PROVE  Rest'
<1>. USE DEF DownloadInv, Rest
<1>1. /\ mem \in Object /\ do \in Doer /\ db \in Row
      /\ Bound(mem.private) /\ Bound(mem.state) /\ Bound(db.private)
  BY DEF Typed, Recorded, Numbered
<1>0. stored \subseteq Files
  BY DEF Typed, Flags
<1>2. \A h \in Handle : CancelAt(h) /\ "repeat" \in mishaps => "repeat" \in mishaps'
  BY DEF CancelAt, Mishap
<1>3. /\ mem.state.handle \in Handle /\ Held.handle \in Handle /\ db.private.handle \in Handle
      /\ Held \in State
  BY <1>1, HeldBound DEF Bound, State
<1>4. CASE Pickup
  <2>1. db'.private = mem.private /\ db'.status = "processing"
    BY <1>4, Transition DEF Pickup
  <2>2. do'.pc = "start" /\ do'.next = "none" /\ ~do'.failed
    BY <1>4, Fresh DEF Pickup, Doer
  <2>3. UNCHANGED <<mem, stored, mishaps>> /\ do.pc = "idle"
    BY <1>4 DEF Pickup, outside
  <2>4. InPhase' /\ Honest' /\ Remembered'
    BY <2>1, <2>2, <2>3 DEF InPhase, Honest, Truthful, Remembered, Held
  <2>5. Snapshot'
    BY <1>0, <1>4, <2>2, <2>3, StillBehind DEF Pickup, Behind
  <2>. QED  BY <2>4, <2>5
<1>5. CASE Transit
  <2>1. /\ db'.private = mem.private \/ db'.private = db.private
        /\ db'.status = "completed" => db.status = "completed" \/ do.next = "completed"
        /\ "repeat" \in mishaps => "repeat" \in mishaps'
    <3>1. CASE UNCHANGED <<db, up, dl, temp, mishaps, faults>>
      BY <3>1
    <3>2. CASE Suspend
      BY <3>2, Transition DEF Suspend
    <3>3. CASE db.retries < MaxRetry /\ Retry
      BY <3>3, Transition DEF Retry
    <3>4. ASSUME NEW s \in Terminal, End(s), s = "completed" => do.next = "completed"
          PROVE  /\ db'.private = mem.private \/ db'.private = db.private
                 /\ db'.status = "completed" => db.status = "completed" \/ do.next = "completed"
                 /\ "repeat" \in mishaps => "repeat" \in mishaps'
      BY <3>4, Transition DEF Cleaned
    <3>. QED  BY <1>5, <3>1, <3>2, <3>3, <3>4, TransitCases
  <2>2. do'.pc = "idle" /\ do'.next = "none" /\ ~do'.failed /\ do.pc = "returned"
        /\ UNCHANGED <<mem, stored>>
    BY <1>5, Fresh DEF Transit
  <2>3. InPhase'
    BY <2>2 DEF InPhase
  <2>4. Honest'
    BY <2>1, <2>2 DEF Honest, Truthful
  <2>5. Remembered'
    BY <2>1, <2>2 DEF Remembered, Held
  <2>6. Snapshot'
    BY <1>0, <1>5, <2>2, StillBehind DEF Transit, Behind
  <2>. QED  BY <2>3, <2>4, <2>5, <2>6
<1>6. CASE Timeout
  <2>1. /\ db'.private = mem.private \/ db' = db
        /\ db'.status = "completed" => db.status = "completed"
    <3>1. Persist("error") \/ UNCHANGED db
      BY <1>6 DEF Timeout
    <3>2. Persist("error") => db'.private = mem.private /\ db'.status = "error"
      BY Transition DEF Terminal
    <3>. QED  BY <3>1, <3>2
  <2>2. "repeat" \in mishaps => "repeat" \in mishaps'
    BY <1>2, <1>3, <1>6 DEF Timeout, Mishap
  <2>. QED  BY <1>6, <2>1, <2>2, RestFrame DEF Timeout
<1>7. CASE CancelQueued
  <2>1. db'.private = mem.private /\ db'.status = "canceled"
    BY <1>7, Transition DEF CancelQueued, Terminal
  <2>. QED  BY <1>7, <2>1, RestFrame DEF CancelQueued, Mishap, requestFrame
<1>8. CASE CancelDownload
  <2>1. /\ mem'.private = mem.private /\ mem'.known /\ mem'.state = Held
        /\ UNCHANGED <<db, do, stored>>
    BY <1>1, <1>8 DEF CancelDownload, Object, requestFrame
  <2>2. "repeat" \in mishaps => "repeat" \in mishaps'
    BY <1>2, <1>3, <1>8 DEF CancelDownload
  <2>3. InPhase' /\ Honest'
    BY <2>1 DEF InPhase, Honest, Truthful, Held
  <2>4. Remembered'
    BY <2>1, <2>2 DEF Remembered, Held, InPhase
  <2>5. Snapshot'
    BY <1>1, <1>8 DEF CancelDownload, Asked, Snapshot, Object
  <2>. QED  BY <2>3, <2>4, <2>5
<1>9. CASE CancelTask
  <2>1. /\ db'.private = mem.private \/ db' = db
        /\ db'.status = "completed" => db.status = "completed"
    <3>1. Persist("canceled") \/ UNCHANGED db
      BY <1>9 DEF CancelTask
    <3>2. Persist("canceled") => db'.private = mem.private /\ db'.status = "canceled"
      BY Transition DEF Terminal
    <3>. QED  BY <3>1, <3>2
  <2>2. "repeat" \in mishaps => "repeat" \in mishaps'
    BY <1>9, CleanupTyped DEF CancelTask, Cleaned, Mishap
  <2>. QED  BY <1>9, <2>1, <2>2, RestFrame DEF CancelTask, requestFrame
<1>10. CASE Summarize
  <2>1. /\ mem'.private = mem.private /\ mem'.known /\ mem'.state.phase = Held.phase
        /\ mem'.state.handle = Held.handle
        /\ mem'.state.transferred = Held.transferred /\ UNCHANGED <<db, do, stored, mishaps>>
    BY <1>1, <1>3, <1>10 DEF Summarize, Object, State, requestFrame
  <2>2. InPhase' /\ Honest'
    BY <2>1 DEF InPhase, Honest, Truthful, Held
  <2>3. Remembered'
    BY <2>1 DEF Remembered, Held, InPhase
  <2>4. Snapshot'
    BY <1>1, <1>10 DEF Summarize, Asked, Snapshot, Object
  <2>. QED  BY <2>2, <2>3, <2>4
<1>11. CASE SetDownloadTarget
  <2>1. CASE UNCHANGED mem /\ request' = "idle"
    BY <1>11, <2>1, RestFrame DEF SetDownloadTarget, requestFrame
  <2>2. CASE /\ mem.client /\ mem.state.seen /\ request' = "set"
             /\ mem' = [mem EXCEPT !.private = mem.state, !.undo = mem.state]
    <3>1. /\ mem'.private = mem.state /\ mem'.known /\ mem.known /\ mem'.state = mem.state
          /\ mem'.undo = mem.state
          /\ UNCHANGED <<db, do, stored, mishaps>>
      BY <1>1, <1>11, <2>2 DEF SetDownloadTarget, Object, InPhase, requestFrame
    <3>2. InPhase' /\ Honest'
      BY <3>1 DEF InPhase, Honest, Truthful
    <3>3. Remembered'
      BY <3>1 DEF Remembered, Held
    <3>4. mem.state.handle # NoHandle
      BY <1>1, <2>2 DEF Bound
    <3>5. Snapshot'
      BY <2>2, <3>1, <3>4 DEF Snapshot, Behind, InPhase, Honest, Truthful
    <3>. QED  BY <3>2, <3>3, <3>5
  <2>. QED  BY <1>11, <2>1, <2>2 DEF SetDownloadTarget
<1>12. CASE ControlDownload
  <2>. DEFINE state == [Held EXCEPT !.seen = TRUE, !.root = TRUE]
  <2>1. /\ state.phase = Held.phase /\ state.transferred = Held.transferred
        /\ state.handle = Held.handle
    BY <1>3 DEF State
  <2>2. /\ mem'.private = state /\ mem'.known /\ mem'.state = state
        /\ UNCHANGED <<db, do, stored, mishaps>>
    BY <1>1, <1>12 DEF ControlDownload, requestFrame, Object
  <2>3. InPhase' /\ Honest'
    BY <2>1, <2>2 DEF InPhase, Honest, Truthful, Held
  <2>4. Remembered'
    BY <2>1, <2>2 DEF Remembered, Held, InPhase
  <2>5. Snapshot'
    BY <1>1, <1>12 DEF ControlDownload, Asked, Snapshot, Object
  <2>. QED  BY <2>3, <2>4, <2>5
<1>13. CASE UpdateTask
  <2>1. db'.private = mem.private /\ db'.status = db.status
    BY <1>1, <1>13 DEF UpdateTask, Row
  <2>2. /\ mem'.private = mem.private /\ mem'.state = mem.state /\ mem'.known = mem.known
        /\ mem'.client = mem.client /\ mem'.undo = NewState
    BY <1>1, <1>13 DEF UpdateTask, Object
  <2>. QED  BY <1>13, <2>1, <2>2, RestFrame DEF UpdateTask, requestFrame
<1>14. CASE Delete
  <2>1. db'.private = db.private /\ db'.status = "deleted"
    BY <1>1, <1>14 DEF Delete, Row
  <2>2. "repeat" \in mishaps => "repeat" \in mishaps'
    BY <1>2, <1>3, <1>14 DEF Delete
  <2>. QED  BY <1>14, <2>1, <2>2, RestFrame DEF Delete, requestFrame
<1>15. CASE Downloads
  BY <1>15, RestFrame DEF Downloads
<1>16. CASE Kill
  BY <1>16, RestFrame DEF Kill, outside
<1>17. CASE Start
  <2>1. /\ db'.private = db.private
        /\ db'.status = "completed" => db.status = "completed"
    BY <1>1, <1>17 DEF Start, Row
  <2>2. /\ mem'.private = db.private /\ mem'.state = NewState /\ ~mem'.known /\ ~mem'.client
    BY <1>1, <1>17, LoadedObject DEF Start
  <2>3. do'.pc = "idle" /\ do'.next = "none" /\ ~do'.failed /\ UNCHANGED stored
    BY <1>17, Fresh DEF Start, outside
  <2>4. "repeat" \notin mishaps' =>
           "repeat" \notin mishaps /\ mem.state.transferred \subseteq db.private.transferred
    BY <1>17 DEF Start
  <2>5. InPhase' /\ Honest'
    BY <2>1, <2>2, <2>3, Fresh DEF InPhase, Honest, Truthful
  <2>6. Remembered'
    BY <2>1, <2>2, <2>3, <2>4 DEF Remembered, Held
  <2>7. Snapshot'
    <3>1. mem'.undo = NewState /\ request' = "idle"
      BY <1>1, <1>17, LoadedObject DEF Start
    <3>. QED  BY <3>1 DEF Snapshot, NewState
  <2>. QED  BY <2>5, <2>6, <2>7
<1>18. CASE UNCHANGED vars
  BY <1>18, RestFrame DEF vars
<1>19. CASE UpdateFails
  <2>1. UNCHANGED <<db, do, stored>> /\ request' = "idle"
    BY <1>19 DEF UpdateFails, requestFrame
  <2>2. CASE request # "set"
    <3>1. UNCHANGED <<mem, mishaps>>
      BY <1>19, <2>2 DEF UpdateFails
    <3>. QED  BY <2>1, <2>2, <3>1, RestFrame
  <2>3. CASE request = "set"
    <3>1. /\ mem'.private = mem.undo /\ mem'.state = mem.undo /\ mem'.undo = NewState
          /\ mem'.known = mem.known /\ mem'.client = mem.client
          /\ "repeat" \notin mishaps' =>
                "repeat" \notin mishaps /\ mem.undo.transferred = mem.state.transferred
      BY <1>1, <1>19, <2>3 DEF UpdateFails, Mishap, Object
    <3>2. Behind
      BY <2>3 DEF Snapshot
    <3>3. InPhase'
      BY <2>1, <3>1, <3>2 DEF InPhase, Behind
    <3>4. Honest'
      BY <2>1, <3>1, <3>2 DEF Honest, Behind, Truthful
    <3>5. Remembered'
      BY <2>1, <3>1, <3>2 DEF Remembered, Behind, Held
    <3>6. Snapshot'
      BY <2>1, <3>1 DEF Snapshot, NewState
    <3>. QED  BY <3>3, <3>4, <3>5, <3>6
  <2>. QED  BY <2>2, <2>3
<1>. QED  BY <1>4, <1>5, <1>6, <1>7, <1>8, <1>9, <1>10, <1>11, <1>12, <1>13, <1>14, <1>15, <1>16,
            <1>17, <1>18, <1>19 DEF Requests

-----------------------------------------------------------------------------
(***************************************************************************)
(* The invariant holds in every state.                                     *)
(***************************************************************************)
LEMMA DownloadInvariant == Spec => []DownloadInv
<1>1. DownloadInv /\ [Next]_vars => DownloadInv'
  <2>. SUFFICES ASSUME DownloadInv, [Next]_vars PROVE Typed' /\ Rest'
    BY DEF DownloadInv
  <2>. QED  BY DoStepTyped, OtherTyped, DoStepRest, OtherRest DEF DownloadInv, Rest, Next, Worker
<1>. QED  BY InitInv, <1>1, PTL DEF Spec

(***************************************************************************)
(* Every variable of a download keeps its type.                            *)
(***************************************************************************)
THEOREM DownloadTypeCorrect == Spec => []TypeOK
<1>1. ASSUME NEW s \in State PROVE IsState(s)
  BY DownloadAssumption DEF DownloadAssumption, State, Handle, NoHandle, Handles, IsState
<1>2. ASSUME Typed PROVE TypeOK
  <2>1. /\ IsState(db.private) /\ IsState(mem.private)
        /\ IsState(mem.state) /\ IsState(mem.undo)
    BY <1>1, <1>2 DEF Typed, Numbered, Bound
  <2>. QED  BY <1>2, <2>1 DEF Typed, Recorded, Flags, TypeOK, Row, Object, Doer, Download
<1>. QED  BY DownloadInvariant, <1>2, PTL DEF DownloadInv

(***************************************************************************)
(* A task that is completed has stored every file (masterTransfer,         *)
(* monitor), for any files and any number of retries, requests and faults. *)
(***************************************************************************)
THEOREM CompletedDownloadHasAll == Spec => []CompletedHasAll
<1>1. DownloadInv => CompletedHasAll
  BY DEF DownloadInv, Rest, Honest, CompletedHasAll
<1>. QED  BY DownloadInvariant, <1>1, PTL

(***************************************************************************)
(* Unless a restart lost a state, no attempt uploads a file again          *)
(* (remote_download.go, Do and masterTransfer).                            *)
(***************************************************************************)
THEOREM FilesUploadedOnce == Spec => []UploadedOnce
<1>1. DownloadInv => UploadedOnce
  BY DEF DownloadInv, Rest, InPhase, Remembered, Held, UploadedOnce
<1>. QED  BY DownloadInvariant, <1>1, PTL

-----------------------------------------------------------------------------
(***************************************************************************)
(* What a task leaves behind.  As long as nothing happened that the        *)
(* bookkeeping does not survive, every download that is not over belongs   *)
(* to each handle the task knows: it is named there, or follows what is.   *)
(***************************************************************************)
Good == mishaps \subseteq {"repeat"}
Loose == {g \in Handles : dl[g].state \notin {"absent", "gone"}}

Chained ==
  /\ \A g \in Handles : dl[g].state = "followed" <=> dl[g].by # 0
  /\ \A g, k \in Handles : dl[g].by = k => dl[k].state # "absent" /\ dl[k].by = 0
  /\ \A g, k \in Handles : dl[g].by # 0 /\ dl[g].by = dl[k].by => g = k

Named(x) ==
  /\ x.id \in Handles /\ dl[x.id].state # "absent"
  /\ x.parent = 0 => \A g \in Handles : dl[g].by # x.id
  /\ x.parent # 0 => \/ dl[x.parent].by = x.id
                     \/ dl[x.id].state = "gone" /\ dl[x.parent].state = "gone"
  /\ Loose \subseteq {x.id, x.parent, dl[x.id].by}

Made == IF do.pc = "created" THEN {[id |-> do.handle, parent |-> 0]} ELSE {}
Owners == ({db.private.handle, mem.private.handle, mem.state.handle, mem.undo.handle} \ {NoHandle})
            \cup Made
Unowned == Held.handle = NoHandle /\ do.pc # "created"
Over == db.status \in Terminal \cup {"deleted"}

Tidy ==
  Good =>
    /\ Chained
    /\ \A x \in Owners : Named(x)
    /\ temp => Loose # {}
    /\ Unowned => Loose = {}
    /\ Over => Loose = {}

(***************************************************************************)
(* The copies of the state learn of a handle in an order: the one Do works *)
(* on first, the row last.                                                 *)
(***************************************************************************)
Order ==
  /\ waiting => db.status = "processing" /\ do.pc # "idle"
  /\ request = "cancel" => mem.known
  /\ db.private.handle # NoHandle => mem.private.handle # NoHandle
  /\ mem.known => /\ mem.private.handle # NoHandle => mem.state.handle # NoHandle
                  /\ do.pc # "marshal" /\ mem.state.handle # NoHandle => mem.private.handle # NoHandle
  /\ do.pc = "created" => mem.state.handle = NoHandle

-----------------------------------------------------------------------------
(***************************************************************************)
(* Handles that are owners have their type.                                *)
(***************************************************************************)
LEMMA OwnersTyped ==
  ASSUME Typed
  PROVE  /\ \A x \in Owners : x \in [id : Handles, parent : 0 .. MaxHandles]
         /\ \A g \in Handles : dl[g] \in Download
         /\ Loose \subseteq Handles /\ 0 \notin Handles
         /\ 0 .. MaxHandles = {0} \cup Handles
<1>. USE DownloadAssumption DEF DownloadAssumption, Typed, Recorded, Numbered, Bound, State, Handle, Handles
<1>1. \A x \in {db.private.handle, mem.private.handle, mem.state.handle} : x \in Handle
  OBVIOUS
<1>2. \A x \in Made : x \in [id : Handles, parent : 0 .. MaxHandles]
  BY DEF Made
<1>3. \A x \in Owners : x \in [id : Handles, parent : 0 .. MaxHandles]
  BY <1>1, <1>2 DEF Owners
<1>. QED  BY <1>3 DEF Loose

(***************************************************************************)
(* The downloader's steps.  A download changes, without an end.            *)
(***************************************************************************)
LEMMA DownloadMoves ==
  ASSUME Typed, Chained, NEW g \in Loose, dl[g].state # "followed",
         NEW s \in {"active", "paused", "done", "seeding", "failed"},
         dl' = [dl EXCEPT ![g].state = s]
  PROVE  /\ Chained' /\ Loose' = Loose
         /\ \A x : x.parent \in Handles \cup {0} /\ Named(x) => Named(x)'
<1>1. \A k \in Handles : dl'[k].by = dl[k].by /\ dl'[k].state = IF k = g THEN s ELSE dl[k].state
  BY DEF Typed, Recorded, Download
<1>2. g \in Handles /\ dl[g].state \notin {"absent", "gone", "followed"}
  BY DEF Loose
<1>3. Chained'
  BY <1>1, <1>2 DEF Chained
<1>4. Loose' = Loose
  BY <1>1, <1>2 DEF Loose
<1>5. ASSUME NEW x, x.parent \in Handles \cup {0}, Named(x)
      PROVE  Named(x)'
  <2>1. x.id \in Handles /\ dl'[x.id].state # "absent"
    BY <1>1, <1>2, <1>5 DEF Named
  <2>2. x.parent = 0 => \A k \in Handles : dl'[k].by # x.id
    BY <1>1, <1>5 DEF Named
  <2>3. x.parent # 0 => \/ dl'[x.parent].by = x.id
                        \/ dl'[x.id].state = "gone" /\ dl'[x.parent].state = "gone"
    BY <1>1, <1>2, <1>5, <2>1 DEF Named
  <2>4. Loose' \subseteq {x.id, x.parent, dl'[x.id].by}
    BY <1>1, <1>4, <1>5, <2>1 DEF Named
  <2>. QED  BY <2>1, <2>2, <2>3, <2>4 DEF Named
<1>. QED  BY <1>3, <1>4, <1>5

(***************************************************************************)
(* A download is followed by that of its content: it was the only one, and *)
(* what named it names both.                                               *)
(***************************************************************************)
LEMMA DownloadFollowed ==
  ASSUME Typed, Chained, NEW g \in Handles, NEW k \in Handles, dl[g].state = "active",
         \A i \in Handles : dl[i].by # g, dl[k] = Absent,
         dl' = [dl EXCEPT ![g] = [state |-> "followed", by |-> k], ![k] = Task("active")]
  PROVE  /\ Chained' /\ Loose' = Loose \cup {k}
         /\ \A x : x.parent \in Handles \cup {0} /\ Named(x) => Named(x)'
<1>1. k # g /\ 0 \notin Handles /\ Absent.state = "absent" /\ Absent.by = 0
      /\ Task("active").state = "active" /\ Task("active").by = 0
  BY DownloadAssumption DEF DownloadAssumption, Handles, Absent, Task
<1>2. \A i \in Handles :
         /\ dl'[i].by = IF i = g THEN k ELSE dl[i].by
         /\ dl'[i].state = IF i = g THEN "followed" ELSE IF i = k THEN "active" ELSE dl[i].state
  BY <1>1 DEF Typed, Recorded, Download
<1>3. /\ dl[g].by = 0 /\ dl[k].by = 0 /\ dl[k].state = "absent"
      /\ \A i \in Handles : dl[i].by # k
  BY <1>1 DEF Chained
<1>. DEFINE Given == /\ \A i \in Handles : dl[i].by # g
                    /\ g \in Handles /\ k \in Handles /\ dl[g].state = "active" /\ Chained
<1>0. Given
  OBVIOUS
<1>4. Chained'
  <2>1. \A i \in Handles : dl'[i].state = "followed" <=> dl'[i].by # 0
    BY ONLY <1>0, <1>1, <1>2, <1>3 DEF Chained
  <2>2. \A i, j \in Handles : dl'[i].by = j => dl'[j].state # "absent" /\ dl'[j].by = 0
    BY ONLY <1>0, <1>1, <1>2, <1>3 DEF Chained
  <2>3. \A i, j \in Handles : dl'[i].by # 0 /\ dl'[i].by = dl'[j].by => i = j
    BY ONLY <1>0, <1>1, <1>2, <1>3 DEF Chained
  <2>. QED  BY <2>1, <2>2, <2>3 DEF Chained
<1>5. Loose' = Loose \cup {k}
  BY ONLY <1>0, <1>1, <1>2, <1>3 DEF Loose
<1>6. ASSUME NEW x, x.parent \in Handles \cup {0}, Named(x)
      PROVE  Named(x)'
  <2>1. g \in Loose
    BY DEF Loose
  <2>2. g = x.id
    <3>1. g \in {x.id, x.parent, dl[x.id].by} /\ x.id \in Handles
      BY <1>6, <2>1 DEF Named
    <3>2. g # dl[x.id].by
      BY <3>1
    <3>3. g # x.parent
      BY <1>1, <1>3, <1>6, <3>1 DEF Named
    <3>. QED  BY <3>1, <3>2, <3>3
  <2>3. x.parent = 0 => \A i \in Handles : dl'[i].by # x.id
    BY <1>1, <1>2, <1>6, <2>2 DEF Named
  <2>4. x.parent = 0 \/ dl[x.parent].by # x.id
    BY ONLY <1>0, <1>6, <2>2
  <2>5. x.parent = 0
    BY ONLY <1>0, <1>6, <2>2, <2>4 DEF Named
  <2>6. Loose' \subseteq {x.id, x.parent, dl'[x.id].by}
    BY ONLY <1>0, <1>1, <1>2, <1>3, <1>5, <1>6, <2>2, <2>5 DEF Named, Loose
  <2>. QED  BY ONLY <1>0, <1>2, <2>2, <2>3, <2>5, <2>6 DEF Named
<1>. QED  BY <1>4, <1>5, <1>6

(***************************************************************************)
(* The first download of a task.                                           *)
(***************************************************************************)
LEMMA DownloadCreated ==
  ASSUME Typed, Chained, Loose = {}, NEW k \in Handles, dl[k] = Absent,
         dl' = [dl EXCEPT ![k] = Task("active")], NEW x, x.id = k, x.parent = 0
  PROVE  Chained' /\ Loose' = {k} /\ Named(x)'
<1>1. /\ 0 \notin Handles /\ Absent.state = "absent" /\ Absent.by = 0
      /\ Task("active").state = "active" /\ Task("active").by = 0
  BY DownloadAssumption DEF DownloadAssumption, Handles, Absent, Task
<1>2. \A i \in Handles :
         /\ dl'[i].by = dl[i].by
         /\ dl'[i].state = IF i = k THEN "active" ELSE dl[i].state
  BY <1>1 DEF Typed, Recorded, Download
<1>3. \A i \in Handles : dl[i].by # k
  BY <1>1 DEF Chained
<1>4. Chained'
  BY <1>1, <1>2, <1>3 DEF Chained
<1>5. Loose' = {k}
  BY <1>1, <1>2 DEF Loose
<1>. QED  BY <1>1, <1>2, <1>3, <1>4, <1>5 DEF Named

(***************************************************************************)
(* Cancelling by a handle that is named, and not followed by an unknown    *)
(* download, ends all there is.                                            *)
(***************************************************************************)
LEMMA DownloadCancelled ==
  ASSUME Typed, Chained, NEW h \in [id : Handles, parent : 0 .. MaxHandles], Named(h), ~HasChild(h),
         CancelAt(h)
  PROVE  /\ Chained' /\ Loose' = {} /\ ~temp'
         /\ \A x \in [id : Handles, parent : 0 .. MaxHandles] : Named(x) => Named(x)'
<1>1. /\ 0 \notin Handles /\ Task("gone").state = "gone" /\ Task("gone").by = 0
      /\ h.id \in Handles /\ h.parent \in {0} \cup Handles /\ 0 .. MaxHandles = {0} \cup Handles
  BY DownloadAssumption DEF DownloadAssumption, Handles, Absent, Task
<1>2. \A i \in Handles :
         /\ dl'[i].by = IF i \in {h.id, h.parent} THEN 0 ELSE dl[i].by
         /\ dl'[i].state = IF i \in {h.id, h.parent} THEN "gone" ELSE dl[i].state
  BY <1>1 DEF CancelAt, Deleted
<1>3. dl[h.id].by = 0
  BY <1>1 DEF HasChild, Chained
<1>4. Chained'
  <2>1. \A i \in Handles : dl'[i].state = "followed" <=> dl'[i].by # 0
    BY <1>1, <1>2 DEF Chained
  <2>2. \A i, j \in Handles : dl'[i].by = j => dl'[j].state # "absent" /\ dl'[j].by = 0
    BY <1>1, <1>2 DEF Chained
  <2>3. \A i, j \in Handles : dl'[i].by # 0 /\ dl'[i].by = dl'[j].by => i = j
    BY <1>1, <1>2 DEF Chained
  <2>. QED  BY <2>1, <2>2, <2>3 DEF Chained
<1>5. Loose' = {}
  <2>1. Loose \subseteq {h.id, h.parent}
    BY <1>1, <1>3 DEF Named, Loose
  <2>. QED  BY <1>2, <2>1 DEF Loose
<1>6. ASSUME NEW x \in [id : Handles, parent : 0 .. MaxHandles], Named(x)
      PROVE  Named(x)'
  <2>1. x.id \in Handles /\ x.parent \in {0} \cup Handles /\ dl'[x.id].state # "absent"
    BY <1>1, <1>2, <1>6 DEF Named
  <2>2. x.parent = 0 => \A g \in Handles : dl'[g].by # x.id
    BY <1>1, <1>2, <1>6, <2>1 DEF Named
  <2>3. ASSUME x.parent # 0
        PROVE  \/ dl'[x.parent].by = x.id
               \/ dl'[x.id].state = "gone" /\ dl'[x.parent].state = "gone"
    <3>1. CASE dl[x.id].state = "gone" /\ dl[x.parent].state = "gone"
      BY <1>2, <2>1, <2>3, <3>1
    <3>2. CASE dl[x.parent].by = x.id
      <4>1. x.parent # h.id
        BY <1>1, <1>3, <2>1, <3>2
      <4>2. CASE x.parent = h.parent
        <5>1. dl[h.parent].by = h.id \/ dl[h.parent].state = "gone"
          BY <2>3, <4>2 DEF Named
        <5>2. dl[h.parent].by = h.id
          BY <1>1, <2>1, <2>3, <3>2, <4>2, <5>1 DEF Chained
        <5>. QED  BY <1>2, <2>1, <2>3, <3>2, <4>2, <5>2
      <4>3. CASE x.parent # h.parent
        <5>1. x.id # h.parent \/ h.parent = 0
          <6>1. ASSUME x.id = h.parent, h.parent # 0 PROVE FALSE
            <7>1. dl[h.parent].by = h.id \/ dl[h.parent].state = "gone"
              BY <6>1 DEF Named
            <7>2. dl[h.parent].by = 0
              BY <1>1, <2>1, <2>3, <3>2, <6>1 DEF Chained
            <7>3. dl[h.parent].state = "gone" /\ dl[h.id].state = "gone"
              BY <1>1, <6>1, <7>2 DEF Named
            <7>4. x.parent \in Loose
              BY <1>1, <2>1, <2>3, <3>2 DEF Chained, Loose
            <7>5. x.parent \in {h.id, h.parent, dl[h.id].by}
              BY <7>4 DEF Named
            <7>. QED  BY <1>3, <2>3, <4>1, <4>3, <7>5
          <6>. QED  BY <6>1
        <5>2. x.id # h.id
          <6>1. ASSUME x.id = h.id PROVE FALSE
            <7>1. h.parent # 0
              BY <1>1, <2>1, <2>3, <3>2, <6>1 DEF Named
            <7>2. x.parent \in Loose
              BY <1>1, <2>1, <2>3, <3>2 DEF Chained, Loose
            <7>3. x.parent \in {h.id, h.parent, dl[h.id].by}
              BY <7>2 DEF Named
            <7>. QED  BY <1>3, <2>3, <4>1, <4>3, <7>3
          <6>. QED  BY <6>1
        <5>. QED  BY <1>1, <1>2, <2>1, <2>3, <3>2, <4>1, <4>3, <5>1, <5>2
      <4>. QED  BY <4>2, <4>3
    <3>. QED  BY <1>6, <2>3, <3>1, <3>2 DEF Named
  <2>4. Loose' \subseteq {x.id, x.parent, dl'[x.id].by}
    BY <1>5
  <2>. QED  BY <2>1, <2>2, <2>3, <2>4 DEF Named
<1>7. ~temp'
  BY DEF CancelAt
<1>. QED  BY <1>4, <1>5, <1>6, <1>7

(***************************************************************************)
(* The download of the content, with the descriptor it follows.            *)
(***************************************************************************)
LEMMA ChildNamed ==
  ASSUME Typed, Chained, NEW h \in [id : Handles, parent : 0 .. MaxHandles], Named(h),
         dl[h.id].state = "followed", NEW x, x.id = dl[h.id].by, x.parent = h.id
  PROVE  Named(x)
<1>1. /\ h.id \in Handles /\ x.id \in Handles /\ 0 \notin Handles /\ h.parent \in {0} \cup Handles
      /\ 0 .. MaxHandles = {0} \cup Handles
  BY DownloadAssumption DEF DownloadAssumption, Handles, Typed, Numbered
<1>2. dl[x.id].state # "absent" /\ dl[x.id].by = 0
  BY <1>1 DEF Chained
<1>3. h.parent = 0 \/ h.parent \notin Loose
  <2>1. ASSUME h.parent # 0, h.parent \in Loose PROVE FALSE
    <3>1. dl[h.parent].by = h.id
      BY <2>1 DEF Named, Loose
    <3>. QED  BY <1>1, <2>1, <3>1 DEF Chained
  <2>. QED  BY <2>1
<1>4. Loose \subseteq {x.id, x.parent, dl[x.id].by}
  BY <1>1, <1>3 DEF Named, Loose
<1>. QED  BY <1>1, <1>2, <1>4 DEF Named

-----------------------------------------------------------------------------
(***************************************************************************)
(* A step that leaves the downloader alone.                                *)
(***************************************************************************)
LEMMA TidyFrame ==
  ASSUME Tidy, Good' => Good, UNCHANGED dl, temp' => temp,
         Good => \A x \in Owners' : Named(x),
         Good' /\ Unowned' => Loose = {}, Good' /\ Over' => Loose = {}
  PROVE  Tidy'
<1>1. Chained' = Chained /\ Loose' = Loose /\ \A x : Named(x)' = Named(x)
  BY DEF Chained, Loose, Named
<1>. QED  BY <1>1 DEF Tidy

(***************************************************************************)
(* One that leaves it alone and makes no new owner.                        *)
(***************************************************************************)
LEMMA TidyKept ==
  ASSUME Tidy, UNCHANGED <<dl, temp, mishaps>>, Owners' \subseteq Owners,
         Unowned' => Unowned, Over' => Over
  PROVE  Tidy'
<1>1. Good' = Good
  BY DEF Good
<1>. QED  BY <1>1, TidyFrame DEF Tidy

(***************************************************************************)
(* A step that cancels by a handle the task knows.                         *)
(***************************************************************************)
LEMMA TidyCancel ==
  ASSUME Typed, Tidy, NEW h \in Owners, CancelAt(h), Owners' \subseteq Owners
  PROVE  Tidy'
<1>1. Good' => Good /\ ~HasChild(h)
  BY DEF CancelAt, Mishap, Good
<1>2. ASSUME Good'
      PROVE  Chained' /\ Loose' = {} /\ ~temp' /\ \A x \in Owners : Named(x)'
  <2>1. h \in [id : Handles, parent : 0 .. MaxHandles] /\ Named(h) /\ Chained
    BY <1>1, <1>2, OwnersTyped DEF Tidy
  <2>2. /\ Chained' /\ Loose' = {} /\ ~temp'
        /\ \A x \in [id : Handles, parent : 0 .. MaxHandles] : Named(x) => Named(x)'
    BY <1>1, <1>2, <2>1, DownloadCancelled
  <2>. QED  BY <1>1, <1>2, <2>2, OwnersTyped DEF Tidy
<1>. QED  BY <1>2 DEF Tidy

-----------------------------------------------------------------------------
(***************************************************************************)
(* A step of Do sets one state.                                            *)
(***************************************************************************)
LEMMA SetState ==
  ASSUME Typed, NEW s, Set(s)
  PROVE  /\ mem'.state = s /\ mem'.private = mem.private /\ mem'.known = mem.known
         /\ mem'.undo = mem.undo
  BY DEF Typed, Recorded, Set, Object

SetKept ==
  /\ mem'.state.handle = mem.state.handle
  /\ mem'.private = mem.private /\ mem'.known = mem.known /\ mem'.undo = mem.undo

(***************************************************************************)
(* What a step of Do sets but for the handle.                              *)
(***************************************************************************)
LEMMA SameHandle ==
  ASSUME Typed
  PROVE  /\ Set([mem.state EXCEPT !.tried = mem.state.tried + 1]) => SetKept
         /\ Set([mem.state EXCEPT !.seen = TRUE, !.root = TRUE]) => SetKept
         /\ Set([mem.state EXCEPT !.seen = TRUE, !.root = TRUE, !.tried = 0]) => SetKept
         /\ Set([[mem.state EXCEPT !.seen = TRUE, !.root = TRUE, !.tried = 0]
                  EXCEPT !.phase = "transfer"]) => SetKept
         /\ Set([mem.state EXCEPT !.phase = "seeding"]) => SetKept
         /\ Set([mem.state EXCEPT !.phase = "monitor"]) => SetKept
<1>1. mem.state \in State
  BY DEF Typed, Recorded, Object
<1>2. ASSUME NEW s, Set(s), s.handle = mem.state.handle
      PROVE  SetKept
  BY <1>2, SetState DEF SetKept
<1>3. PICK a : a = [mem.state EXCEPT !.tried = mem.state.tried + 1]
  OBVIOUS
<1>4. PICK b : b = [mem.state EXCEPT !.seen = TRUE, !.root = TRUE]
  OBVIOUS
<1>5. PICK c : c = [mem.state EXCEPT !.seen = TRUE, !.root = TRUE, !.tried = 0]
  OBVIOUS
<1>6. PICK d : d = [[mem.state EXCEPT !.seen = TRUE, !.root = TRUE, !.tried = 0] EXCEPT !.phase = "transfer"]
  OBVIOUS
<1>7. PICK e : e = [mem.state EXCEPT !.phase = "seeding"]
  OBVIOUS
<1>8. PICK f : f = [mem.state EXCEPT !.phase = "monitor"]
  OBVIOUS
<1>9. /\ a.handle = mem.state.handle /\ b.handle = mem.state.handle /\ c.handle = mem.state.handle
      /\ d.handle = mem.state.handle /\ e.handle = mem.state.handle /\ f.handle = mem.state.handle
  BY <1>1, <1>3, <1>4, <1>5, <1>6, <1>7, <1>8 DEF State
<1>10. Set(a) \/ Set(b) \/ Set(c) \/ Set(d) \/ Set(e) \/ Set(f) => SetKept
  BY <1>2, <1>9
<1>. QED  BY <1>3, <1>4, <1>5, <1>6, <1>7, <1>8, <1>10, Zenon

(***************************************************************************)
(* What following and transferring do to the handles: nothing, but for the *)
(* download that is found to be followed by another.                       *)
(***************************************************************************)
Follows ==
  /\ mem.state.handle # NoHandle /\ dl[mem.state.handle.id].state = "followed"
  /\ mem'.state.handle = [id |-> dl[mem.state.handle.id].by, parent |-> mem.state.handle.id]

LEMMA DoShape ==
  ASSUME DownloadInv,
         \/ Monitor \/ Unreachable \/ (\E f \in Files : Upload(f) \/ UploadFails(f))
         \/ EndTransfer \/ StopTransfer
  PROVE  /\ UNCHANGED <<db, dl, temp, mishaps, waiting, request>>
         /\ mem'.known = mem.known /\ mem'.private = mem.private /\ mem'.undo = mem.undo
         /\ do.pc \in {"monitor", "transfer"} /\ do'.pc \in {"marshal", "transfer"}
         /\ mem'.state.handle = mem.state.handle \/ Follows
<1>1. /\ Typed /\ mem.state \in State /\ mem \in Object /\ do \in Doer
  BY DEF DownloadInv, Typed, Recorded, Numbered, Bound
<1>2. \A s : Return(s) => do'.pc = "marshal"
  BY <1>1 DEF Return, Doer
<1>3. ASSUME NEW s, Set(s)
      PROVE  mem'.state = s /\ mem'.private = mem.private /\ mem'.known = mem.known /\ mem'.undo = mem.undo
  BY <1>1, <1>3, SetState
<1>4. CASE Monitor
  <2>1. UNCHANGED <<db, dl, temp, mishaps, waiting, request>> /\ do.pc = "monitor"
    BY <1>4 DEF Monitor, doFrame, outside, Doing
  <2>2. mem.state.handle # NoHandle
    BY <1>1, <2>1 DEF DownloadInv, Rest, InPhase
  <2>3. CASE InfoFails
    BY <1>1, <1>2, <2>1, <2>3, SameHandle DEF InfoFails, SetKept
  <2>4. CASE UNCHANGED mem /\ Return("canceled")
    BY <1>2, <2>1, <2>4
  <2>5. CASE /\ dl[mem.state.handle.id].state = "followed"
             /\ Set([mem.state EXCEPT !.handle = [id |-> dl[mem.state.handle.id].by,
                                                  parent |-> mem.state.handle.id]])
             /\ Return("suspending")
    <3>1. PICK h : h = [id |-> dl[mem.state.handle.id].by, parent |-> mem.state.handle.id]
      OBVIOUS
    <3>2. PICK s : s = [mem.state EXCEPT !.handle = h]
      OBVIOUS
    <3>3. s.handle = h
      BY <1>1, <3>2 DEF State
    <3>4. Set(s)
      BY <2>5, <3>1, <3>2
    <3>5. mem'.state = s /\ mem'.private = mem.private /\ mem'.known = mem.known /\ mem'.undo = mem.undo
      BY <1>3, <3>4
    <3>6. do'.pc = "marshal"
      BY <1>2, <2>5
    <3>7. Follows
      BY <2>2, <2>5, <3>1, <3>3, <3>5 DEF Follows
    <3>. QED  BY <2>1, <3>5, <3>6, <3>7
  <2>6. CASE Refused
    BY <1>1, <1>2, <2>1, <2>6, SameHandle DEF Refused, SetKept
  <2>7. ASSUME NEW t, Observed(t)
        PROVE  /\ mem'.known = mem.known /\ mem'.private = mem.private /\ mem'.undo = mem.undo
               /\ do'.pc = "marshal" /\ mem'.state.handle = mem.state.handle
    <3>1. \/ Set([mem.state EXCEPT !.seen = TRUE, !.root = TRUE, !.tried = 0])
          \/ Set([[mem.state EXCEPT !.seen = TRUE, !.root = TRUE, !.tried = 0]
                    EXCEPT !.phase = "transfer"])
      BY <2>7 DEF Observed
    <3>2. \E s : Return(s)
      BY <2>7 DEF Observed
    <3>3. SetKept
      BY <1>1, <3>1, SameHandle
    <3>. QED  BY <1>2, <3>2, <3>3 DEF SetKept
  <2>8. \/ InfoFails \/ Refused
        \/ UNCHANGED mem /\ Return("canceled")
        \/ /\ dl[mem.state.handle.id].state = "followed"
           /\ Set([mem.state EXCEPT !.handle = [id |-> dl[mem.state.handle.id].by,
                                                parent |-> mem.state.handle.id]])
           /\ Return("suspending")
        \/ \E t : Observed(t)
    BY <1>4 DEF Monitor
  <2>. QED  BY <2>1, <2>3, <2>4, <2>5, <2>6, <2>7, <2>8
<1>5. CASE Unreachable
  BY <1>1, <1>2, <1>5, SameHandle DEF Unreachable, InfoFails, SetKept, doFrame, outside, Doing
<1>6. ASSUME NEW f \in Files, Upload(f)
      PROVE  /\ UNCHANGED <<db, dl, temp, mishaps, waiting, request>>
             /\ mem'.known = mem.known /\ mem'.private = mem.private /\ mem'.undo = mem.undo
             /\ do.pc = "transfer" /\ do'.pc = "transfer"
             /\ mem'.state.handle = mem.state.handle
  <2>1. UNCHANGED <<db, dl, temp, mishaps, waiting, request>> /\ do.pc = "transfer"
    BY <1>6 DEF Upload, doFrame, Doing
  <2>2. do'.pc = "transfer"
    BY <1>1, <1>6, <2>1 DEF Upload, Doer
  <2>3. PICK s : s = [mem.state EXCEPT !.transferred = @ \cup {f}]
    OBVIOUS
  <2>4. s.handle = mem.state.handle
    BY <1>1, <2>3 DEF State
  <2>5. Set(s)
    BY <1>6, <2>3 DEF Upload
  <2>. QED  BY <1>3, <2>1, <2>2, <2>4, <2>5
<1>9. ASSUME NEW f \in Files, UploadFails(f)
      PROVE  UNCHANGED <<db, dl, temp, mishaps, waiting, request, mem>>
             /\ do.pc = "transfer" /\ do'.pc = "transfer"
  BY <1>1, <1>9 DEF UploadFails, doFrame, outside, Doing, Doer
<1>7. CASE EndTransfer
  <2>1. UNCHANGED <<db, dl, temp, mishaps, waiting, request>> /\ do.pc = "transfer"
    BY <1>7 DEF EndTransfer, doFrame, outside, Doing
  <2>2. Set([mem.state EXCEPT !.phase = "seeding"]) \/ UNCHANGED mem
    BY <1>7 DEF EndTransfer
  <2>3. do'.pc = "marshal"
    BY <1>2, <1>7 DEF EndTransfer
  <2>. QED  BY <1>1, <2>1, <2>2, <2>3, SameHandle DEF SetKept
<1>8. CASE StopTransfer
  BY <1>2, <1>8 DEF StopTransfer, doFrame, outside, Doing
<1>. QED  BY <1>4, <1>5, <1>6, <1>7, <1>8, <1>9

(***************************************************************************)
(* The steps of Do leave things tidy.                                      *)
(***************************************************************************)
LEMMA DoTidy ==
  ASSUME DownloadInv, Tidy, Order,
         \/ Begin \/ NodeFails \/ Create \/ TakeHandle \/ CreateFails
         \/ Monitor \/ Unreachable
         \/ (\E f \in Files : Upload(f) \/ UploadPanics(f) \/ UploadFails(f))
         \/ EndTransfer \/ StopTransfer \/ Marshal
  PROVE  Tidy'
<1>1. /\ Typed /\ mem.state \in State /\ mem \in Object /\ do \in Doer
  BY DEF DownloadInv, Typed, Recorded, Numbered, Bound
<1>2. \A s : Return(s) => do'.pc = "marshal"
  BY <1>1 DEF Return, Doer
<1>3. ASSUME NEW s, Set(s)
      PROVE  mem'.state = s /\ mem'.private = mem.private /\ mem'.known = mem.known /\ mem'.undo = mem.undo
  BY <1>1, <1>3, SetState
<1>4. CASE Begin \/ NodeFails
  <2>1. /\ mem'.known /\ mem'.state = mem.private /\ mem'.private = mem.private
        /\ mem'.undo = mem.undo
        /\ UNCHANGED <<db, dl, temp, mishaps>> /\ do.pc = "start"
    BY <1>1, <1>4 DEF Begin, NodeFails, Object, doFrame, outside, Doing
  <2>2. do'.pc # "created"
    <3>1. CASE NodeFails
      BY <1>1, <3>1 DEF NodeFails, Doer
    <3>2. CASE Begin
      <4>1. mem.private.phase \in {"new", "monitor", "transfer", "seeding"}
        BY <1>1 DEF Object, State
      <4>2. PICK pc \in {"create", "monitor", "transfer"} :
               do' = [do EXCEPT !.pc = pc, !.left = Files \ mem.private.transferred]
        BY <3>2, <4>1 DEF Begin
      <4>. QED  BY <1>1, <4>2 DEF Doer
    <3>. QED  BY <1>4, <3>1, <3>2
  <2>3. Owners' \subseteq Owners /\ (Over' => Over)
    BY <2>1, <2>2 DEF Owners, Made, Over
  <2>4. Unowned' => Unowned
    BY <2>1, <2>2 DEF Unowned, Held, Order
  <2>. QED  BY <2>1, <2>3, <2>4, TidyKept
<1>5. CASE Create
  <2>1. UNCHANGED <<db, temp>> /\ do.pc = "create"
    BY <1>5 DEF Create, doFrame, Doing
  <2>2. mem.known
    BY <2>1 DEF DownloadInv, Rest, InPhase
  <2>3. CASE mem.state.handle # NoHandle
    <3>1. /\ UNCHANGED <<dl, mishaps>> /\ mem'.private = mem.private /\ mem'.known = mem.known
          /\ mem'.undo = mem.undo
          /\ mem'.state.handle = mem.state.handle /\ do'.pc = "marshal"
      BY <1>1, <1>2, <1>5, <2>3, SameHandle DEF Create, SetKept
    <3>2. Owners' \subseteq Owners /\ (Unowned' => Unowned) /\ (Over' => Over)
      BY <2>1, <2>2, <3>1 DEF Owners, Made, Over, Unowned, Held
    <3>. QED  BY <2>1, <3>1, <3>2, TidyKept
  <2>4. CASE mem.state.handle = NoHandle /\ Return("critical") /\ UNCHANGED <<dl, mishaps>>
    <3>1. UNCHANGED mem /\ do'.pc = "marshal"
      BY <1>2, <1>5, <2>4 DEF Create
    <3>2. Owners' \subseteq Owners /\ (Unowned' => Unowned) /\ (Over' => Over)
      BY <2>1, <3>1 DEF Owners, Made, Over, Unowned, Held
    <3>. QED  BY <2>1, <2>4, <3>1, <3>2, TidyKept
  <2>5. ASSUME mem.state.handle = NoHandle, UNCHANGED mem, NEW k \in Handles, dl[k] = Absent,
               dl' = [dl EXCEPT ![k] = Task("active")],
               do' = [do EXCEPT !.pc = "created", !.handle = k], Mishap("orphan", ~waiting)
        PROVE  Tidy'
    <3>1. Good' => Good /\ waiting
      BY <2>5 DEF Good, Mishap
    <3>2. ASSUME Good' PROVE Chained /\ Loose = {} /\ ~temp /\ ~Over'
      <4>1. Unowned
        BY <2>1, <2>2, <2>5 DEF Unowned, Held
      <4>2. db.status = "processing"
        BY <3>1, <3>2 DEF Order
      <4>. QED  BY <2>1, <3>1, <3>2, <4>1, <4>2 DEF Tidy, Over, Terminal
    <3>3. PICK x : x = [id |-> k, parent |-> 0]
      OBVIOUS
    <3>4. Good' => Chained' /\ Loose' = {k} /\ Named(x)'
      <4>1. x.id = k /\ x.parent = 0
        BY <3>3
      <4>. QED  BY <1>1, <2>5, <3>2, <4>1, DownloadCreated
    <3>5. do'.pc = "created" /\ do'.handle = k
      BY <1>1, <2>5 DEF Doer
    <3>8. mem.undo.handle = NoHandle
      BY <2>5 DEF DownloadInv, Rest, Snapshot, Behind
    <3>6. Owners' = {x}
      BY <2>1, <2>2, <2>5, <3>3, <3>5, <3>8 DEF Owners, Made, Order
    <3>7. ~Unowned'
      BY <3>5 DEF Unowned
    <3>. QED  BY <2>1, <3>2, <3>4, <3>6, <3>7 DEF Tidy
  <2>. QED  BY <1>5, <2>3, <2>4, <2>5 DEF Create
<1>6. CASE TakeHandle
  <2>1. /\ UNCHANGED <<db, dl, temp, mishaps>> /\ do.pc = "created" /\ do'.pc = "marshal"
    BY <1>2, <1>6 DEF TakeHandle, doFrame, outside, Doing
  <2>2. /\ mem'.state.handle = [id |-> do.handle, parent |-> 0] /\ mem'.private = mem.private
        /\ mem'.known = mem.known /\ mem.known /\ mem'.undo = mem.undo
    <3>1. PICK s : s = [mem.state EXCEPT !.handle = [id |-> do.handle, parent |-> 0],
                                         !.phase = "monitor"]
      OBVIOUS
    <3>2. s.handle = [id |-> do.handle, parent |-> 0]
      BY <1>1, <3>1 DEF State
    <3>3. Set(s)
      BY <1>6, <3>1 DEF TakeHandle
    <3>4. mem.known
      BY <2>1 DEF DownloadInv, Rest, InPhase
    <3>. QED  BY <1>3, <3>2, <3>3, <3>4
  <2>3. do.handle # 0
    BY <1>1, <2>1, DownloadAssumption DEF DownloadAssumption, Typed, Numbered, Handles
  <2>4. Owners' \subseteq Owners /\ (Unowned' => Unowned) /\ (Over' => Over)
    BY <2>1, <2>2, <2>3 DEF Owners, Made, Over, Unowned, Held, NoHandle
  <2>. QED  BY <2>1, <2>4, TidyKept
<1>7. CASE CreateFails
  <2>1. UNCHANGED <<db, mem, dl, temp>> /\ do'.pc = "marshal" /\ Mishap("orphan", do.pc = "created")
    BY <1>2, <1>7 DEF CreateFails, doFrame, outside
  <2>2. Good' => Good /\ do.pc # "created"
    BY <2>1 DEF Good, Mishap
  <2>3. Owners' \subseteq Owners /\ (Over' => Over) /\ (do.pc # "created" /\ Unowned' => Unowned)
    BY <2>1 DEF Owners, Made, Over, Unowned, Held
  <2>. QED  BY <2>1, <2>2, <2>3, TidyFrame DEF Tidy
<1>8. CASE Marshal
  <2>1. /\ UNCHANGED <<db, dl, temp, mishaps>> /\ do.pc = "marshal" /\ do'.pc = "returned"
        /\ mem'.private = mem.state /\ mem'.state = mem.state /\ mem'.known = mem.known
        /\ mem'.undo = mem.undo
    BY <1>1, <1>8 DEF Marshal, doFrame, outside, Doing, Object, Doer
  <2>2. mem.known
    BY <2>1 DEF DownloadInv, Rest, InPhase
  <2>3. Owners' \subseteq Owners /\ (Unowned' => Unowned) /\ (Over' => Over)
    BY <2>1, <2>2 DEF Owners, Made, Over, Unowned, Held
  <2>. QED  BY <2>1, <2>3, TidyKept
<1>10. CASE \E f \in Files : UploadPanics(f)
  <2>1. UNCHANGED <<db, mem, do, dl, temp>> /\ Mishap("repeat", TRUE)
    BY <1>10 DEF UploadPanics
  <2>2. Good' = Good /\ Owners' = Owners /\ Unowned' = Unowned /\ Over' = Over
    BY <2>1 DEF Good, Mishap, Owners, Made, Unowned, Held, Over
  <2>. QED  BY <2>1, <2>2, TidyFrame DEF Tidy
<1>9. CASE \/ Monitor \/ Unreachable \/ (\E f \in Files : Upload(f) \/ UploadFails(f))
           \/ EndTransfer \/ StopTransfer
  <2>1. /\ UNCHANGED <<db, dl, temp, mishaps>>
        /\ mem'.known = mem.known /\ mem'.private = mem.private /\ mem'.undo = mem.undo
        /\ do.pc # "created" /\ do'.pc # "created" /\ mem.known
        /\ mem'.state.handle = mem.state.handle \/ Follows
    <3>1. do.pc \in {"monitor", "transfer"} /\ do'.pc \in {"marshal", "transfer"}
      BY <1>9, DoShape
    <3>2. mem.known
      BY <3>1 DEF DownloadInv, Rest, InPhase
    <3>. QED  BY <1>9, <3>1, <3>2, DoShape
  <2>2. CASE mem'.state.handle = mem.state.handle
    <3>1. Owners' \subseteq Owners /\ (Unowned' => Unowned) /\ (Over' => Over)
      BY <2>1, <2>2 DEF Owners, Made, Over, Unowned, Held
    <3>. QED  BY <2>1, <3>1, TidyKept
  <2>3. CASE Follows
    <3>1. PICK h : h = mem.state.handle
      OBVIOUS
    <3>2. PICK x : x = [id |-> dl[h.id].by, parent |-> h.id]
      OBVIOUS
    <3>3. h \in Owners /\ h \in [id : Handles, parent : 0 .. MaxHandles]
      BY <1>1, <2>3, <3>1, OwnersTyped DEF Follows, Owners
    <3>4. mem'.state.handle = x /\ x.id = dl[h.id].by /\ x.parent = h.id /\ dl[h.id].state = "followed"
      BY <2>3, <3>1, <3>2 DEF Follows
    <3>5. Good => Named(x)
      BY <1>1, <3>3, <3>4, ChildNamed DEF Tidy
    <3>6. Good => \A y \in Owners' : Named(y)
      BY <2>1, <3>4, <3>5 DEF Tidy, Owners, Made
    <3>7. ~Unowned'
      <4>1. h.id # 0
        BY <3>3, DownloadAssumption DEF DownloadAssumption, Handles
      <4>. QED  BY <2>1, <3>4, <4>1 DEF Unowned, Held, NoHandle
    <3>8. Good' = Good /\ Over' = Over
      BY <2>1 DEF Good, Over
    <3>. QED  BY <2>1, <3>6, <3>7, <3>8, TidyFrame DEF Tidy
  <2>. QED  BY <2>1, <2>2, <2>3
<1>. QED  BY <1>4, <1>5, <1>6, <1>7, <1>8, <1>9, <1>10

-----------------------------------------------------------------------------
(***************************************************************************)
(* A cleanup: it cancels what the task knows, or has nothing to cancel, or *)
(* is not heard.                                                           *)
(***************************************************************************)
LEMMA CleanupTidy ==
  ASSUME Typed, Tidy, Cleanup, mem.known, Owners' \subseteq Owners,
         mem.state.handle = NoHandle => do.pc # "created"
  PROVE  Tidy'
<1>1. CASE mem.state.handle = NoHandle
  <2>1. UNCHANGED <<dl, temp, mishaps>>
    BY <1>1 DEF Cleanup
  <2>2. Unowned
    BY <1>1 DEF Unowned, Held
  <2>3. Good' = Good
    BY <2>1 DEF Good
  <2>. QED  BY <2>1, <2>2, <2>3, TidyFrame DEF Tidy
<1>2. CASE mem.state.handle # NoHandle /\ CancelAt(mem.state.handle)
  <2>1. mem.state.handle \in Owners
    BY <1>2 DEF Owners
  <2>. QED  BY <1>2, <2>1, TidyCancel
<1>3. CASE Mishap("kept", TRUE)
  <2>1. ~Good'
    BY <1>3 DEF Mishap, Good
  <2>. QED  BY <2>1 DEF Tidy
<1>. QED  BY <1>1, <1>2, <1>3 DEF Cleanup

(***************************************************************************)
(* The task ends without a handle: it has no download, or one that nobody  *)
(* heard of.                                                               *)
(***************************************************************************)
LEMMA NothingToClean ==
  ASSUME Tidy, Held.handle = NoHandle, UNCHANGED <<dl, temp>>, Mishap("orphan", do.pc = "created"),
         Owners' \subseteq Owners
  PROVE  Tidy'
<1>1. Good' => Good /\ do.pc # "created"
  BY DEF Good, Mishap
<1>2. Good' => Unowned
  BY <1>1 DEF Unowned
<1>3. Chained' = Chained /\ Loose' = Loose /\ \A x : Named(x)' = Named(x)
  BY DEF Chained, Loose, Named
<1>. QED  BY <1>1, <1>2, <1>3 DEF Tidy

(***************************************************************************)
(* The transitions of the queue.                                           *)
(***************************************************************************)
LEMMA QueueTidy ==
  ASSUME DownloadInv, Tidy, Order, Pickup \/ Transit \/ Timeout
  PROVE  Tidy'
<1>1. /\ Typed /\ mem \in Object /\ do \in Doer /\ db \in Row
  BY DEF DownloadInv, Typed, Recorded
<1>2. \A s : Persist(s) => db'.private = mem.private /\ db'.status = s
  BY <1>1 DEF Persist, Row
<1>3. CASE Pickup
  <2>1. /\ UNCHANGED <<mem, dl, temp, mishaps>> /\ do.pc = "idle" /\ do'.pc = "start"
        /\ db'.private = mem.private /\ db'.status = "processing"
    BY <1>1, <1>2, <1>3, Fresh DEF Pickup, outside, Doer
  <2>2. Owners' \subseteq Owners
    BY <2>1 DEF Owners, Made
  <2>3. (Unowned' => Unowned) /\ ~Over'
    BY <2>1 DEF Unowned, Held, Over, Terminal
  <2>. QED  BY <2>1, <2>2, <2>3, TidyKept
<1>4. CASE Transit
  <2>1. UNCHANGED mem /\ do.pc = "returned" /\ do'.pc = "idle" /\ mem.known
    BY <1>4, Fresh DEF Transit, DownloadInv, Rest, InPhase
  <2>2. db'.private \in {db.private, mem.private} => Owners' \subseteq Owners
    BY <2>1 DEF Owners, Made
  <2>3. Unowned' => Unowned
    BY <2>1 DEF Unowned, Held
  <2>4. CASE UNCHANGED <<db, dl, temp, mishaps>>
    BY <2>2, <2>3, <2>4, TidyKept DEF Over
  <2>5. CASE Suspend \/ Retry
    <3>1. UNCHANGED <<dl, temp, mishaps>> /\ db'.private = mem.private /\ db'.status = "suspending"
      BY <1>1, <1>2, <2>5 DEF Suspend, Retry, Row
    <3>. QED  BY <2>2, <2>3, <3>1, TidyKept DEF Over, Terminal
  <2>6. ASSUME NEW s, End(s)
        PROVE  Tidy'
    <3>1. CASE Panics
      BY <2>4, <2>6, <3>1 DEF End
    <3>2. CASE ~Panics
      BY <1>1, <1>2, <2>1, <2>2, <2>6, <3>2, CleanupTidy DEF End
    <3>. QED  BY <3>1, <3>2
  <2>. QED  BY <1>1, <1>4, <2>4, <2>5, <2>6, TransitCases DEF DownloadInv, Rest
<1>5. CASE Timeout
  <2>1. UNCHANGED <<mem, do>>
    BY <1>5 DEF Timeout
  <2>2. db'.private \in {db.private, mem.private} => Owners' \subseteq Owners
    BY <2>1 DEF Owners, Made
  <2>3. CASE Panics
    <3>1. UNCHANGED <<db, dl, temp, mishaps>>
      BY <1>5, <2>3 DEF Timeout
    <3>. QED  BY <2>1, <2>2, <3>1, TidyKept DEF Over, Unowned, Held
  <2>4. CASE ~Panics
    <3>1. Owners' \subseteq Owners /\ mem.known
      BY <1>2, <1>5, <2>2, <2>4 DEF Timeout, Panics
    <3>2. CASE mem.state.handle = NoHandle
      BY <1>5, <2>4, <3>1, <3>2, NothingToClean DEF Timeout, Held
    <3>3. CASE mem.state.handle # NoHandle
      <4>1. mem.state.handle \in Owners
        BY <3>3 DEF Owners
      <4>2. CancelAt(mem.state.handle)
        BY <1>5, <2>4, <3>3 DEF Timeout
      <4>. QED  BY <1>1, <3>1, <4>1, <4>2, TidyCancel
    <3>. QED  BY <3>2, <3>3
  <2>. QED  BY <2>3, <2>4
<1>. QED  BY <1>3, <1>4, <1>5

(***************************************************************************)
(* The requests.                                                           *)
(***************************************************************************)
LEMMA RequestTidy ==
  ASSUME DownloadInv, Tidy, Order, Requests
  PROVE  Tidy'
<1>1. /\ Typed /\ mem \in Object /\ do \in Doer /\ db \in Row /\ Held \in State
      /\ do.pc = "created" => mem.known
  BY HeldBound DEF DownloadInv, Typed, Recorded, Rest, InPhase
<1>2. \A s : Persist(s) => db'.private = mem.private /\ db'.status = s
  BY <1>1 DEF Persist, Row
<1>3. Held.handle # NoHandle => Held.handle \in Owners
  BY DEF Held, Owners
<1>4. CASE CancelQueued
  <2>1. /\ UNCHANGED <<mem, do, dl, temp>> /\ db'.private = mem.private /\ do.pc = "idle"
        /\ Mishap("kept", mem.private.handle # NoHandle)
    BY <1>2, <1>4 DEF CancelQueued, requestFrame
  <2>2. Owners' \subseteq Owners
    BY <2>1 DEF Owners, Made
  <2>3. Good' => Good /\ mem.private.handle = NoHandle
    BY <2>1 DEF Good, Mishap
  <2>4. Good' => Unowned
    BY <2>1, <2>3 DEF Order, Unowned, Held
  <2>. QED  BY <2>1, <2>2, <2>3, <2>4, TidyFrame DEF Tidy
<1>5. CASE CancelDownload
  <2>1. /\ UNCHANGED <<db, do>> /\ mem'.known /\ mem'.state = Held /\ mem'.private = mem.private
        /\ mem'.undo = mem.undo
    BY <1>1, <1>5 DEF CancelDownload, requestFrame, Object
  <2>2. Owners' \subseteq Owners /\ (Unowned' => Unowned) /\ (Over' => Over)
    BY <1>3, <2>1 DEF Owners, Made, Unowned, Held, Over
  <2>3. CASE Held.handle = NoHandle
    BY <1>5, <2>2, <2>3, TidyKept DEF CancelDownload
  <2>4. CASE Held.handle # NoHandle
    BY <1>1, <1>3, <1>5, <2>2, <2>4, TidyCancel DEF CancelDownload
  <2>. QED  BY <2>3, <2>4
<1>6. CASE CancelTask
  <2>1. UNCHANGED <<mem, do>> /\ mem.known
    BY <1>6 DEF CancelTask, requestFrame, Order
  <2>2. db'.private \in {db.private, mem.private} => Owners' \subseteq Owners
    BY <2>1 DEF Owners, Made
  <2>3. CASE db.status \in {"suspending", "processing"}
    <3>1. Owners' \subseteq Owners
      BY <1>2, <1>6, <2>2, <2>3 DEF CancelTask
    <3>2. CASE mem.state.handle = NoHandle
      BY <1>6, <2>1, <2>3, <3>1, <3>2, NothingToClean DEF CancelTask, Held
    <3>3. CASE mem.state.handle # NoHandle
      BY <1>1, <1>6, <2>1, <2>3, <3>1, <3>3, CleanupTidy DEF CancelTask
    <3>. QED  BY <3>2, <3>3
  <2>4. CASE db.status \notin {"suspending", "processing"}
    <3>1. UNCHANGED <<db, dl, temp, mishaps>>
      BY <1>6, <2>4 DEF CancelTask
    <3>. QED  BY <2>1, <2>2, <3>1, TidyKept DEF Over, Unowned, Held
  <2>. QED  BY <2>3, <2>4
<1>7. CASE Summarize
  <2>1. PICK s : s = [Held EXCEPT !.root = FALSE]
    OBVIOUS
  <2>2. s.handle = Held.handle
    BY <1>1, <2>1 DEF State
  <2>3. /\ UNCHANGED <<db, do, dl, temp, mishaps>> /\ mem'.known /\ mem'.state = s
        /\ mem'.private = mem.private /\ mem'.undo = mem.undo
    BY <1>1, <1>7, <2>1 DEF Summarize, requestFrame, Object
  <2>4. Owners' \subseteq Owners /\ (Unowned' => Unowned) /\ (Over' => Over)
    BY <1>3, <2>2, <2>3 DEF Owners, Made, Unowned, Held, Over
  <2>. QED  BY <2>3, <2>4, TidyKept
<1>8. CASE SetDownloadTarget
  <2>1. UNCHANGED <<db, do, dl, temp, mishaps>>
    BY <1>8 DEF SetDownloadTarget, requestFrame
  <2>2. CASE UNCHANGED mem
    BY <2>1, <2>2, TidyKept DEF Owners, Made, Unowned, Held, Over
  <2>3. CASE mem.client /\ mem' = [mem EXCEPT !.private = mem.state, !.undo = mem.state]
    <3>1. mem.known
      BY <2>3 DEF DownloadInv, Rest, InPhase
    <3>2. mem'.known /\ mem'.state = mem.state /\ mem'.private = mem.state /\ mem'.undo = mem.state
      BY <1>1, <2>3, <3>1 DEF Object
    <3>3. Owners' \subseteq Owners /\ (Unowned' => Unowned) /\ (Over' => Over)
      BY <2>1, <3>1, <3>2 DEF Owners, Made, Unowned, Held, Over
    <3>. QED  BY <2>1, <3>3, TidyKept
  <2>. QED  BY <1>8, <2>2, <2>3 DEF SetDownloadTarget
<1>9. CASE ControlDownload
  <2>1. PICK s : s = [Held EXCEPT !.seen = TRUE, !.root = TRUE]
    OBVIOUS
  <2>2. s.handle = Held.handle
    BY <1>1, <2>1 DEF State
  <2>3. mem' = [mem EXCEPT !.private = s, !.known = TRUE, !.state = s, !.client = TRUE]
    BY <1>9, <2>1 DEF ControlDownload
  <2>4. /\ UNCHANGED <<db, do, temp, mishaps>> /\ mem'.known /\ mem'.state = s /\ mem'.private = s
        /\ mem'.undo = mem.undo
    BY <1>1, <1>9, <2>3 DEF ControlDownload, requestFrame, Object
  <2>5. PICK g : g = Held.handle.id
    OBVIOUS
  <2>6. /\ g # 0 /\ dl[g].state \in {"active", "paused"}
        /\ \E t \in {"active", "paused"} : dl' = [dl EXCEPT ![g].state = t]
    BY <1>9, <2>5 DEF ControlDownload
  <2>7. Held.handle \in Owners /\ g \in Handles
    BY <1>1, <1>3, <2>5, <2>6, OwnersTyped DEF NoHandle
  <2>8. g \in Loose /\ dl[g].state # "followed"
    BY <2>6, <2>7 DEF Loose
  <2>9. Owners' \subseteq Owners /\ (Unowned' => Unowned) /\ (Over' => Over)
    BY <2>2, <2>4, <2>7 DEF Owners, Made, Unowned, Held, Over
  <2>10. Chained => /\ Chained' /\ Loose' = Loose
                    /\ \A x : x.parent \in Handles \cup {0} /\ Named(x) => Named(x)'
    BY <1>1, <2>6, <2>8, DownloadMoves
  <2>11. \A x \in Owners' : x.parent \in Handles \cup {0}
    BY <1>1, <2>9, OwnersTyped
  <2>12. Good' = Good
    BY <2>4 DEF Good
  <2>. QED  BY <2>4, <2>8, <2>9, <2>10, <2>11, <2>12 DEF Tidy
<1>10. CASE UpdateTask
  <2>1. /\ UNCHANGED <<do, dl, temp, mishaps>> /\ db'.private = mem.private /\ db'.status = db.status
        /\ mem'.private = mem.private /\ mem'.state = mem.state /\ mem'.known = mem.known
        /\ mem'.undo.handle = NoHandle
    BY <1>1, <1>10 DEF UpdateTask, requestFrame, Row, Object, NewState
  <2>2. Owners' \subseteq Owners /\ (Unowned' => Unowned) /\ (Over' => Over)
    BY <2>1 DEF Owners, Made, Unowned, Held, Over
  <2>. QED  BY <2>1, <2>2, TidyKept
<1>11. CASE Delete
  <2>1. UNCHANGED <<mem, do>> /\ db'.private = db.private /\ Over
    BY <1>1, <1>11 DEF Delete, requestFrame, Row, Over
  <2>2. Owners' \subseteq Owners /\ (Unowned' => Unowned)
    BY <2>1 DEF Owners, Made, Unowned, Held
  <2>3. CASE db.private.handle = NoHandle
    <3>1. UNCHANGED <<dl, temp, mishaps>>
      BY <1>11, <2>3 DEF Delete
    <3>. QED  BY <2>1, <2>2, <3>1, TidyKept
  <2>4. CASE db.private.handle # NoHandle
    <3>1. db.private.handle \in Owners /\ CancelAt(db.private.handle)
      BY <1>11, <2>4 DEF Delete, Owners
    <3>. QED  BY <1>1, <2>2, <3>1, TidyCancel
  <2>. QED  BY <2>3, <2>4
<1>12. CASE UpdateFails
  <2>1. UNCHANGED <<db, do, dl, temp>>
    BY <1>12 DEF UpdateFails, requestFrame
  <2>2. CASE request # "set"
    <3>1. UNCHANGED <<mem, mishaps>>
      BY <1>12, <2>2 DEF UpdateFails
    <3>. QED  BY <2>1, <3>1, TidyKept DEF Owners, Made, Unowned, Held, Over
  <2>3. CASE request = "set"
    <3>1. /\ mem'.private = mem.undo /\ mem'.state = mem.undo /\ mem'.undo = NewState
          /\ mem'.known = mem.known
      BY <1>1, <1>12, <2>3 DEF UpdateFails, Object
    <3>2. Good' = Good
      BY <1>12, <2>3 DEF UpdateFails, Mishap, Good
    <3>3. mem.known /\ mem.undo.handle # NoHandle /\ NewState.handle = NoHandle
      BY <2>3 DEF DownloadInv, Rest, Snapshot, Behind, NewState
    <3>4. Owners' \subseteq Owners /\ ~Unowned' /\ (Over' => Over)
      BY <2>1, <3>1, <3>3 DEF Owners, Made, Unowned, Held, Over
    <3>. QED  BY <2>1, <3>2, <3>4, TidyFrame DEF Tidy
  <2>. QED  BY <2>2, <2>3
<1>. QED  BY <1>4, <1>5, <1>6, <1>7, <1>8, <1>9, <1>10, <1>11, <1>12 DEF Requests

(***************************************************************************)
(* The downloader, the end and the start of the process.                   *)
(***************************************************************************)
LEMMA OutsideTidy ==
  ASSUME DownloadInv, Tidy, Order, Downloads \/ Kill \/ Start \/ UNCHANGED vars
  PROVE  Tidy'
<1>1. /\ Typed /\ mem \in Object /\ do \in Doer /\ db \in Row /\ Bound(db.private)
  BY DEF DownloadInv, Typed, Recorded, Numbered
<1>2. CASE Downloads
  <2>1. UNCHANGED <<db, mem, do, mishaps>>
    BY <1>2 DEF Downloads
  <2>2. Owners' = Owners /\ Unowned' = Unowned /\ Over' = Over /\ Good' = Good
    BY <2>1 DEF Owners, Made, Unowned, Held, Over, Good
  <2>3. \A x \in Owners : x.parent \in Handles \cup {0}
    BY <1>1, OwnersTyped
  <2>4. PICK h \in Handles : Followed(h) \/ Finished(h)
    BY <1>2 DEF Downloads
  <2>5. h \in Loose
    BY <2>4 DEF Followed, Finished, Loose
  <2>6. ASSUME Good
        PROVE  /\ Chained' /\ Loose' # {}
               /\ \A x : x.parent \in Handles \cup {0} /\ Named(x) => Named(x)'
    <3>1. Chained
      BY <2>6 DEF Tidy
    <3>2. CASE Followed(h)
      <4>1. PICK k \in Handles : /\ dl[k] = Absent
                                 /\ dl' = [dl EXCEPT ![h] = [state |-> "followed", by |-> k],
                                                     ![k] = Task("active")]
        BY <3>2 DEF Followed
      <4>2. dl[h].state = "active" /\ \A i \in Handles : dl[i].by # h
        BY <3>2 DEF Followed
      <4>. QED  BY <1>1, <2>4, <3>1, <4>1, <4>2, DownloadFollowed
    <3>3. CASE Finished(h)
      <4>1. /\ dl[h].state # "followed"
            /\ \E s \in {"active", "paused", "done", "seeding", "failed"} :
                  dl' = [dl EXCEPT ![h].state = s]
        BY <3>3 DEF Finished
      <4>. QED  BY <1>1, <2>5, <3>1, <4>1, DownloadMoves
    <3>. QED  BY <2>4, <3>2, <3>3
  <2>. QED  BY <2>2, <2>3, <2>5, <2>6 DEF Tidy
<1>3. CASE Kill
  <2>1. UNCHANGED <<db, mem, do, dl, temp, mishaps>>
    BY <1>3 DEF Kill, outside
  <2>. QED  BY <2>1, TidyKept DEF Owners, Made, Unowned, Held, Over
<1>4. CASE Start
  <2>1. UNCHANGED <<dl, temp>> /\ do'.pc = "idle"
    BY <1>4, Fresh DEF Start, outside
  <2>2. /\ mem'.private = db.private /\ mem'.state = NewState /\ mem'.undo = NewState /\ ~mem'.known
        /\ db'.private = db.private
    BY <1>1, <1>4, LoadedObject DEF Start, Row
  <2>3. NewState.handle = NoHandle
    BY DEF NewState
  <2>4. db'.status # db.status => db'.status = "queued"
    BY <1>1, <1>4 DEF Start, Row
  <2>5. Owners' \subseteq Owners /\ (Over' => Over)
    BY <2>1, <2>2, <2>3, <2>4 DEF Owners, Made, Over, Terminal
  <2>6. Good' => /\ Good /\ do.pc # "created"
                 /\ mem.state.handle # NoHandle => db.private.handle # NoHandle
    BY <1>4 DEF Start, Good
  <2>7. ~mem.known => db.private = mem.private
    BY DEF DownloadInv, Rest, Remembered
  <2>8. Good' /\ Unowned' => Unowned
    BY <2>2, <2>6, <2>7 DEF Unowned, Held
  <2>. QED  BY <2>1, <2>5, <2>6, <2>8, TidyFrame DEF Tidy
<1>5. CASE UNCHANGED vars
  BY <1>5, TidyKept DEF vars, Owners, Made, Unowned, Held, Over
<1>. QED  BY <1>2, <1>3, <1>4, <1>5

-----------------------------------------------------------------------------
(***************************************************************************)
(* The steps of Do keep the order.                                         *)
(***************************************************************************)
LEMMA DoOrder ==
  ASSUME DownloadInv, Order,
         \/ Begin \/ NodeFails \/ Create \/ TakeHandle \/ CreateFails
         \/ Monitor \/ Unreachable
         \/ (\E f \in Files : Upload(f) \/ UploadPanics(f) \/ UploadFails(f))
         \/ EndTransfer \/ StopTransfer \/ Marshal
  PROVE  Order'
<1>1. /\ Typed /\ mem.state \in State /\ mem \in Object /\ do \in Doer
      /\ do.pc \notin {"idle", "start"} => mem.known
  BY DEF DownloadInv, Typed, Recorded, Numbered, Bound, Rest, InPhase
<1>2. \A s : Return(s) => do'.pc = "marshal"
  BY <1>1 DEF Return, Doer
<1>3. ASSUME NEW s, Set(s)
      PROVE  mem'.state = s /\ mem'.private = mem.private /\ mem'.known = mem.known
  BY <1>1, <1>3, SetState
<1>4. CASE Begin \/ NodeFails
  <2>1. /\ mem'.known /\ mem'.state = mem.private /\ mem'.private = mem.private
        /\ UNCHANGED <<db, waiting, request>>
    BY <1>1, <1>4 DEF Begin, NodeFails, Object, doFrame, Doing
  <2>2. do'.pc \notin {"idle", "created"}
    <3>1. CASE NodeFails
      BY <1>1, <3>1 DEF NodeFails, Doer
    <3>2. CASE Begin
      <4>1. mem.private.phase \in {"new", "monitor", "transfer", "seeding"}
        BY <1>1 DEF Object, State
      <4>2. PICK pc \in {"create", "monitor", "transfer"} :
               do' = [do EXCEPT !.pc = pc, !.left = Files \ mem.private.transferred]
        BY <3>2, <4>1 DEF Begin
      <4>. QED  BY <1>1, <4>2 DEF Doer
    <3>. QED  BY <1>4, <3>1, <3>2
  <2>. QED  BY <2>1, <2>2 DEF Order
<1>5. CASE Create
  <2>1. UNCHANGED <<db, waiting, request>> /\ do.pc = "create" /\ mem.known
    BY <1>1, <1>5 DEF Create, doFrame, Doing
  <2>2. CASE mem.state.handle # NoHandle
    <3>1. SetKept /\ do'.pc = "marshal"
      BY <1>1, <1>2, <1>5, <2>2, SameHandle DEF Create
    <3>. QED  BY <2>1, <3>1 DEF Order, SetKept
  <2>3. CASE mem.state.handle = NoHandle
    <3>1. UNCHANGED mem /\ do'.pc \in {"marshal", "created"}
      <4>1. ASSUME NEW k, do' = [do EXCEPT !.pc = "created", !.handle = k]
            PROVE  do'.pc = "created"
        BY <1>1, <4>1 DEF Doer
      <4>. QED  BY <1>2, <1>5, <2>3, <4>1 DEF Create
    <3>. QED  BY <2>1, <2>3, <3>1 DEF Order
  <2>. QED  BY <2>2, <2>3
<1>6. CASE TakeHandle
  <2>1. UNCHANGED <<db, waiting, request>> /\ do.pc = "created" /\ do'.pc = "marshal"
    BY <1>2, <1>6 DEF TakeHandle, doFrame, Doing
  <2>2. PICK s : s = [mem.state EXCEPT !.handle = [id |-> do.handle, parent |-> 0],
                                       !.phase = "monitor"]
    OBVIOUS
  <2>3. s.handle = [id |-> do.handle, parent |-> 0]
    BY <1>1, <2>2 DEF State
  <2>4. do.handle # 0
    BY <1>1, <2>1, DownloadAssumption DEF DownloadAssumption, Typed, Numbered, Handles
  <2>5. s.handle # NoHandle
    BY <2>3, <2>4 DEF NoHandle
  <2>6. Set(s)
    BY <1>6, <2>2 DEF TakeHandle
  <2>7. mem'.state = s /\ mem'.private = mem.private /\ mem'.known = mem.known
    BY <1>3, <2>6
  <2>. QED  BY <2>1, <2>5, <2>7 DEF Order
<1>7. CASE CreateFails
  <2>1. /\ UNCHANGED <<db, mem, waiting, request>> /\ do'.pc = "marshal" /\ mem.known
        /\ mem.state.handle = NoHandle
    BY <1>1, <1>2, <1>7 DEF CreateFails, doFrame
  <2>. QED  BY <2>1 DEF Order
<1>8. CASE Marshal
  <2>1. /\ UNCHANGED <<db, waiting, request>> /\ do.pc = "marshal" /\ do'.pc = "returned"
        /\ mem'.private = mem.state /\ mem'.state = mem.state /\ mem'.known = mem.known
    BY <1>1, <1>8 DEF Marshal, doFrame, Doing, Object, Doer
  <2>. QED  BY <1>1, <2>1 DEF Order
<1>10. CASE \E f \in Files : UploadPanics(f)
  BY <1>10 DEF UploadPanics, Order
<1>9. CASE \/ Monitor \/ Unreachable \/ (\E f \in Files : Upload(f) \/ UploadFails(f))
           \/ EndTransfer \/ StopTransfer
  <2>1. /\ UNCHANGED <<db, waiting, request>> /\ mem'.known = mem.known /\ mem'.private = mem.private
        /\ do.pc \in {"monitor", "transfer"} /\ do'.pc \in {"marshal", "transfer"}
        /\ mem'.state.handle = mem.state.handle \/ Follows
    BY <1>9, DoShape
  <2>2. CASE mem'.state.handle = mem.state.handle
    BY <2>1, <2>2 DEF Order
  <2>3. CASE Follows
    <3>1. PICK h : h = mem.state.handle
      OBVIOUS
    <3>2. h \in [id : Handles, parent : 0 .. MaxHandles]
      BY <1>1, <2>3, <3>1 DEF Follows, State, Handle
    <3>3. h.id # 0
      BY <3>2, DownloadAssumption DEF DownloadAssumption, Handles
    <3>4. mem'.state.handle # NoHandle
      BY <2>3, <3>1, <3>3 DEF Follows, NoHandle
    <3>. QED  BY <2>1, <2>3, <3>4 DEF Order, Follows
  <2>. QED  BY <2>1, <2>2, <2>3
<1>. QED  BY <1>4, <1>5, <1>6, <1>7, <1>8, <1>9, <1>10

(***************************************************************************)
(* So do the other actions.                                                *)
(***************************************************************************)
LEMMA OtherOrder ==
  ASSUME DownloadInv, Order,
         \/ Pickup \/ Transit \/ Timeout \/ Requests \/ Downloads \/ Kill \/ Start \/ UNCHANGED vars
  PROVE  Order'
<1>1. /\ Typed /\ mem \in Object /\ do \in Doer /\ db \in Row /\ Bound(db.private) /\ Held \in State
      /\ do.pc \notin {"idle", "start"} => mem.known
      /\ mem.client => mem.known
  BY HeldBound DEF DownloadInv, Typed, Recorded, Numbered, Rest, InPhase
<1>2. \A s : Persist(s) => db'.private = mem.private /\ db'.status = s
  BY <1>1 DEF Persist, Row
<1>3. CASE Pickup
  <2>1. /\ UNCHANGED <<mem, request>> /\ do'.pc = "start" /\ do.pc = "idle"
        /\ db'.private = mem.private /\ db'.status = "processing"
    BY <1>1, <1>2, <1>3, Fresh DEF Pickup, Doer
  <2>. QED  BY <2>1 DEF Order
<1>4. CASE Transit
  <2>1. UNCHANGED <<mem, request>> /\ do.pc = "returned" /\ do'.pc = "idle" /\ ~waiting'
    BY <1>4, Fresh DEF Transit
  <2>2. db'.private \in {db.private, mem.private}
    BY <1>1, <1>2, <1>4, TransitCases DEF Suspend, Retry, End, Row, DownloadInv, Rest
  <2>. QED  BY <2>1, <2>2 DEF Order
<1>5. CASE Timeout
  <2>1. UNCHANGED <<mem, do, request>> /\ ~waiting'
    BY <1>5 DEF Timeout
  <2>2. db'.private \in {db.private, mem.private}
    BY <1>2, <1>5 DEF Timeout
  <2>. QED  BY <2>1, <2>2 DEF Order
<1>6. CASE CancelQueued
  <2>1. UNCHANGED <<mem, do, waiting, request>> /\ do.pc = "idle" /\ db'.private = mem.private
    BY <1>2, <1>6 DEF CancelQueued, requestFrame
  <2>. QED  BY <2>1 DEF Order
<1>7. CASE CancelDownload
  <2>1. /\ UNCHANGED <<db, do, waiting>> /\ mem'.known /\ mem'.state = Held
        /\ mem'.private = mem.private
    BY <1>1, <1>7 DEF CancelDownload, requestFrame, Object
  <2>. QED  BY <1>1, <2>1 DEF Order, Held
<1>8. CASE CancelTask
  <2>1. UNCHANGED <<mem, do>> /\ request' = "idle"
    BY <1>8 DEF CancelTask, requestFrame
  <2>2. UNCHANGED <<db, waiting>> \/ (~waiting' /\ db'.private = mem.private)
    BY <1>2, <1>8 DEF CancelTask
  <2>. QED  BY <2>1, <2>2 DEF Order
<1>9. CASE Summarize
  <2>1. PICK s : s = [Held EXCEPT !.root = FALSE]
    OBVIOUS
  <2>2. s.handle = Held.handle
    BY <1>1, <2>1 DEF State
  <2>3. /\ UNCHANGED <<db, do, waiting>> /\ mem'.known /\ mem'.state = s
        /\ mem'.private = mem.private
    BY <1>1, <1>9, <2>1 DEF Summarize, requestFrame, Object
  <2>. QED  BY <1>1, <2>2, <2>3 DEF Order, Held
<1>10. CASE SetDownloadTarget
  <2>1. UNCHANGED <<db, do, waiting>> /\ request' # "cancel"
    BY <1>10 DEF SetDownloadTarget, requestFrame
  <2>2. CASE UNCHANGED mem
    BY <2>1, <2>2 DEF Order
  <2>3. CASE mem.client /\ mem' = [mem EXCEPT !.private = mem.state, !.undo = mem.state]
    <3>1. mem.known /\ mem'.known /\ mem'.state = mem.state /\ mem'.private = mem.state
      BY <1>1, <2>3 DEF Object
    <3>. QED  BY <2>1, <3>1 DEF Order
  <2>. QED  BY <1>10, <2>2, <2>3 DEF SetDownloadTarget
<1>11. CASE ControlDownload
  <2>1. PICK s : s = [Held EXCEPT !.seen = TRUE, !.root = TRUE]
    OBVIOUS
  <2>2. s.handle = Held.handle
    BY <1>1, <2>1 DEF State
  <2>3. mem' = [mem EXCEPT !.private = s, !.known = TRUE, !.state = s, !.client = TRUE]
    BY <1>11, <2>1 DEF ControlDownload
  <2>4. /\ UNCHANGED <<db, do, waiting>> /\ mem'.known /\ mem'.state = s /\ mem'.private = s
        /\ request' = "update"
    BY <1>1, <1>11, <2>3 DEF ControlDownload, requestFrame, Object
  <2>5. Held.handle # NoHandle
    BY <1>11 DEF ControlDownload, NoHandle
  <2>. QED  BY <1>1, <2>2, <2>4, <2>5 DEF Order, Held
<1>12. CASE UpdateTask
  <2>1. /\ UNCHANGED <<do, waiting>> /\ db'.private = mem.private /\ db'.status = db.status
        /\ mem'.private = mem.private /\ mem'.state = mem.state /\ mem'.known = mem.known
        /\ request' = "idle"
    BY <1>1, <1>12 DEF UpdateTask, requestFrame, Row, Object
  <2>. QED  BY <2>1 DEF Order
<1>13. CASE Delete
  <2>1. /\ UNCHANGED <<mem, do, waiting, request>> /\ db'.private = db.private
        /\ db.status \in Terminal
    BY <1>1, <1>13 DEF Delete, requestFrame, Row
  <2>. QED  BY <2>1 DEF Order, Terminal
<1>14. CASE Downloads
  BY <1>14 DEF Downloads, Order
<1>15. CASE Kill
  BY <1>15 DEF Kill, Order
<1>16. CASE Start
  <2>1. /\ mem'.private = db.private /\ mem'.state = NewState /\ ~mem'.known
        /\ db'.private = db.private
    BY <1>1, <1>16, LoadedObject DEF Start, Row
  <2>2. ~waiting' /\ request' = "idle" /\ do'.pc = "idle"
    BY <1>16, Fresh DEF Start
  <2>. QED  BY <2>1, <2>2 DEF Order
<1>17. CASE UNCHANGED vars
  BY <1>17 DEF vars, Order
<1>18. CASE UpdateFails
  <2>1. UNCHANGED <<db, do, waiting>> /\ request' = "idle"
    BY <1>18 DEF UpdateFails, requestFrame
  <2>2. CASE request # "set"
    BY <1>18, <2>1, <2>2 DEF UpdateFails, Order
  <2>3. CASE request = "set"
    <3>1. mem'.private = mem.undo /\ mem'.state = mem.undo /\ mem'.known = mem.known
      BY <1>1, <1>18, <2>3 DEF UpdateFails, Object
    <3>2. mem.undo.handle # NoHandle /\ mem.state.handle # NoHandle
      BY <2>3 DEF DownloadInv, Rest, Snapshot, Behind
    <3>. QED  BY <2>1, <3>1, <3>2 DEF Order
  <2>. QED  BY <2>2, <2>3
<1>. QED  BY <1>3, <1>4, <1>5, <1>6, <1>7, <1>8, <1>9, <1>10, <1>11, <1>12, <1>13, <1>14, <1>15, <1>16,
            <1>17, <1>18 DEF Requests

-----------------------------------------------------------------------------
(***************************************************************************)
(* At first there is no download.                                          *)
(***************************************************************************)
LEMMA InitTidy == Init => Tidy /\ Order
<1>. SUFFICES ASSUME Init PROVE Tidy /\ Order
  OBVIOUS
<1>1. mem = Loaded(NewState) /\ do = IdleDo /\ db.private = NewState /\ db.status = "queued"
      /\ dl = [h \in Handles |-> Absent] /\ temp = FALSE /\ waiting = FALSE /\ request = "idle"
  BY DEF Init
<1>2. /\ NewState.handle = NoHandle /\ mem.private = NewState /\ mem.state = NewState
      /\ mem.undo = NewState /\ ~mem.known /\ do.pc = "idle"
  BY <1>1, Fresh, LoadedObject DEF NewState
<1>3. Absent.state = "absent" /\ Absent.by = 0 /\ 0 \notin Handles
  BY DownloadAssumption DEF DownloadAssumption, Absent, Handles
<1>4. Chained /\ Loose = {}
  BY <1>1, <1>3 DEF Chained, Loose
<1>5. Owners = {}
  BY <1>1, <1>2 DEF Owners, Made
<1>. QED  BY <1>1, <1>2, <1>4, <1>5 DEF Tidy, Order

(***************************************************************************)
(* Both hold in every state.                                               *)
(***************************************************************************)
LEMMA TidyInvariant == Spec => [](Tidy /\ Order)
<1>1. DownloadInv /\ Tidy /\ Order /\ [Next]_vars => Tidy' /\ Order'
  BY DoTidy, QueueTidy, RequestTidy, OutsideTidy, DoOrder, OtherOrder DEF Next, Worker
<1>. QED  BY InitTidy, DownloadInvariant, <1>1, PTL DEF Spec

(***************************************************************************)
(* A task that has ended leaves nothing at the downloader or on its disk   *)
(* (Cleanup, CancelDownload, Delete), whatever the order of its requests,  *)
(* retries and restarts, unless one of the mishaps that the model names.   *)
(***************************************************************************)
THEOREM EndedDownloadLeavesNothing == Spec => []EndedLeavesNothing
<1>1. Flags /\ Tidy => EndedLeavesNothing
  BY DEF Flags, Tidy, Over, Good, Loose, EndedLeavesNothing
<1>. QED  BY DownloadInvariant, TidyInvariant, <1>1, PTL DEF DownloadInv, Typed

=============================================================================
