------------------------ MODULE UploadSession_proofs ------------------------
(***************************************************************************)
(* Proofs about a chunked upload, for any chunks, any number of requests   *)
(* and of faults.                                                          *)
(***************************************************************************)
EXTENDS UploadSession, TLAPS

(***************************************************************************)
(* Records and the stages of a handler: marking its chunk, completing.     *)
(***************************************************************************)
FileRow == [exists : BOOLEAN, entities : SUBSET Entities,
            primary : Entities \cup {None}, placeholder : BOOLEAN]
Marking == {"wait", "save"}
Completing == {"read", "relock", "commit", "unlock", "forget", "drop"}
Handler == [pc : {"idle", "confirm", "held", "write", "mark"} \cup Marking \cup Completing,
            chunk : Chunks \cup {None}, seen : FileRow,
            mutex : {NoMutex} \cup Mutexes, got : SUBSET Chunks]
Canceller == [pc : {"start", "confirm", "check", "delete", "unlock", "forget",
                    "drop", "done"},
              seen : FileRow, confirmed : BOOLEAN]

(***************************************************************************)
(* Types: a handler that is not idle has its chunk, and one that marks it  *)
(* has a mutex.                                                            *)
(***************************************************************************)
Handling ==
  /\ h \in [Handlers -> Handler]
  /\ \A r \in Handlers :
        /\ h[r].pc # "idle" => h[r].chunk \in Chunks
        /\ h[r].pc \in Marking => h[r].mutex \in Mutexes

Typed ==
  /\ Handling
  /\ kv \in (SUBSET Chunks) \cup {None}
  /\ lock \in {"free", "session", "held", "cancel"}
  /\ file \in FileRow
  /\ disk \in SUBSET Chunks /\ acked \in SUBSET Chunks
  /\ map \in {NoMutex} \cup Mutexes
  /\ owner \in [Mutexes -> Handlers \cup {None}]
  /\ creator \in {"start", "prepared", "created", "unlocked", "failed"}
  /\ canceller \in Canceller
  /\ spoilt \in SUBSET {"prepare", "completion", "unlock", "restart", "cancelled"}
  /\ claims \in Nat /\ requests \in 0 .. MaxRequests /\ faults \in 0 .. MaxFaults

(***************************************************************************)
(* Nothing happens to a session before it is stored, and nobody completes  *)
(* it unasked.                                                             *)
(***************************************************************************)
Started ==
  creator # "created" => claims = 0 /\ kv = None /\ \A r \in Handlers : h[r].pc = "idle"
Claimed == \A r \in Handlers : h[r].pc \in Completing => claims > 0

(***************************************************************************)
(* Who saves the progress holds the mutex; until somebody completes the    *)
(* upload or cancels it, there is one mutex.                               *)
(***************************************************************************)
Held == \A r \in Handlers : h[r].pc = "save" => owner[h[r].mutex] = r
OneMutex ==
  claims = 0 /\ "cancelled" \notin spoilt
    => \A r \in Handlers : h[r].pc \in Marking => h[r].mutex = map

(***************************************************************************)
(* After that, whoever brings the session back brings back all the chunks. *)
(***************************************************************************)
AfterClaim ==
  claims > 0 /\ "cancelled" \notin spoilt
    => /\ kv \in {None, Chunks}
       /\ \A r \in Handlers : h[r].pc = "save" => h[r].got = Chunks

(***************************************************************************)
(* What is counted as received is in the blob.                             *)
(***************************************************************************)
Written ==
  /\ kv # None => kv \subseteq disk
  /\ file.primary = "new" => disk = Chunks
  /\ \A r \in Handlers :
        /\ h[r].pc \in {"mark"} \cup Marking => h[r].chunk \in disk
        /\ h[r].pc = "save" => h[r].got \subseteq disk
        /\ h[r].pc \in Completing => disk = Chunks

(***************************************************************************)
(* The inductive invariant.                                                *)
(***************************************************************************)
UploadInv ==
  /\ Typed /\ Started /\ Claimed /\ Held /\ OneMutex /\ AfterClaim /\ OneCompletion /\ Written

-----------------------------------------------------------------------------
(***************************************************************************)
(* The initial records have their types.                                   *)
(***************************************************************************)
LEMMA Records ==
  /\ NewFile \in FileRow /\ OldFile \in FileRow
  /\ NewFile.primary = None /\ OldFile.primary = "old"
  /\ IdleHandler \in Handler /\ IdleHandler.pc = "idle"
<1>1. NewFile \in FileRow /\ NewFile.primary = None
  BY DEF NewFile, FileRow, Entities
<1>2. ASSUME NEW f \in FileRow
      PROVE  LET g == [f EXCEPT !.exists = TRUE, !.entities = {"old"}, !.primary = "old"]
             IN  g \in FileRow /\ g.primary = "old"
  BY DEF FileRow, Entities
<1>3. OldFile \in FileRow /\ OldFile.primary = "old"
  BY <1>1, <1>2 DEF OldFile
<1>4. IdleHandler \in Handler
  BY <1>1 DEF IdleHandler, Handler, NoMutex
<1>. QED  BY <1>1, <1>3, <1>4 DEF IdleHandler

(***************************************************************************)
(* The records a handler moves to.                                         *)
(***************************************************************************)
LEMMA HandlerTo ==
  ASSUME NEW x \in Handler, NEW pc \in {"held", "write", "mark"} \cup Completing
  PROVE  /\ [x EXCEPT !.pc = pc] \in Handler
         /\ [x EXCEPT !.pc = pc].pc = pc
         /\ [x EXCEPT !.pc = pc].chunk = x.chunk
  BY DEF Handler, Completing

LEMMA HandlerSeen ==
  ASSUME NEW x \in Handler, NEW f \in FileRow, NEW y, y = [x EXCEPT !.pc = "relock", !.seen = f]
  PROVE  y \in Handler /\ y.pc = "relock" /\ y.chunk = x.chunk
  BY DEF Handler, Completing

(***************************************************************************)
(* A step of one handler gives it a record of its type.                    *)
(***************************************************************************)
LEMMA HandlerTyped ==
  ASSUME Handling, NEW r \in Handlers, NEW x \in Handler, h' = [h EXCEPT ![r] = x],
         x.pc # "idle" => x.chunk \in Chunks, x.pc \in Marking => x.mutex \in Mutexes
  PROVE  Handling'
  BY DEF Handling

(***************************************************************************)
(* Creating the placeholder leaves a file row.                             *)
(***************************************************************************)
LEMMA PreparedTyped == ASSUME Typed PROVE Prepared(file) \in FileRow
  BY DEF Typed, Prepared, FileRow, Entities

(***************************************************************************)
(* A handler that reads the placeholder keeps what it read.                *)
(***************************************************************************)
LEMMA SeesFile ==
  ASSUME NEW r \in Handlers, ReadPlaceholder(r), file.exists
  PROVE  h' = [h EXCEPT ![r] = [h[r] EXCEPT !.pc = "relock", !.seen = file]]
  BY DEF ReadPlaceholder

(***************************************************************************)
(* Committing makes the new entity the primary one.                        *)
(***************************************************************************)
LEMMA UpgradedPrimary ==
  ASSUME Typed, NEW seen, NEW keeps
  PROVE  Upgraded(seen, keeps).primary = "new"
  BY DEF Typed, FileRow, Upgraded

(***************************************************************************)
(* The invariant holds before anything is uploaded.                        *)
(***************************************************************************)
LEMMA InitInv == Init => UploadInv
  BY UploadAssumption, Records
  DEF UploadAssumption, Init, UploadInv, Typed, Handling, Started, Claimed, Held, OneMutex, AfterClaim,
      OneCompletion, Written, NoMutex, Marking, Completing, Canceller, Mutexes

-----------------------------------------------------------------------------
(***************************************************************************)
(* The types, action by action.                                            *)
(***************************************************************************)
LEMMA TypedStep ==
  ASSUME Typed, [Next]_vars
  PROVE  Typed'
<1>. USE UploadAssumption, Records
     DEF UploadAssumption, At, CancelAt, CancelTo, counters, progress, Spoil, Fault
<1>1. CASE Prepare
  <2>1. file' \in FileRow
    BY <1>1, PreparedTyped DEF Prepare
  <2>. QED  BY <1>1, <2>1 DEF Prepare, Typed, Handling
<1>2. CASE PrepareFails
  BY <1>2 DEF PrepareFails, Typed, Handling
<1>3. CASE StoreSession
  BY <1>3 DEF StoreSession, Typed, Handling
<1>4. CASE CreateFails
  BY <1>4 DEF CreateFails, Typed, Handling
<1>5. CASE RemovePrepared
  BY <1>5 DEF RemovePrepared, Typed, Handling
<1>6. CASE ReadToCancel
  <2>1. canceller' \in Canceller
    BY <1>6 DEF ReadToCancel, Typed, Canceller
  <2>. QED  BY <1>6, <2>1 DEF ReadToCancel, Typed, Handling
<1>7. CASE LockToCancel
  <2>1. /\ \/ canceller' = [canceller EXCEPT !.pc = "check", !.confirmed = TRUE]
           \/ CancelTo("check")
           \/ CancelTo("start")
        /\ lock' \in {lock, "cancel"}
    BY <1>7 DEF LockToCancel
  <2>2. canceller' \in Canceller
    <3>1. canceller \in Canceller
      BY DEF Typed
    <3>. QED  BY ONLY <2>1, <3>1 DEF Canceller, CancelTo
  <2>. QED  BY <1>7, <2>1, <2>2 DEF LockToCancel, Typed, Handling
<1>8. CASE CheckPlaceholder
  BY <1>8 DEF CheckPlaceholder, Relinquish, Typed, Handling, Canceller
<1>9. CASE DeletePlaceholder
  BY <1>9 DEF DeletePlaceholder, Typed, Handling, Canceller, FileRow
<1>10. CASE UnlockCancelled
  BY <1>10 DEF UnlockCancelled, Typed, Handling, Canceller
<1>11. CASE ForgetCancelled
  BY <1>11 DEF ForgetCancelled, Typed, Handling, Canceller
<1>12. CASE DropCancelled
  BY <1>12 DEF DropCancelled, Typed, Handling, Canceller
<1>13. CASE Expire
  BY <1>13 DEF Expire, Typed, Handling
<1>14. CASE Restart
  BY <1>14 DEF Restart, Typed, Handling, Canceller, Marking
<1>15. ASSUME NEW r \in Handlers, NEW c \in Chunks, GetSession(r, c)
      PROVE  Typed'
  <2>. DEFINE x == [IdleHandler EXCEPT !.pc = "confirm", !.chunk = c]
  <2>1. x \in Handler /\ x.pc = "confirm" /\ x.chunk = c
    BY DEF Handler
  <2>2. h' = [h EXCEPT ![r] = x]
    BY <1>15 DEF GetSession
  <2>3. Handling'
    BY <2>1, <2>2, HandlerTyped DEF Typed, Marking
  <2>. QED  BY <1>15, <2>3 DEF GetSession, Typed
<1>16. ASSUME NEW r \in Handlers, Chunk(r) \/ Complete(r)
      PROVE  Typed'
  <2>. DEFINE To(pc) == [h[r] EXCEPT !.pc = pc]
  <2>1. h[r] \in Handler /\ h[r].pc # "idle" /\ h[r].chunk \in Chunks
    BY <1>16 DEF Typed, Handling, Chunk, Complete, ConfirmUploadSession, ReleaseLock, Put, PutFails,
      FetchMutex, LoadProgress, SaveProgress, SaveProgressFails, ReadPlaceholder,
      ConfirmPlaceholder, Commit,
      CommitFails, UnlockCompleted, DeleteSession, DropMutex
  <2>2. /\ \A pc \in {"held", "write", "mark"} \cup Completing :
              To(pc) \in Handler /\ To(pc).pc = pc /\ To(pc).chunk = h[r].chunk
        /\ \A pc \in {"held", "write", "mark"} \cup Completing : pc # "idle" /\ pc \notin Marking
    BY <2>1, HandlerTo DEF Completing, Marking
  <2>3. Fail(r) => Handling'
    BY HandlerTyped DEF Fail, Marking, Typed
  <2>4. ASSUME NEW pc \in {"held", "write", "mark"} \cup Completing, Go(r, pc)
        PROVE  Handling'
    <3>. DEFINE x == To(pc)
    <3>1. h' = [h EXCEPT ![r] = x]
      BY <2>4 DEF Go
    <3>2. x \in Handler /\ x.pc = pc /\ x.chunk \in Chunks /\ pc # "idle" /\ pc \notin Marking
      BY <2>1, <2>2, <2>4
    <3>. HIDE DEF x
    <3>. QED  BY <3>1, <3>2, HandlerTyped DEF Typed
  <2>5. CASE ConfirmUploadSession(r)
    BY <2>5, <2>3, <2>4 DEF ConfirmUploadSession, Typed
  <2>6. CASE ReleaseLock(r)
    BY <2>6, <2>4 DEF ReleaseLock, Unheld, Typed
  <2>7. CASE Put(r)
    BY <2>7, <2>1, <2>4 DEF Put, Typed
  <2>8. CASE PutFails(r)
    BY <2>8, <2>3 DEF PutFails, Typed
  <2>9. CASE FetchMutex(r)
    <3>1. PICK m \in Mutexes : map' = m /\ h' = [h EXCEPT ![r].pc = "wait", ![r].mutex = m]
      BY <2>9 DEF FetchMutex
    <3>. DEFINE x == [h[r] EXCEPT !.pc = "wait", !.mutex = m]
    <3>2. x \in Handler /\ x.chunk = h[r].chunk /\ x.mutex = m
      BY <2>1 DEF Handler, Marking
    <3>3. h' = [h EXCEPT ![r] = x]
      BY <3>1
    <3>4. Handling'
      BY <2>1, <3>2, <3>3, HandlerTyped DEF Typed
    <3>. QED  BY <2>9, <3>1, <3>4 DEF FetchMutex, Typed
  <2>10. CASE LoadProgress(r)
    <3>. DEFINE x == [h[r] EXCEPT !.pc = "save", !.got = kv]
    <3>1. CASE kv = None
      BY <2>1, <2>10, <2>3, <3>1 DEF LoadProgress, Fail, Typed
    <3>2. CASE kv # None
      <4>1. x \in Handler /\ x.chunk = h[r].chunk /\ x.mutex = h[r].mutex /\ x.mutex \in Mutexes
        BY <2>1, <2>10, <3>2 DEF LoadProgress, Handler, Handling, Marking, Typed
      <4>2. h' = [h EXCEPT ![r] = x] /\ owner' = [owner EXCEPT ![h[r].mutex] = r]
        BY <2>10, <3>2 DEF LoadProgress
      <4>. QED  BY <2>1, <2>10, <3>2, <4>1, <4>2, HandlerTyped DEF LoadProgress, Typed
    <3>. QED  BY <3>1, <3>2
  <2>11. CASE SaveProgress(r)
    <3>. DEFINE x == [h[r] EXCEPT !.pc = "read", !.got = {}, !.mutex = NoMutex]
                last == h[r].got # Chunks /\ h[r].got \cup {h[r].chunk} = Chunks
    <3>1. x \in Handler /\ x.pc = "read" /\ x.chunk = h[r].chunk
      BY <2>1 DEF Handler, Completing
    <3>2. /\ kv' = h[r].got \cup {h[r].chunk}
          /\ owner' = [owner EXCEPT ![h[r].mutex] = None]
          /\ UNCHANGED <<lock, file, disk, map, creator, canceller, spoilt, counters>>
      BY <2>11 DEF SaveProgress
    <3>3. kv' \in SUBSET Chunks
      BY <2>1, <3>2 DEF Handler
    <3>4. CASE last
      <4>1. h' = [h EXCEPT ![r] = x] /\ claims' = claims + 1 /\ UNCHANGED acked
        BY <2>11, <3>4 DEF SaveProgress
      <4>2. Handling'
        BY <2>1, <3>1, <4>1, HandlerTyped DEF Typed, Marking
      <4>3. claims' \in Nat /\ acked' \in SUBSET Chunks
        BY <4>1 DEF Typed
      <4>4. owner' \in [Mutexes -> Handlers \cup {None}]
        BY <3>2 DEF Typed
      <4>. QED  BY <3>2, <3>3, <4>2, <4>3, <4>4 DEF Typed
    <3>5. CASE ~last
      <4>1. Fail(r) /\ acked' = acked \cup {h[r].chunk} /\ UNCHANGED claims
        BY <2>11, <3>5 DEF SaveProgress
      <4>. QED  BY <2>1, <2>3, <3>2, <3>3, <4>1 DEF Typed
    <3>. QED  BY <3>4, <3>5
  <2>12. CASE ReadPlaceholder(r)
    <3>. DEFINE x == [h[r] EXCEPT !.pc = "relock", !.seen = file]
    <3>1. x \in Handler /\ x.pc = "relock" /\ x.chunk = h[r].chunk
      <4>1. file \in FileRow
        BY DEF Typed
      <4>. HIDE DEF x
      <4>2. x = [h[r] EXCEPT !.pc = "relock", !.seen = file]
        BY DEF x
      <4>. QED  BY ONLY <2>1, <4>1, <4>2, HandlerSeen
    <3>2. file.exists => h' = [h EXCEPT ![r] = x] /\ UNCHANGED spoilt
      BY <2>12 DEF ReadPlaceholder
    <3>3. ~file.exists => CompletionFails(r)
      BY <2>12 DEF ReadPlaceholder
    <3>4. Handling'
      BY <2>1, <2>3, <3>1, <3>2, <3>3, HandlerTyped DEF CompletionFails, Typed, Marking
    <3>. QED  BY <2>12, <3>4 DEF ReadPlaceholder, CompletionFails, Typed
  <2>13. CASE ConfirmPlaceholder(r)
    BY <2>13, <2>3, <2>4 DEF ConfirmPlaceholder, CompletionFails, Typed, Completing
  <2>14. CASE Commit(r)
    <3>1. \A keeps \in Retention : Upgraded(h[r].seen, keeps) \in FileRow
      <4>1. file \in FileRow
        BY DEF Typed
      <4>. QED  BY <4>1 DEF Upgraded, FileRow, Entities
    <3>. QED  BY <2>14, <2>3, <2>4, <3>1 DEF Commit, CompletionFails, Typed, Completing
  <2>15. CASE CommitFails(r)
    BY <2>15, <2>3 DEF CommitFails, CompletionFails, Typed
  <2>16. CASE UnlockCompleted(r)
    BY <2>16, <2>3, <2>4 DEF UnlockCompleted, Typed, Completing
  <2>17. CASE DeleteSession(r)
    BY <2>17, <2>4 DEF DeleteSession, Typed, Completing
  <2>18. CASE DropMutex(r)
    BY <2>18, <2>1, <2>3 DEF DropMutex, Typed
  <2>19. CASE SaveProgressFails(r)
    <3>1. Handling' /\ owner' = [owner EXCEPT ![h[r].mutex] = None] /\ faults' = faults + 1
      BY <2>19, <2>3 DEF SaveProgressFails
    <3>2. owner' \in [Mutexes -> Handlers \cup {None}]
      BY <3>1 DEF Typed
    <3>. QED  BY <2>19, <3>1, <3>2 DEF SaveProgressFails, Typed
  <2>. QED  BY <1>16, <2>5, <2>6, <2>7, <2>8, <2>9, <2>10, <2>11, <2>12, <2>13, <2>14, <2>15,
              <2>16, <2>17, <2>18, <2>19 DEF Chunk, Complete
<1>17. CASE UNCHANGED vars
  BY <1>17 DEF vars, Typed, Handling
<1>. QED  BY <1>1, <1>2, <1>3, <1>4, <1>5, <1>6, <1>7, <1>8, <1>9, <1>10, <1>11, <1>12, <1>13,
            <1>14, <1>15, <1>16, <1>17 DEF Next, Cancel

-----------------------------------------------------------------------------
(***************************************************************************)
(* What the invariant says beyond the types.                               *)
(***************************************************************************)
Rest == Started /\ Claimed /\ Held /\ OneMutex /\ AfterClaim /\ OneCompletion /\ Written

(***************************************************************************)
(* A handler that neither marks a chunk nor begins to complete the upload  *)
(* disturbs nothing; nor does one that gives up.                           *)
(***************************************************************************)
LEMMA AsideRest ==
  ASSUME UploadInv, NEW r \in Handlers, NEW x \in Handler, h' = [h EXCEPT ![r] = x],
         x.pc \notin {"mark"} \cup Marking, x.pc \in Completing => h[r].pc \in Completing,
         x.pc = "idle" \/ h[r].pc # "idle",
         spoilt \subseteq spoilt', file'.primary = "new" => disk = Chunks,
         UNCHANGED <<kv, disk, map, owner, creator, claims>>
  PROVE  Rest'
<1>. USE DEF UploadInv, Typed, Handling
<1>1. Started' /\ Claimed'
  BY DEF Started, Claimed, Completing
<1>2. Held' /\ OneMutex'
  BY DEF Held, OneMutex, Marking
<1>3. AfterClaim' /\ OneCompletion'
  BY DEF AfterClaim, OneCompletion, Marking
<1>4. Written'
  BY DEF Written, Marking, Completing
<1>. QED  BY <1>1, <1>2, <1>3, <1>4 DEF Rest

(***************************************************************************)
(* A handler that gives up disturbs nothing.                               *)
(***************************************************************************)
LEMMA FailRest ==
  ASSUME UploadInv, NEW r \in Handlers, Fail(r), spoilt \subseteq spoilt',
         UNCHANGED <<kv, file, disk, map, owner, creator, claims>>
  PROVE  Rest'
  BY Records, AsideRest DEF Fail, Marking, Completing, UploadInv, Written

(***************************************************************************)
(* A handler that moves on without marking a chunk disturbs nothing.       *)
(***************************************************************************)
LEMMA GoRest ==
  ASSUME UploadInv, NEW r \in Handlers, NEW pc \in {"held", "write"} \cup Completing, Go(r, pc),
         h[r].pc # "idle", pc \in Completing => h[r].pc \in Completing,
         spoilt \subseteq spoilt', file'.primary = "new" => disk = Chunks,
         UNCHANGED <<kv, disk, map, owner, creator, claims>>
  PROVE  Rest'
<1>. DEFINE x == [h[r] EXCEPT !.pc = pc]
<1>1. x \in Handler /\ x.pc = pc
  BY DEF UploadInv, Typed, Handling, Handler, Completing
<1>2. h' = [h EXCEPT ![r] = x]
  BY DEF Go
<1>3. pc # "idle" /\ pc \notin {"mark"} \cup Marking
  BY DEF Completing, Marking
<1>. QED  BY <1>1, <1>2, <1>3, AsideRest

(***************************************************************************)
(* Completing: the placeholder is read, and its lock confirmed.            *)
(***************************************************************************)
LEMMA ReadRest ==
  ASSUME UploadInv, NEW r \in Handlers, ReadPlaceholder(r)
  PROVE  Rest'
<1>. DEFINE x == [h[r] EXCEPT !.pc = "relock", !.seen = file]
<1>1. h[r] \in Handler /\ file \in FileRow
  BY DEF UploadInv, Typed, Handling
<1>2. x \in Handler /\ x.pc = "relock"
  <2>. HIDE DEF x
  <2>1. x = [h[r] EXCEPT !.pc = "relock", !.seen = file]
    BY DEF x
  <2>. QED  BY <1>1, <2>1, HandlerSeen
<1>3. /\ h[r].pc = "read"
      /\ file.primary = "new" => disk = Chunks
      /\ UNCHANGED <<kv, file, disk, map, owner, creator, claims>>
  BY DEF UploadInv, Written, ReadPlaceholder, At, counters, progress
<1>4. CASE file.exists
  <2>1. h' = [h EXCEPT ![r] = x] /\ UNCHANGED spoilt
    BY <1>4, SeesFile DEF ReadPlaceholder
  <2>. QED  BY <1>2, <1>3, <2>1, AsideRest DEF Marking, Completing
<1>5. CASE ~file.exists
  BY <1>3, <1>5, FailRest DEF ReadPlaceholder, CompletionFails, Spoil
<1>. QED  BY <1>4, <1>5

LEMMA ConfirmRest ==
  ASSUME UploadInv, NEW r \in Handlers, ConfirmPlaceholder(r)
  PROVE  Rest'
<1>1. /\ h[r].pc = "relock"
      /\ file.primary = "new" => disk = Chunks
      /\ UNCHANGED <<kv, file, disk, map, owner, creator, claims>>
  BY DEF UploadInv, Written, ConfirmPlaceholder, At, counters, progress
<1>2. CASE lock = "session"
  BY <1>1, <1>2, GoRest DEF ConfirmPlaceholder, Completing
<1>3. CASE lock # "session"
  BY <1>1, <1>3, FailRest DEF ConfirmPlaceholder, CompletionFails, Spoil
<1>. QED  BY <1>2, <1>3

(***************************************************************************)
(* The rest of the invariant, action by action.                            *)
(***************************************************************************)
LEMMA RestStep ==
  ASSUME UploadInv, [Next]_vars
  PROVE  Rest'
<1>. USE UploadAssumption, Records
     DEF UploadInv, Rest, Typed, Handling, Started, Claimed, Held, OneMutex, AfterClaim, OneCompletion,
         Written, UploadAssumption, At, CancelAt, CancelTo, counters, progress, Spoil, Fault, Marking,
         Completing, Handler, NoMutex, Mutexes
<1>1. CASE Prepare
  BY <1>1 DEF Prepare, Prepared, FileRow
<1>2. CASE PrepareFails
  BY <1>2 DEF PrepareFails
<1>3. CASE StoreSession
  BY <1>3 DEF StoreSession
<1>4. CASE CreateFails
  BY <1>4 DEF CreateFails
<1>5. CASE RemovePrepared
  BY <1>5 DEF RemovePrepared
<1>6. CASE ReadToCancel
  BY <1>6 DEF ReadToCancel
<1>7. CASE LockToCancel
  BY <1>7 DEF LockToCancel
<1>8. CASE CheckPlaceholder
  BY <1>8 DEF CheckPlaceholder
<1>9. CASE DeletePlaceholder
  BY <1>9 DEF DeletePlaceholder, FileRow
<1>10. CASE UnlockCancelled
  BY <1>10 DEF UnlockCancelled
<1>11. CASE ForgetCancelled
  BY <1>11 DEF ForgetCancelled
<1>12. CASE DropCancelled
  BY <1>12 DEF DropCancelled
<1>13. CASE Expire
  BY <1>13 DEF Expire
<1>14. CASE Restart
  BY <1>14 DEF Restart
<1>15. ASSUME NEW r \in Handlers, NEW c \in Chunks, GetSession(r, c)
      PROVE  Rest'
  BY <1>15 DEF GetSession, IdleHandler
<1>16. ASSUME NEW r \in Handlers, Chunk(r) \/ Complete(r)
      PROVE  Rest'
  <2>1. CASE ConfirmUploadSession(r)
    <3>1. CASE file.exists /\ lock = "session"
      BY <2>1, <3>1, GoRest DEF ConfirmUploadSession
    <3>2. CASE ~(file.exists /\ lock = "session")
      BY <2>1, <3>2, FailRest DEF ConfirmUploadSession
    <3>. QED  BY <3>1, <3>2
  <2>2. CASE ReleaseLock(r)
    BY <2>2 DEF ReleaseLock, Go
  <2>3. CASE Put(r)
    BY <2>3 DEF Put, Go
  <2>4. CASE PutFails(r)
    BY <2>4 DEF PutFails, Fail, IdleHandler
  <2>5. CASE FetchMutex(r)
    BY <2>5 DEF FetchMutex
  <2>6. CASE LoadProgress(r)
    <3>1. CASE kv = None
      BY <2>6, <3>1, FailRest DEF LoadProgress, Fail
    <3>2. CASE kv # None
      <4>1. /\ h' = [h EXCEPT ![r].pc = "save", ![r].got = kv]
            /\ owner' = [owner EXCEPT ![h[r].mutex] = r]
            /\ UNCHANGED <<kv, file, disk, map, creator, claims, spoilt>>
            /\ h[r].pc = "wait" /\ h[r].mutex \in Mutexes /\ owner[h[r].mutex] = None
        BY <2>6, <3>2 DEF LoadProgress
      <4>2. Held'
        BY <4>1
      <4>3. Started' /\ Claimed' /\ OneMutex' /\ OneCompletion'
        BY <2>6, <4>1
      <4>4. AfterClaim' /\ Written'
        BY <2>6, <3>2, <4>1
      <4>. QED  BY <4>2, <4>3, <4>4
    <3>. QED  BY <3>1, <3>2
  <2>7. CASE SaveProgress(r)
    <3>. DEFINE last == h[r].got # Chunks /\ h[r].got \cup {h[r].chunk} = Chunks
    <3>1. /\ kv' = h[r].got \cup {h[r].chunk}
          /\ owner' = [owner EXCEPT ![h[r].mutex] = None]
          /\ h[r].mutex \in Mutexes /\ owner[h[r].mutex] = r /\ h[r].got \cup {h[r].chunk} \subseteq disk
          /\ UNCHANGED <<file, disk, map, creator, spoilt>>
          /\ creator = "created" /\ h[r].pc = "save"
      BY <2>7 DEF SaveProgress
    <3>2. \A s \in Handlers \ {r} : h[s].pc = "save" => h[s].mutex # h[r].mutex
      BY <3>1
    <3>3. CASE last
      <4>1. /\ h' = [h EXCEPT ![r].pc = "read", ![r].got = {}, ![r].mutex = NoMutex]
            /\ claims' = claims + 1
        BY <2>7, <3>3 DEF SaveProgress
      <4>2. claims = 0 \/ "cancelled" \in spoilt
        BY <3>1, <3>3
      <4>3. ~("cancelled" \in spoilt) => \A s \in Handlers \ {r} : h[s].pc # "save"
        BY <3>1, <3>2, <4>2
      <4>4. Started' /\ Claimed' /\ OneMutex' /\ OneCompletion'
        BY <3>1, <4>1, <4>2
      <4>5. Held'
        BY <3>1, <3>2, <4>1
      <4>6. AfterClaim'
        BY <3>1, <3>3, <4>1, <4>3
      <4>7. Written'
        BY <3>1, <3>3, <4>1
      <4>. QED  BY <4>4, <4>5, <4>6, <4>7
    <3>4. CASE ~last
      <4>1. Fail(r) /\ UNCHANGED claims
        BY <2>7, <3>4 DEF SaveProgress
      <4>2. Started' /\ Claimed' /\ OneMutex' /\ OneCompletion'
        BY <3>1, <4>1 DEF Fail
      <4>3. Held'
        BY <3>1, <3>2, <4>1 DEF Fail
      <4>4. AfterClaim'
        BY <2>7, <3>1, <3>4, <4>1 DEF Fail
      <4>5. Written'
        BY <3>1, <4>1 DEF Fail
      <4>. QED  BY <4>2, <4>3, <4>4, <4>5
    <3>. QED  BY <3>3, <3>4
  <2>8. CASE ReadPlaceholder(r)
    BY <2>8, ReadRest DEF Rest
  <2>9. CASE ConfirmPlaceholder(r)
    BY <2>9, ConfirmRest DEF Rest
  <2>10. CASE Commit(r)
    <3>1. CASE file.exists /\ "new" \in h[r].seen.entities
      <4>1. file'.primary = "new"
        BY <2>10, <3>1, UpgradedPrimary DEF Commit
      <4>2. Go(r, "unlock") /\ UNCHANGED <<kv, disk, map, owner, creator, claims, spoilt>>
        BY <2>10, <3>1 DEF Commit
      <4>. QED  BY <2>10, <4>1, <4>2, GoRest DEF Commit
    <3>2. CASE ~(file.exists /\ "new" \in h[r].seen.entities)
      BY <2>10, <3>2, FailRest DEF Commit, CompletionFails
    <3>. QED  BY <3>1, <3>2
  <2>11. CASE CommitFails(r)
    BY <2>11 DEF CommitFails, CompletionFails, Fail, IdleHandler
  <2>12. CASE UnlockCompleted(r)
    <3>1. CASE lock = "session"
      BY <2>12, <3>1, GoRest DEF UnlockCompleted
    <3>2. CASE lock # "session"
      BY <2>12, <3>2, FailRest DEF UnlockCompleted
    <3>. QED  BY <3>1, <3>2
  <2>13. CASE DeleteSession(r)
    BY <2>13 DEF DeleteSession, Go
  <2>14. CASE DropMutex(r)
    BY <2>14 DEF DropMutex, Fail, IdleHandler
  <2>15. CASE SaveProgressFails(r)
    <3>1. /\ owner' = [owner EXCEPT ![h[r].mutex] = None]
          /\ h[r].mutex \in Mutexes /\ owner[h[r].mutex] = r /\ h[r].pc = "save"
          /\ UNCHANGED <<kv, file, disk, map, creator, claims, spoilt>>
          /\ Fail(r)
      BY <2>15 DEF SaveProgressFails
    <3>2. \A s \in Handlers \ {r} : h[s].pc = "save" => h[s].mutex # h[r].mutex
      BY <3>1
    <3>3. Held'
      BY <3>1, <3>2 DEF Fail
    <3>4. Started' /\ Claimed' /\ OneMutex' /\ OneCompletion'
      BY <3>1 DEF Fail
    <3>5. AfterClaim' /\ Written'
      BY <3>1 DEF Fail
    <3>. QED  BY <3>3, <3>4, <3>5
  <2>. QED  BY <1>16, <2>1, <2>2, <2>3, <2>4, <2>5, <2>6, <2>7, <2>8, <2>9, <2>10, <2>11, <2>12,
              <2>13, <2>14, <2>15 DEF Chunk, Complete
<1>17. CASE UNCHANGED vars
  BY <1>17 DEF vars
<1>. QED  BY <1>1, <1>2, <1>3, <1>4, <1>5, <1>6, <1>7, <1>8, <1>9, <1>10, <1>11, <1>12, <1>13,
            <1>14, <1>15, <1>16, <1>17 DEF Next, Cancel

-----------------------------------------------------------------------------
(***************************************************************************)
(* The invariant holds in every state.                                     *)
(***************************************************************************)
LEMMA UploadInvariant == Spec => []UploadInv
<1>1. UploadInv /\ [Next]_vars => UploadInv'
  BY TypedStep, RestStep DEF UploadInv, Rest
<1>. QED  BY InitInv, <1>1, PTL DEF Spec

(***************************************************************************)
(* Every variable of an upload keeps its type.                             *)
(***************************************************************************)
THEOREM UploadTypeCorrect == Spec => []TypeOK
<1>1. UploadInv => TypeOK
  BY DEF UploadInv, Typed, Handling, TypeOK, FileRow, Handler, Canceller, Marking, Completing
<1>. QED  BY UploadInvariant, <1>1, PTL

(***************************************************************************)
(* At most one request is told to complete an upload that is not cancelled *)
(* (MarkChunkUploaded), for any number of chunks, requests and restarts.   *)
(***************************************************************************)
THEOREM OneRequestCompletes == Spec => []OneCompletion
<1>1. UploadInv => OneCompletion
  BY DEF UploadInv
<1>. QED  BY UploadInvariant, <1>1, PTL

(***************************************************************************)
(* A file that was completed holds every chunk (processChunkUpload).       *)
(***************************************************************************)
THEOREM CompleteIsWhole == Spec => []WholeWhenComplete
<1>1. UploadInv => WholeWhenComplete
  BY DEF UploadInv, Written, WholeWhenComplete
<1>. QED  BY UploadInvariant, <1>1, PTL

-----------------------------------------------------------------------------
(***************************************************************************)
(* What was acknowledged.  Unless its time runs out, it is cancelled, the  *)
(* process restarts or a completion fails, an upload has in its session    *)
(* every chunk that was answered with success, and whoever saves the       *)
(* progress read the newest; once a request is told to complete it, that   *)
(* request is on its way until the new entity is the primary one.          *)
(***************************************************************************)
Committing == {"read", "relock", "commit"}

Undisturbed ==
  /\ ~expired
  /\ canceller.pc \in {"start", "confirm", "check"}
  /\ spoilt \cap {"completion", "restart"} = {}

Uncancelled == Undisturbed => "cancelled" \notin spoilt
Unanswered == creator # "created" => acked = {}
Counted ==
  Undisturbed /\ claims = 0 /\ creator = "created"
    => /\ kv # None /\ kv # Chunks /\ acked \subseteq kv
       /\ \A r \in Handlers : h[r].pc = "save" => h[r].got = kv
Pursued ==
  Undisturbed /\ claims > 0
    => file.primary = "new" \/ \E r \in Handlers : h[r].pc \in Committing

Acking == Uncancelled /\ Unanswered /\ Counted /\ Pursued

(***************************************************************************)
(* An upload that was disturbed stays so; a cancellation has disturbed it  *)
(* before it is over.                                                      *)
(***************************************************************************)
LEMMA DisturbedOnce ==
  ASSUME UploadInv, [Next]_vars, Undisturbed'
  PROVE  Undisturbed /\ (Uncancelled => Uncancelled')
<1>. USE DEF Undisturbed, Uncancelled, UploadInv, Typed, Canceller, CancelAt, CancelTo, counters, progress,
         Spoil, Fault
<1>1. CASE Prepare \/ PrepareFails \/ StoreSession \/ CreateFails \/ RemovePrepared
  <2>1. UNCHANGED <<expired, canceller>> /\ spoilt' \in {spoilt, spoilt \cup {"prepare"}}
    BY <1>1 DEF Prepare, PrepareFails, StoreSession, CreateFails, RemovePrepared
  <2>. QED  BY <2>1
<1>2. CASE \E r \in Handlers, c \in Chunks : GetSession(r, c)
  <2>1. UNCHANGED <<expired, canceller, spoilt>>
    BY <1>2 DEF GetSession
  <2>. QED  BY <2>1
<1>3. CASE \E r \in Handlers : Chunk(r)
  BY <1>3 DEF Chunk, ConfirmUploadSession, ReleaseLock, Put, PutFails, FetchMutex, LoadProgress,
     SaveProgress, SaveProgressFails
<1>4. CASE \E r \in Handlers : Complete(r)
  BY <1>4 DEF Complete, ReadPlaceholder, ConfirmPlaceholder, Commit, CommitFails, CompletionFails,
     UnlockCompleted, DeleteSession, DropMutex
<1>5. CASE Cancel
  <2>1. CASE ReadToCancel
    BY <2>1 DEF ReadToCancel
  <2>2. CASE LockToCancel
    BY <2>2 DEF LockToCancel
  <2>3. CASE CheckPlaceholder
    BY <2>3 DEF CheckPlaceholder
  <2>4. CASE DeletePlaceholder \/ UnlockCancelled \/ ForgetCancelled \/ DropCancelled
    BY <2>4 DEF DeletePlaceholder, UnlockCancelled, ForgetCancelled, DropCancelled
  <2>. QED  BY <1>5, <2>1, <2>2, <2>3, <2>4 DEF Cancel
<1>6. CASE Expire \/ Restart \/ UNCHANGED vars
  BY <1>6 DEF Expire, Restart, vars
<1>. QED  BY <1>1, <1>2, <1>3, <1>4, <1>5, <1>6 DEF Next

(***************************************************************************)
(* A step that neither answers, saves nor claims, and keeps those who are  *)
(* on their way, disturbs nothing.                                         *)
(***************************************************************************)
LEMMA AsideAcking ==
  ASSUME UploadInv, Acking, [Next]_vars,
         creator' = "created" <=> creator = "created",
         claims' = claims, creator # "created" => acked' = acked,
         Undisturbed' /\ claims = 0 /\ creator = "created" =>
           /\ UNCHANGED <<kv, acked>>
           /\ \A r \in Handlers : h'[r].pc = "save" => h[r].pc = "save" /\ h'[r].got = h[r].got,
         Undisturbed' /\ claims > 0 =>
           /\ file.primary = "new" => file'.primary = "new"
           /\ \A r \in Handlers :
                h[r].pc \in Committing => h'[r].pc \in Committing \/ file'.primary = "new"
  PROVE  Acking'
<1>1. Undisturbed' => Undisturbed /\ Uncancelled'
  BY DisturbedOnce DEF Undisturbed, Acking
<1>2. Uncancelled'
  BY <1>1 DEF Uncancelled
<1>3. Unanswered'
  BY DEF Acking, Unanswered
<1>4. Counted'
  BY <1>1 DEF Acking, Counted
<1>5. Pursued'
  BY <1>1 DEF Acking, Pursued
<1>. QED  BY <1>2, <1>3, <1>4, <1>5 DEF Acking

(***************************************************************************)
(* A step that disturbs the upload, or that comes before its session.      *)
(***************************************************************************)
LEMMA SpoiltAcking ==
  ASSUME Acking, creator' = creator, acked' = acked, ~Undisturbed'
  PROVE  Acking'
  BY DEF Acking, Uncancelled, Unanswered, Counted, Pursued

LEMMA EarlyAcking ==
  ASSUME UploadInv, Acking, [Next]_vars, creator # "created", creator' # "created",
         UNCHANGED <<acked, claims>>
  PROVE  Acking'
<1>1. claims = 0
  BY DEF UploadInv, Started
<1>. QED  BY <1>1, AsideAcking

(***************************************************************************)
(* A handler of a chunk before it loads the progress.                      *)
(***************************************************************************)
LEMMA HandlerAcking ==
  ASSUME UploadInv, Acking, [Next]_vars, NEW r \in Handlers, NEW x, h' = [h EXCEPT ![r] = x],
         x.pc # "save", h[r].pc \notin Committing \/ x.pc \in Committing \/ ~Undisturbed',
         UNCHANGED <<kv, file, creator, acked, claims>>
  PROVE  Acking'
<1>1. \A s \in Handlers : h'[s] = IF s = r THEN x ELSE h[s]
  BY DEF UploadInv, Typed, Handling
<1>2. \A s \in Handlers : h'[s].pc = "save" => h[s].pc = "save" /\ h'[s].got = h[s].got
  BY <1>1
<1>3. Undisturbed' => \A s \in Handlers : h[s].pc \in Committing => h'[s].pc \in Committing
  BY <1>1
<1>. QED  BY <1>2, <1>3, AsideAcking

(***************************************************************************)
(* A handler that moves on.                                                *)
(***************************************************************************)
LEMMA GoAcking ==
  ASSUME UploadInv, Acking, [Next]_vars, NEW r \in Handlers,
         NEW pc \in {"held", "write", "mark"} \cup Completing, Go(r, pc),
         h[r].pc \notin Committing \/ pc \in Committing,
         UNCHANGED <<kv, file, creator, acked, claims>>
  PROVE  Acking'
<1>1. h[r] \in Handler
  BY DEF UploadInv, Typed, Handling
<1>2. PICK x : x = [h[r] EXCEPT !.pc = pc]
  OBVIOUS
<1>3. x.pc = pc /\ h' = [h EXCEPT ![r] = x]
  BY <1>1, <1>2, HandlerTo DEF Go
<1>4. x.pc # "save"
  BY <1>3 DEF Completing
<1>. QED  BY <1>3, <1>4, HandlerAcking

(***************************************************************************)
(* A handler that gives up: none that was told to complete the upload,     *)
(* unless the completion failed.                                           *)
(***************************************************************************)
LEMMA FailAcking ==
  ASSUME UploadInv, Acking, [Next]_vars, NEW r \in Handlers, Fail(r),
         h[r].pc \notin Committing \/ ~Undisturbed',
         UNCHANGED <<kv, file, creator, acked, claims>>
  PROVE  Acking'
<1>1. IdleHandler.pc # "save"
  BY Records
<1>. QED  BY <1>1, HandlerAcking DEF Fail

(***************************************************************************)
(* The progress is loaded.                                                 *)
(***************************************************************************)
LEMMA LoadAcking ==
  ASSUME UploadInv, Acking, [Next]_vars, NEW r \in Handlers, LoadProgress(r)
  PROVE  Acking'
<1>1. /\ h[r].pc = "wait"
      /\ UNCHANGED <<kv, file, creator, canceller, claims, spoilt, expired>>
  BY DEF LoadProgress, At, counters
<1>2. creator = "created" /\ Undisturbed' = Undisturbed
  BY <1>1 DEF UploadInv, Started, Undisturbed
<1>3. \E x : h' = [h EXCEPT ![r] = x] /\ x.pc \notin Committing /\ (kv # None => acked' = acked)
             /\ (x.pc = "save" => x.got = kv)
  <2>1. CASE kv = None
    BY <2>1, Records DEF LoadProgress, Committing
  <2>2. CASE kv # None
    <3>1. PICK x : x = [h[r] EXCEPT !.pc = "save", !.got = kv]
      OBVIOUS
    <3>2. x.pc = "save" /\ x.got = kv
      BY <3>1 DEF UploadInv, Typed, Handling, Handler
    <3>3. h' = [h EXCEPT ![r] = x] /\ acked' = acked
      BY <2>2, <3>1 DEF LoadProgress
    <3>. QED  BY <3>2, <3>3 DEF Committing
  <2>. QED  BY <2>1, <2>2
<1>4. PICK x : h' = [h EXCEPT ![r] = x] /\ x.pc \notin Committing /\ (kv # None => acked' = acked)
               /\ (x.pc = "save" => x.got = kv)
  BY <1>3
<1>5. \A s \in Handlers : h'[s] = IF s = r THEN x ELSE h[s]
  BY <1>4 DEF UploadInv, Typed, Handling
<1>6. Uncancelled' /\ Unanswered'
  BY <1>1, <1>2 DEF Acking, Uncancelled, Unanswered
<1>7. Counted'
  BY <1>1, <1>2, <1>4, <1>5 DEF Acking, Counted
<1>8. Pursued'
  BY <1>1, <1>2, <1>5 DEF Acking, Pursued, Committing
<1>. QED  BY <1>6, <1>7, <1>8 DEF Acking

(***************************************************************************)
(* The progress is saved: what it was read from is still the newest,       *)
(* because nobody else is saving.                                          *)
(***************************************************************************)
LEMMA SaveAcking ==
  ASSUME UploadInv, Acking, [Next]_vars, NEW r \in Handlers, SaveProgress(r)
  PROVE  Acking'
<1>1. /\ h[r].pc = "save" /\ kv' = h[r].got \cup {h[r].chunk}
      /\ UNCHANGED <<file, creator, canceller, spoilt, expired>>
  BY DEF SaveProgress, At, counters
<1>2. /\ creator = "created" /\ Undisturbed' = Undisturbed
      /\ h[r] \in Handler /\ h[r].chunk \in Chunks /\ claims \in Nat
  BY <1>1 DEF UploadInv, Started, Undisturbed, Typed, Handling
<1>3. Uncancelled' /\ Unanswered'
  BY <1>1, <1>2 DEF Acking, Uncancelled, Unanswered
<1>4. kv' # None
  BY <1>1, <1>2, NoSessionAssumption DEF Handler
<1>5. ASSUME claims = 0, Undisturbed
      PROVE  /\ h[r].got = kv
             /\ \A s \in Handlers \ {r} : h[s].pc # "save"
  <2>1. "cancelled" \notin spoilt
    BY <1>5 DEF Acking, Uncancelled
  <2>2. \A s \in Handlers : h[s].pc = "save" => h[s].mutex = map /\ owner[map] = s
    BY <1>5, <2>1 DEF UploadInv, Held, OneMutex, Marking
  <2>. QED  BY <1>1, <1>2, <1>5, <2>2 DEF Acking, Counted
<1>6. CASE h[r].got # Chunks /\ h[r].got \cup {h[r].chunk} = Chunks
  <2>1. h' = [h EXCEPT ![r].pc = "read", ![r].got = {}, ![r].mutex = NoMutex] /\ claims' = claims + 1
    BY <1>6 DEF SaveProgress
  <2>2. h'[r].pc = "read"
    BY <2>1 DEF UploadInv, Typed, Handling, Handler
  <2>3. claims' # 0
    BY <1>2, <2>1
  <2>4. Counted'
    BY <2>3 DEF Counted
  <2>5. Pursued'
    BY <2>2 DEF Pursued, Committing
  <2>. QED  BY <1>3, <2>4, <2>5 DEF Acking
<1>7. CASE ~(h[r].got # Chunks /\ h[r].got \cup {h[r].chunk} = Chunks)
  <2>1. Fail(r) /\ acked' = acked \cup {h[r].chunk} /\ claims' = claims
    BY <1>7 DEF SaveProgress
  <2>2. h' = [h EXCEPT ![r] = IdleHandler] /\ IdleHandler.pc = "idle"
    BY <2>1, Records DEF Fail
  <2>3. \A s \in Handlers : h'[s] = IF s = r THEN IdleHandler ELSE h[s]
    BY <2>2 DEF UploadInv, Typed, Handling
  <2>4. Counted'
    <3>1. SUFFICES ASSUME Undisturbed, claims = 0
                   PROVE  /\ kv' # None /\ kv' # Chunks /\ acked' \subseteq kv'
                          /\ \A s \in Handlers : h'[s].pc = "save" => h'[s].got = kv'
      BY <1>2, <2>1 DEF Counted
    <3>2. h[r].got = kv /\ kv # Chunks /\ acked \subseteq kv
      BY <1>2, <1>5, <3>1 DEF Acking, Counted
    <3>3. kv' # Chunks /\ acked' \subseteq kv'
      BY <1>1, <1>7, <2>1, <3>2
    <3>4. \A s \in Handlers : h'[s].pc # "save"
      BY <1>5, <2>2, <2>3, <3>1
    <3>. QED  BY <1>4, <3>3, <3>4
  <2>5. Pursued'
    BY <1>1, <1>2, <2>1, <2>3 DEF Acking, Pursued, Committing
  <2>. QED  BY <1>3, <2>4, <2>5 DEF Acking
<1>. QED  BY <1>6, <1>7

(***************************************************************************)
(* The new entity becomes the primary one.                                 *)
(***************************************************************************)
LEMMA CommitAcking ==
  ASSUME UploadInv, Acking, [Next]_vars, NEW r \in Handlers, Commit(r)
  PROVE  Acking'
<1>1. UNCHANGED <<kv, creator, acked, claims>> /\ h[r].pc = "commit"
  BY DEF Commit, At, progress
<1>2. CASE file.exists /\ "new" \in h[r].seen.entities
  <2>1. file'.primary = "new" /\ Go(r, "unlock")
    BY <1>2, UpgradedPrimary DEF Commit, UploadInv
  <2>2. \A s \in Handlers : h'[s].pc = "save" => h[s].pc = "save" /\ h'[s].got = h[s].got
    BY <2>1 DEF Go, UploadInv, Typed, Handling, Handler
  <2>. QED  BY <1>1, <2>1, <2>2, AsideAcking
<1>3. CASE ~(file.exists /\ "new" \in h[r].seen.entities)
  BY <1>1, <1>3, FailAcking DEF Commit, CompletionFails, Spoil, Undisturbed
<1>. QED  BY <1>2, <1>3

(***************************************************************************)
(* What was acknowledged, action by action.                                *)
(***************************************************************************)
LEMMA AckingStep ==
  ASSUME UploadInv, Acking, [Next]_vars
  PROVE  Acking'
<1>. USE DEF At, CancelAt, CancelTo, counters, progress, Spoil, Fault
<1>1. CASE Prepare \/ PrepareFails \/ CreateFails \/ RemovePrepared
  BY <1>1, EarlyAcking DEF Prepare, PrepareFails, CreateFails, RemovePrepared
<1>2. CASE StoreSession
  <2>1. /\ creator = "prepared" /\ kv' = {}
        /\ UNCHANGED <<h, file, canceller, acked, claims, spoilt, expired>>
    BY <1>2 DEF StoreSession
  <2>2. acked = {} /\ claims = 0 /\ \A r \in Handlers : h[r].pc = "idle"
    BY <2>1 DEF UploadInv, Started, Acking, Unanswered
  <2>3. kv' # None /\ kv' # Chunks
    BY <2>1, UploadAssumption, NoSessionAssumption DEF UploadAssumption
  <2>. QED  BY <2>1, <2>2, <2>3 DEF Acking, Uncancelled, Unanswered, Counted, Pursued, Undisturbed
<1>3. CASE Expire
  BY <1>3, SpoiltAcking DEF Expire, Undisturbed
<1>4. CASE Restart
  BY <1>4, SpoiltAcking DEF Restart, Undisturbed
<1>5. CASE ReadToCancel \/ LockToCancel \/ CheckPlaceholder
  BY <1>5, AsideAcking DEF ReadToCancel, LockToCancel, CheckPlaceholder
<1>6. CASE DeletePlaceholder \/ UnlockCancelled \/ ForgetCancelled \/ DropCancelled
  <2>1. canceller'.pc \notin {"start", "confirm", "check"}
    BY <1>6 DEF DeletePlaceholder, UnlockCancelled, ForgetCancelled, DropCancelled, UploadInv, Typed, Canceller
  <2>2. UNCHANGED <<creator, acked>>
    BY <1>6 DEF DeletePlaceholder, UnlockCancelled, ForgetCancelled, DropCancelled
  <2>. QED  BY <2>1, <2>2, SpoiltAcking DEF Undisturbed
<1>7. ASSUME NEW r \in Handlers, NEW c \in Chunks, GetSession(r, c)
      PROVE  Acking'
  <2>1. PICK x : x = [IdleHandler EXCEPT !.pc = "confirm", !.chunk = c]
    OBVIOUS
  <2>2. x.pc = "confirm"
    BY <2>1, Records DEF Handler
  <2>3. h' = [h EXCEPT ![r] = x] /\ h[r].pc = "idle" /\ UNCHANGED <<kv, file, creator, acked, claims>>
    BY <1>7, <2>1 DEF GetSession
  <2>. QED  BY <2>2, <2>3, HandlerAcking DEF Committing
<1>8. ASSUME NEW r \in Handlers, Chunk(r)
      PROVE  Acking'
  <2>1. CASE ConfirmUploadSession(r)
    BY <2>1, FailAcking, GoAcking DEF ConfirmUploadSession, Committing
  <2>2. CASE ReleaseLock(r)
    BY <2>2, GoAcking DEF ReleaseLock, Committing
  <2>3. CASE Put(r)
    BY <2>3, GoAcking DEF Put, Committing
  <2>4. CASE PutFails(r)
    BY <2>4, FailAcking DEF PutFails, Committing
  <2>5. CASE FetchMutex(r)
    <3>1. PICK m \in Mutexes : h' = [h EXCEPT ![r].pc = "wait", ![r].mutex = m]
      BY <2>5 DEF FetchMutex
    <3>2. PICK x : x = [h[r] EXCEPT !.pc = "wait", !.mutex = m]
      OBVIOUS
    <3>3. x.pc = "wait" /\ h' = [h EXCEPT ![r] = x]
      BY <3>1, <3>2 DEF UploadInv, Typed, Handling, Handler
    <3>. QED  BY <2>5, <3>3, HandlerAcking DEF FetchMutex, Committing
  <2>6. CASE LoadProgress(r) \/ SaveProgress(r)
    BY <2>6, LoadAcking, SaveAcking
  <2>7. CASE SaveProgressFails(r)
    BY <2>7, FailAcking DEF SaveProgressFails, Committing
  <2>. QED  BY <1>8, <2>1, <2>2, <2>3, <2>4, <2>5, <2>6, <2>7 DEF Chunk
<1>9. ASSUME NEW r \in Handlers, Complete(r)
      PROVE  Acking'
  <2>1. CASE ReadPlaceholder(r)
    <3>1. UNCHANGED <<kv, file, creator, acked, claims>>
      BY <2>1 DEF ReadPlaceholder
    <3>2. CASE file.exists
      <4>1. PICK x : x = [h[r] EXCEPT !.pc = "relock", !.seen = file]
        OBVIOUS
      <4>2. x.pc = "relock"
        <5>1. h[r] \in Handler /\ file \in FileRow
          BY DEF UploadInv, Typed, Handling
        <5>. QED  BY ONLY <4>1, <5>1, HandlerSeen
      <4>3. h' = [h EXCEPT ![r] = x]
        BY <2>1, <3>2, <4>1, SeesFile
      <4>. QED  BY <3>1, <4>2, <4>3, HandlerAcking DEF Committing
    <3>3. CASE ~file.exists
      BY <2>1, <3>1, <3>3, FailAcking DEF ReadPlaceholder, CompletionFails, Undisturbed
    <3>. QED  BY <3>2, <3>3
  <2>2. CASE ConfirmPlaceholder(r)
    BY <2>2, FailAcking, GoAcking DEF ConfirmPlaceholder, CompletionFails, Undisturbed, Committing, Completing
  <2>3. CASE Commit(r)
    BY <2>3, CommitAcking
  <2>4. CASE CommitFails(r)
    BY <2>4, FailAcking DEF CommitFails, CompletionFails, Undisturbed
  <2>5. CASE UnlockCompleted(r)
    BY <2>5, FailAcking, GoAcking DEF UnlockCompleted, Committing, Completing
  <2>6. CASE DeleteSession(r) \/ DropMutex(r)
    <3>1. claims # 0 /\ creator = "created" /\ UNCHANGED <<file, creator, claims>>
      BY <2>6 DEF DeleteSession, DropMutex, UploadInv, Typed, Started, Claimed, Completing
    <3>2. \A s \in Handlers : h[s].pc \in Committing => h'[s] = h[s]
      BY <2>6 DEF DeleteSession, DropMutex, UploadInv, Typed, Handling, Committing, Go, Fail
    <3>. QED  BY <3>1, <3>2, AsideAcking
  <2>. QED  BY <1>9, <2>1, <2>2, <2>3, <2>4, <2>5, <2>6 DEF Complete
<1>10. CASE UNCHANGED vars
  BY <1>10, AsideAcking DEF vars
<1>. QED  BY <1>1, <1>2, <1>3, <1>4, <1>5, <1>6, <1>7, <1>8, <1>9, <1>10 DEF Next, Cancel

-----------------------------------------------------------------------------
(***************************************************************************)
(* Who has the lock of the path.  A confirmed lock is held by one handler, *)
(* the canceller's own by the canceller, and the session's lock is there   *)
(* only with a session, unless an Unlock was refused, the token was lost,  *)
(* or the time of the session ended while a handler held it.               *)
(***************************************************************************)
HeldByOne ==
  /\ \A r \in Handlers : h[r].pc = "held" => lock = "held"
  /\ \A r, s \in Handlers : h[r].pc = "held" /\ h[s].pc = "held" => r = s
  /\ lock = "held" => \E r \in Handlers : h[r].pc = "held"
Cancelling == lock = "cancel" => canceller.pc \in {"check", "delete", "unlock"}
LockedWithSession ==
  lock \in {"session", "held"} /\ spoilt \cap {"unlock", "prepare"} = {}
    => creator = "prepared" \/ kv # None \/ (lock = "held" /\ expired)
Unlocked ==
  /\ \A r \in Handlers : h[r].pc = "forget" => lock \in {"free", "cancel"}
  /\ canceller.pc = "forget" => lock = "free" \/ "unlock" \in spoilt
  /\ creator # "created" => canceller.pc = "start"

Locking == HeldByOne /\ Cancelling /\ LockedWithSession /\ Unlocked

(***************************************************************************)
(* A step of one handler that leaves the lock alone.                       *)
(***************************************************************************)
LEMMA AsideLocking ==
  ASSUME UploadInv, Locking, NEW r \in Handlers, NEW x, h' = [h EXCEPT ![r] = x],
         h[r].pc # "held", x.pc \notin {"held", "forget"},
         kv' = kv \/ kv' # None, spoilt \subseteq spoilt',
         UNCHANGED <<lock, creator, canceller, expired>>
  PROVE  Locking'
<1>1. \A s \in Handlers : h'[s] = IF s = r THEN x ELSE h[s]
  BY DEF UploadInv, Typed, Handling
<1>2. HeldByOne'
  BY <1>1 DEF Locking, HeldByOne
<1>3. Cancelling' /\ LockedWithSession'
  BY DEF Locking, Cancelling, LockedWithSession
<1>4. Unlocked'
  BY <1>1 DEF Locking, Unlocked
<1>. QED  BY <1>2, <1>3, <1>4 DEF Locking

(***************************************************************************)
(* A handler that gives up, or moves on, without the lock.                 *)
(***************************************************************************)
LEMMA FailLocking ==
  ASSUME UploadInv, Locking, NEW r \in Handlers, Fail(r), h[r].pc # "held",
         spoilt \subseteq spoilt', UNCHANGED <<kv, lock, creator, canceller, expired>>
  PROVE  Locking'
<1>1. IdleHandler.pc \notin {"held", "forget"}
  BY Records
<1>. QED  BY <1>1, AsideLocking DEF Fail

LEMMA GoLocking ==
  ASSUME UploadInv, Locking, NEW r \in Handlers, h[r].pc # "held",
         NEW pc \in {"write", "mark"} \cup (Completing \ {"forget"}), Go(r, pc),
         spoilt \subseteq spoilt', UNCHANGED <<kv, lock, creator, canceller, expired>>
  PROVE  Locking'
<1>1. h[r] \in Handler
  BY DEF UploadInv, Typed, Handling
<1>2. PICK x : x = [h[r] EXCEPT !.pc = pc]
  OBVIOUS
<1>3. x.pc = pc /\ h' = [h EXCEPT ![r] = x]
  BY <1>1, <1>2, HandlerTo DEF Go
<1>4. x.pc \notin {"held", "forget"}
  BY <1>3 DEF Completing
<1>. QED  BY <1>3, <1>4, AsideLocking

(***************************************************************************)
(* What the handlers' stages are after one of them moved.                  *)
(***************************************************************************)
LEMMA StageAfter ==
  ASSUME UploadInv, NEW r \in Handlers, NEW pc, Go(r, pc)
  PROVE  \A s \in Handlers : h'[s].pc = IF s = r THEN pc ELSE h[s].pc
<1>1. h \in [Handlers -> Handler] /\ h' = [h EXCEPT ![r].pc = pc]
  BY DEF UploadInv, Typed, Handling, Go
<1>2. ASSUME NEW s \in Handlers
      PROVE  h'[s].pc = IF s = r THEN pc ELSE h[s].pc
  BY <1>1 DEF Handler
<1>. QED  BY <1>2

(***************************************************************************)
(* The lock, action by action.                                             *)
(***************************************************************************)
LEMMA LockingStep ==
  ASSUME UploadInv, Locking, [Next]_vars
  PROVE  Locking'
<1>. USE DEF At, CancelAt, CancelTo, counters, progress, Spoil, Fault, Locking, HeldByOne, Cancelling,
         LockedWithSession, Unlocked
<1>1. CASE Prepare \/ PrepareFails \/ CreateFails \/ RemovePrepared \/ StoreSession
  <2>1. creator # "created" /\ \A r \in Handlers : h'[r].pc = "idle" /\ h[r].pc = "idle"
    BY <1>1 DEF Prepare, PrepareFails, CreateFails, RemovePrepared, StoreSession, UploadInv, Started
  <2>2. canceller.pc = "start" /\ UNCHANGED canceller
    BY <1>1, <2>1 DEF Prepare, PrepareFails, CreateFails, RemovePrepared, StoreSession
  <2>3. kv = None /\ {} # None
    BY <2>1, NoSessionAssumption DEF UploadInv, Started
  <2>4. CASE Prepare
    BY <2>4, <2>1, <2>2 DEF Prepare
  <2>5. CASE PrepareFails
    BY <2>5, <2>1, <2>2 DEF PrepareFails
  <2>6. CASE CreateFails \/ RemovePrepared
    BY <2>6, <2>1, <2>2, <2>3 DEF CreateFails, RemovePrepared
  <2>7. CASE StoreSession
    BY <2>7, <2>1, <2>2, <2>3 DEF StoreSession
  <2>. QED  BY <1>1, <2>4, <2>5, <2>6, <2>7
<1>2. CASE Expire
  <2>1. expired' /\ UNCHANGED <<h, creator, canceller, spoilt>>
    BY <1>2 DEF Expire
  <2>2. lock' = IF lock = "session" THEN "free" ELSE lock
    BY <1>2 DEF Expire
  <2>. QED  BY <2>1, <2>2
<1>3. CASE Restart
  <2>1. /\ lock' = "free" /\ creator' = creator /\ creator = "created"
        /\ canceller' = [canceller EXCEPT !.pc = "start"]
        /\ h' = [r \in Handlers |-> IdleHandler]
    BY <1>3 DEF Restart
  <2>2. canceller'.pc = "start"
    BY <2>1 DEF UploadInv, Typed, Canceller
  <2>. QED  BY <2>1, <2>2, Records
<1>4. CASE Cancel
  <2>1. canceller \in Canceller /\ lock \in {"free", "session", "held", "cancel"}
    BY DEF UploadInv, Typed
  <2>2. \A pc : CancelTo(pc) => canceller'.pc = pc
    BY <2>1 DEF Canceller
  <2>3. CASE ReadToCancel
    BY <2>1, <2>3 DEF ReadToCancel, Canceller
  <2>4. CASE LockToCancel
    <3>1. UNCHANGED <<kv, h, creator, spoilt, expired>> /\ canceller.pc = "confirm"
      BY <2>4 DEF LockToCancel
    <3>2. /\ canceller'.pc \in {"check", "start"}
          /\ \/ lock' = lock /\ lock # "cancel"
             \/ lock = "free" /\ lock' = "cancel" /\ canceller'.pc = "check"
      BY <2>1, <2>2, <2>4 DEF LockToCancel, Canceller
    <3>. QED  BY <3>1, <3>2
  <2>5. CASE CheckPlaceholder
    <3>1. UNCHANGED <<kv, h, creator, spoilt, expired>> /\ canceller.pc = "check"
      BY <2>5 DEF CheckPlaceholder
    <3>2. \/ canceller'.pc = "delete" /\ lock' = lock
          \/ canceller'.pc = "start" /\ lock' = IF lock = "cancel" THEN "free" ELSE lock
      BY <2>2, <2>5 DEF CheckPlaceholder, Relinquish
    <3>. QED  BY <3>1, <3>2
  <2>6. CASE DeletePlaceholder
    BY <2>2, <2>6 DEF DeletePlaceholder
  <2>7. CASE UnlockCancelled
    <3>1. UNCHANGED <<kv, h, creator, expired>> /\ canceller.pc = "unlock" /\ canceller'.pc = "forget"
      BY <2>2, <2>7 DEF UnlockCancelled
    <3>2. lock' = IF lock \in {"session", "cancel"} THEN "free" ELSE lock
      BY <2>7 DEF UnlockCancelled
    <3>3. spoilt' = IF lock = "held" THEN spoilt \cup {"unlock"} ELSE spoilt
      BY <2>7 DEF UnlockCancelled
    <3>. QED  BY <2>1, <3>1, <3>2, <3>3
  <2>8. CASE ForgetCancelled
    BY <2>2, <2>8 DEF ForgetCancelled
  <2>9. CASE DropCancelled
    BY <2>2, <2>9 DEF DropCancelled
  <2>. QED  BY <1>4, <2>3, <2>4, <2>5, <2>6, <2>7, <2>8, <2>9 DEF Cancel
<1>5. ASSUME NEW r \in Handlers, NEW c \in Chunks, GetSession(r, c)
      PROVE  Locking'
  <2>1. PICK x : x = [IdleHandler EXCEPT !.pc = "confirm", !.chunk = c]
    OBVIOUS
  <2>2. x.pc = "confirm"
    BY <2>1, Records DEF Handler
  <2>3. h' = [h EXCEPT ![r] = x] /\ h[r].pc = "idle" /\ UNCHANGED <<kv, lock, creator, canceller, spoilt, expired>>
    BY <1>5, <2>1 DEF GetSession
  <2>. QED  BY ONLY UploadInv, Locking, <2>2, <2>3, AsideLocking
<1>6. ASSUME NEW r \in Handlers, Chunk(r)
      PROVE  Locking'
  <2>1. CASE ConfirmUploadSession(r)
    <3>1. CASE file.exists /\ lock = "session"
      <4>1. /\ lock' = "held" /\ UNCHANGED <<kv, creator, canceller, spoilt, expired>>
            /\ \A s \in Handlers : h'[s].pc = IF s = r THEN "held" ELSE h[s].pc
        BY <2>1, <3>1, StageAfter DEF ConfirmUploadSession
      <4>2. HeldByOne'
        BY <3>1, <4>1
      <4>3. Cancelling' /\ LockedWithSession' /\ Unlocked'
        BY <3>1, <4>1
      <4>. QED  BY <4>2, <4>3
    <3>2. CASE ~(file.exists /\ lock = "session")
      BY ONLY UploadInv, Locking, <2>1, <3>2, FailLocking DEF ConfirmUploadSession, At, counters
    <3>. QED  BY <3>1, <3>2
  <2>2. CASE ReleaseLock(r)
    <3>1. /\ UNCHANGED <<kv, creator, canceller, spoilt, expired>> /\ h[r].pc = "held"
          /\ \A s \in Handlers : h'[s].pc = IF s = r THEN "write" ELSE h[s].pc
      BY <2>2, StageAfter DEF ReleaseLock
    <3>2. lock' = IF expired THEN "free" ELSE "session"
      BY <2>2 DEF ReleaseLock, Unheld
    <3>3. HeldByOne'
      BY <3>1, <3>2
    <3>4. Cancelling' /\ LockedWithSession' /\ Unlocked'
      BY <3>1, <3>2
    <3>. QED  BY <3>3, <3>4
  <2>3. CASE Put(r)
    BY ONLY UploadInv, Locking, <2>3, GoLocking DEF Put, At, counters
  <2>4. CASE PutFails(r)
    BY ONLY UploadInv, Locking, <2>4, FailLocking DEF PutFails, At, counters
  <2>5. CASE FetchMutex(r)
    <3>1. PICK m \in Mutexes : h' = [h EXCEPT ![r].pc = "wait", ![r].mutex = m]
      BY <2>5 DEF FetchMutex
    <3>2. PICK x : x = [h[r] EXCEPT !.pc = "wait", !.mutex = m]
      OBVIOUS
    <3>3. x.pc = "wait" /\ h' = [h EXCEPT ![r] = x]
      BY <3>1, <3>2 DEF UploadInv, Typed, Handling, Handler
    <3>. QED  BY ONLY UploadInv, Locking, <2>5, <3>3, AsideLocking DEF FetchMutex, At, counters
  <2>6. CASE LoadProgress(r)
    <3>1. CASE kv = None
      BY ONLY UploadInv, Locking, <2>6, <3>1, FailLocking DEF LoadProgress, Fail, At, counters
    <3>2. CASE kv # None
      <4>1. PICK x : x = [h[r] EXCEPT !.pc = "save", !.got = kv]
        OBVIOUS
      <4>2. x.pc = "save"
        BY <4>1 DEF UploadInv, Typed, Handling, Handler
      <4>3. h' = [h EXCEPT ![r] = x]
        BY <2>6, <3>2, <4>1 DEF LoadProgress
      <4>. QED  BY ONLY UploadInv, Locking, <2>6, <4>2, <4>3, AsideLocking DEF LoadProgress, At, counters
    <3>. QED  BY <3>1, <3>2
  <2>7. CASE SaveProgress(r)
    <3>1. /\ kv' = h[r].got \cup {h[r].chunk} /\ h[r].pc = "save"
          /\ UNCHANGED <<lock, creator, canceller, spoilt, expired>>
      BY <2>7 DEF SaveProgress
    <3>2. kv' # None
      <4>1. h[r].got \subseteq Chunks /\ h[r].chunk \in Chunks
        BY <3>1 DEF UploadInv, Typed, Handling, Handler
      <4>. QED  BY <3>1, <4>1, NoSessionAssumption
    <3>3. \E x : h' = [h EXCEPT ![r] = x] /\ x.pc \in {"read", "idle"}
      <4>1. CASE h[r].got # Chunks /\ h[r].got \cup {h[r].chunk} = Chunks
        <5>1. PICK x : x = [h[r] EXCEPT !.pc = "read", !.got = {}, !.mutex = NoMutex]
          OBVIOUS
        <5>2. x.pc = "read"
          BY <5>1 DEF UploadInv, Typed, Handling, Handler
        <5>3. h' = [h EXCEPT ![r] = x]
          BY <2>7, <4>1, <5>1 DEF SaveProgress
        <5>. QED  BY <5>2, <5>3
      <4>2. CASE ~(h[r].got # Chunks /\ h[r].got \cup {h[r].chunk} = Chunks)
        BY <2>7, <4>2, Records DEF SaveProgress, Fail
      <4>. QED  BY <4>1, <4>2
    <3>4. PICK x : h' = [h EXCEPT ![r] = x] /\ x.pc \in {"read", "idle"}
      BY <3>3
    <3>. QED  BY ONLY UploadInv, Locking, <3>1, <3>2, <3>4, AsideLocking
  <2>8. CASE SaveProgressFails(r)
    BY ONLY UploadInv, Locking, <2>8, FailLocking DEF SaveProgressFails, At
  <2>. QED  BY <1>6, <2>1, <2>2, <2>3, <2>4, <2>5, <2>6, <2>7, <2>8 DEF Chunk
<1>7. ASSUME NEW r \in Handlers, Complete(r)
      PROVE  Locking'
  <2>1. CASE ReadPlaceholder(r)
    <3>1. UNCHANGED <<kv, lock, creator, canceller, expired>> /\ spoilt \subseteq spoilt' /\ h[r].pc = "read"
      BY <2>1 DEF ReadPlaceholder, CompletionFails
    <3>2. CASE file.exists
      <4>1. PICK x : x = [h[r] EXCEPT !.pc = "relock", !.seen = file]
        OBVIOUS
      <4>2. x.pc = "relock"
        <5>1. h[r] \in Handler /\ file \in FileRow
          BY DEF UploadInv, Typed, Handling
        <5>. QED  BY ONLY <4>1, <5>1, HandlerSeen
      <4>3. h' = [h EXCEPT ![r] = x]
        BY <2>1, <3>2, <4>1, SeesFile
      <4>. QED  BY ONLY UploadInv, Locking, <3>1, <4>2, <4>3, AsideLocking
    <3>3. CASE ~file.exists
      <4>1. Fail(r)
        BY <2>1, <3>3 DEF ReadPlaceholder, CompletionFails
      <4>. QED  BY ONLY UploadInv, Locking, <3>1, <4>1, FailLocking
    <3>. QED  BY <3>2, <3>3
  <2>2. CASE ConfirmPlaceholder(r)
    BY ONLY UploadInv, Locking, <2>2, FailLocking, GoLocking
       DEF ConfirmPlaceholder, CompletionFails, Completing, At, counters, Spoil
  <2>3. CASE Commit(r)
    BY ONLY UploadInv, Locking, <2>3, FailLocking, GoLocking
       DEF Commit, CompletionFails, Completing, At, counters, Spoil
  <2>4. CASE CommitFails(r)
    BY ONLY UploadInv, Locking, <2>4, FailLocking DEF CommitFails, CompletionFails, At, Spoil
  <2>5. CASE UnlockCompleted(r)
    <3>1. CASE lock = "session"
      <4>1. /\ lock' = "free" /\ UNCHANGED <<kv, creator, canceller, spoilt, expired>>
            /\ \A s \in Handlers : h'[s].pc = IF s = r THEN "forget" ELSE h[s].pc
            /\ h[r].pc = "unlock"
        BY <2>5, <3>1, StageAfter DEF UnlockCompleted
      <4>2. HeldByOne'
        BY <3>1, <4>1
      <4>3. Cancelling' /\ LockedWithSession' /\ Unlocked'
        BY <3>1, <4>1
      <4>. QED  BY <4>2, <4>3
    <3>2. CASE lock # "session"
      BY ONLY UploadInv, Locking, <2>5, <3>2, FailLocking DEF UnlockCompleted, At, counters, Spoil
    <3>. QED  BY <3>1, <3>2
  <2>6. CASE DeleteSession(r)
    <3>1. /\ UNCHANGED <<lock, creator, canceller, spoilt, expired>> /\ h[r].pc = "forget"
          /\ \A s \in Handlers : h'[s].pc = IF s = r THEN "drop" ELSE h[s].pc
      BY <2>6, StageAfter DEF DeleteSession
    <3>2. HeldByOne'
      BY <3>1
    <3>3. Cancelling' /\ LockedWithSession' /\ Unlocked'
      BY <3>1
    <3>. QED  BY <3>2, <3>3
  <2>7. CASE DropMutex(r)
    BY ONLY UploadInv, Locking, <2>7, FailLocking DEF DropMutex, At, counters
  <2>. QED  BY <1>7, <2>1, <2>2, <2>3, <2>4, <2>5, <2>6, <2>7 DEF Complete
<1>8. CASE UNCHANGED vars
  BY <1>8 DEF vars
<1>. QED  BY <1>1, <1>2, <1>3, <1>4, <1>5, <1>6, <1>7, <1>8 DEF Next

(***************************************************************************)
(* Both invariants hold in every state.                                    *)
(***************************************************************************)
LEMMA AckingInvariant == Spec => [](UploadInv /\ Acking /\ Locking)
<1>1. Init => UploadInv /\ Acking /\ Locking
  <2>1. Init => Acking
    BY DEF Init, Acking, Uncancelled, Unanswered, Counted, Pursued
  <2>2. Init => Locking
    BY Records DEF Init, Locking, HeldByOne, Cancelling, LockedWithSession, Unlocked
  <2>. QED  BY <2>1, <2>2, InitInv
<1>2. UploadInv /\ Acking /\ Locking /\ [Next]_vars => (UploadInv /\ Acking /\ Locking)'
  BY TypedStep, RestStep, AckingStep, LockingStep DEF UploadInv, Rest
<1>. QED  BY <1>1, <1>2, PTL DEF Spec

(***************************************************************************)
(* An upload whose every chunk was answered with success is complete once  *)
(* nothing runs any more, unless it was disturbed: its time ran out, it    *)
(* was cancelled, the process restarted or the one completion failed.      *)
(***************************************************************************)
THEOREM AcknowledgedIsComplete == Spec => []AckedMeansComplete
<1>1. ASSUME UploadInv, Acking
      PROVE  AckedMeansComplete
  <2>1. SUFFICES ASSUME Quiet, acked = Chunks, Undisturbed
                 PROVE  file.primary = "new"
    BY DEF AckedMeansComplete, Undisturbed
  <2>2. creator = "created" /\ claims \in Nat
    BY <1>1, <2>1, UploadAssumption DEF UploadAssumption, UploadInv, Typed, Acking, Unanswered
  <2>3. claims # 0
    BY <1>1, <2>1, <2>2, UploadAssumption DEF UploadAssumption, UploadInv, Typed, Acking, Counted
  <2>4. \A r \in Handlers : h[r].pc \notin Committing
    BY <2>1 DEF Quiet, At, Committing
  <2>. QED  BY <1>1, <2>1, <2>2, <2>3, <2>4 DEF Acking, Pursued
<1>. QED  BY AckingInvariant, <1>1, PTL

(***************************************************************************)
(* A session that is over, or never came to be, leaves its path unlocked,  *)
(* unless an Unlock was refused or PrepareUpload lost the token.           *)
(***************************************************************************)
THEOREM SessionGoneIsUnlocked == Spec => []GoneMeansFree
<1>1. ASSUME UploadInv, Locking
      PROVE  GoneMeansFree
  BY <1>1 DEF UploadInv, Typed, GoneMeansFree, Quiet, At, Locking, HeldByOne, Cancelling, LockedWithSession
<1>. QED  BY AckingInvariant, <1>1, PTL
=============================================================================
