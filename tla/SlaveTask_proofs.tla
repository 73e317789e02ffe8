------------------------- MODULE SlaveTask_proofs -------------------------
(***************************************************************************)
(* Proofs about the tasks that a master hands to slaves, for any jobs, any *)
(* slaves, any number of retries, slave tasks and faults.                  *)
(***************************************************************************)
EXTENDS SlaveTask, SequenceTheorems, TLAPS

(***************************************************************************)
(* Records.                                                                *)
(***************************************************************************)
Job == [status : {"active", "completed", "error"},
        phase : {"start", "working", "uploading", "complete"},
        node : Nodes \cup {NoNode}, task : 0 .. MaxWork, zip : 0 .. MaxWork, tries : 0 .. MaxRetry]
Kinds == {"compress", "extract", "upload"}
Work == [job : Jobs, kind : Kinds, node : Nodes, id : Ids, zip : 0 .. MaxWork,
         status : {"queued", "processing", "completed", "error", "gone"}]

(***************************************************************************)
(* Types; what is made so far bounds every reference to a slave task.      *)
(***************************************************************************)
Recorded ==
  /\ row \in [Jobs -> Job]
  /\ work \in Seq(Work) /\ Len(work) <= MaxWork
  /\ nextId \in [Nodes -> 0 .. MaxWork]
  /\ registry \in [Nodes -> [Ids -> 0 .. MaxWork]]
Referring ==
  /\ \A j \in Jobs : row[j].zip <= Len(work)
  /\ \A n \in Nodes : nextId[n] <= Len(work) /\ \A i \in Ids : registry[n][i] <= Len(work)
  /\ \A w \in Works : work[w].zip <= Len(work)
Flags ==
  /\ pool \subseteq Nodes /\ displaced \subseteq Jobs
  /\ files \subseteq Works
  /\ placed \subseteq [job : Jobs, zip : Works]
  /\ faults \in 0 .. MaxFaults
Typed == Recorded /\ Referring /\ Flags

(***************************************************************************)
(* What a phase says of a job.                                             *)
(***************************************************************************)
Phased(s) ==
  /\ s.phase = "start" => s.task = 0
  /\ s.phase = "working" => s.task # 0
  /\ s.phase # "start" => s.node \in Nodes
  /\ s.status = "active" /\ s.phase \in {"start", "working"} => s.zip = 0
Shaped == \A j \in Jobs : Phased(row[j])

(***************************************************************************)
(* A slave knows a task by its id, and ids come in order.                  *)
(***************************************************************************)
Registered ==
  \A n \in Nodes, i \in Ids : registry[n][i] # 0 =>
     work[registry[n][i]].node = n /\ work[registry[n][i]].id = i /\ i <= nextId[n]

(***************************************************************************)
(* A job whose slave stayed what it was holds the id of a task of its own, *)
(* and what is done in its name is its own.                                *)
(***************************************************************************)
Awaits(j) == Active(j) /\ row[j].phase \in {"working", "uploading"} /\ row[j].task # 0
Current(j) == registry[row[j].node][row[j].task]
Done(j) == \E p \in placed : Own(j, p)
Mine(j) ==
  /\ Awaits(j) => /\ row[j].task <= nextId[row[j].node]
                  /\ Current(j) # 0 => work[Current(j)].job = j /\ work[Current(j)].kind = Kind(j)
  /\ row[j].phase = "uploading" => row[j].zip # 0 /\ work[row[j].zip].job = j
  /\ row[j].phase = "complete" => Done(j)
  /\ row[j].status = "completed" => Done(j)

(***************************************************************************)
(* A slave task that is completed has placed its result, and an upload is  *)
(* one of an archive of its job.                                           *)
(***************************************************************************)
Result(w) == [job |-> work[w].job, zip |-> IF work[w].kind = "upload" THEN work[w].zip ELSE w]
Delivered(w) ==
  /\ work[w].status = "completed" /\ work[w].kind # "compress" => Result(w) \in placed
  /\ work[w].kind = "upload" /\ work[w].job \notin displaced =>
       work[w].zip # 0 /\ work[work[w].zip].job = work[w].job

Rest == Shaped /\ Registered /\ (\A j \in Jobs \ displaced : Mine(j)) /\ (\A w \in Works : Delivered(w))
SlaveInv == Typed /\ Rest

-----------------------------------------------------------------------------
(***************************************************************************)
(* References.                                                             *)
(***************************************************************************)
LEMMA Numbers ==
  ASSUME Typed
  PROVE  /\ Len(work) \in 0 .. MaxWork /\ Works \subseteq Ids /\ 0 \notin Ids
         /\ Ids \cup {0} = 0 .. MaxWork
         /\ \A w \in Works : work[w] \in Work
         /\ \A n \in Nodes, i \in Ids : registry[n][i] # 0 => registry[n][i] \in Works
         /\ \A j \in Jobs : row[j].zip # 0 => row[j].zip \in Works
         /\ \A w \in Works : work[w].zip # 0 => work[w].zip \in Works
<1>. USE SlaveAssumption DEF SlaveAssumption, Typed, Recorded, Referring, Ids, Works
<1>1. Len(work) \in 0 .. MaxWork /\ \A w \in Works : work[w] \in Work
  BY LenProperties
<1>2. Works \subseteq Ids /\ 0 \notin Ids /\ Ids \cup {0} = 0 .. MaxWork
  BY <1>1
<1>3. \A x \in 0 .. MaxWork : x # 0 /\ x <= Len(work) => x \in Works
  BY <1>1
<1>4. \A n \in Nodes, i \in Ids : registry[n][i] # 0 => registry[n][i] \in Works
  BY <1>3
<1>5. \A j \in Jobs : row[j].zip # 0 => row[j].zip \in Works
  BY <1>3 DEF Job
<1>6. \A w \in Works : work[w].zip # 0 => work[w].zip \in Works
  <2>1. \A w \in Works : work[w].zip \in 0 .. MaxWork /\ work[w].zip <= Len(work)
    BY <1>1 DEF Work
  <2>. QED  BY <1>3, <2>1
<1>. QED  BY <1>1, <1>2, <1>4, <1>5, <1>6

(***************************************************************************)
(* The invariant holds before a slave is asked.                            *)
(***************************************************************************)
LEMMA InitInv == Init => SlaveInv
<1>. SUFFICES ASSUME Init PROVE SlaveInv
  OBVIOUS
<1>. USE SlaveAssumption DEF SlaveAssumption
<1>1. Len(work) = 0 /\ Works = {} /\ work \in Seq(Work)
  BY EmptySeq DEF Init, Works
<1>2. \A j \in Jobs : /\ row[j] \in Job /\ Phased(row[j]) /\ row[j].zip = 0
                      /\ row[j].phase = "start" /\ row[j].status = "active"
  BY DEF Init, Job, Phased
<1>3. row \in [Jobs -> Job]
  BY <1>2 DEF Init
<1>4. Typed
  <2>1. Recorded
    BY <1>1, <1>3 DEF Init, Recorded, Ids
  <2>2. Referring
    BY <1>1, <1>2 DEF Init, Referring, Ids
  <2>. QED  BY <1>1, <2>1, <2>2 DEF Init, Typed, Flags
<1>5. Registered
  BY DEF Init, Registered
<1>6. \A j \in Jobs : Mine(j)
  BY <1>2 DEF Mine, Awaits
<1>. QED  BY <1>1, <1>2, <1>4, <1>5, <1>6 DEF SlaveInv, Rest, Shaped

-----------------------------------------------------------------------------
(***************************************************************************)
(* What a slave does when it is asked for a task: it makes one ...         *)
(***************************************************************************)
Creation(j, n, kind) ==
  /\ work' \in Seq(Work) /\ Len(work') = Len(work) + 1 /\ Len(work') <= MaxWork
  /\ \A w \in Works : work'[w] = work[w]
  /\ work'[Len(work) + 1] = [job |-> j, kind |-> kind, node |-> n, id |-> NextID(n),
                             status |-> "queued", zip |-> row[j].zip]
  /\ NextID(n) \in Ids
  /\ nextId' \in [Nodes -> 0 .. MaxWork]
  /\ \A m \in Nodes : nextId'[m] = IF m = n THEN NextID(n) ELSE nextId[m]
  /\ registry' \in [Nodes -> [Ids -> 0 .. MaxWork]]
  /\ \A m \in Nodes, i \in Ids :
        registry'[m][i] = IF m = n /\ i = NextID(n) THEN Len(work) + 1 ELSE registry[m][i]

LEMMA CreateEffect ==
  ASSUME Typed, NEW j \in Jobs, NEW n \in Nodes, NEW kind \in Kinds, CreateTask(j, n, kind)
  PROVE  Creation(j, n, kind)
<1>. USE SlaveAssumption, Numbers DEF SlaveAssumption, Typed, Recorded
<1>1. nextId[n] \in Nat /\ nextId[n] <= Len(work) /\ Len(work) < MaxWork /\ Len(work) \in Nat
  BY DEF CreateTask, Referring
<1>2. NextID(n) \in Ids /\ NextID(n) \in 0 .. MaxWork
  BY <1>1 DEF NextID, Ids
<1>3. PICK x : x = [job |-> j, kind |-> kind, node |-> n, id |-> NextID(n),
                    status |-> "queued", zip |-> row[j].zip]
  OBVIOUS
<1>4. x \in Work
  <2>1. row[j].zip \in 0 .. MaxWork
    BY DEF Job
  <2>. QED  BY <1>2, <1>3, <2>1 DEF Work
<1>5. work' = Append(work, x)
  BY <1>3 DEF CreateTask
<1>6. /\ work' \in Seq(Work) /\ Len(work') = Len(work) + 1
      /\ \A w \in Works : work'[w] = work[w]
      /\ work'[Len(work) + 1] = x
  BY <1>4, <1>5, AppendProperties DEF Works
<1>7. /\ nextId' \in [Nodes -> 0 .. MaxWork]
      /\ \A m \in Nodes : nextId'[m] = IF m = n THEN NextID(n) ELSE nextId[m]
  BY <1>2 DEF CreateTask
<1>8. /\ registry' \in [Nodes -> [Ids -> 0 .. MaxWork]]
      /\ \A m \in Nodes, i \in Ids :
            registry'[m][i] = IF m = n /\ i = NextID(n) THEN Len(work) + 1 ELSE registry[m][i]
  <2>1. Len(work) + 1 \in 0 .. MaxWork
    BY <1>1
  <2>2. registry' = [registry EXCEPT ![n][NextID(n)] = Len(work) + 1]
    BY DEF CreateTask
  <2>. QED  BY <1>2, <2>1, <2>2
<1>. QED  BY <1>1, <1>2, <1>3, <1>6, <1>7, <1>8 DEF Creation

(***************************************************************************)
(* ... or tells of one, and may forget it.                                 *)
(***************************************************************************)
Telling(n, id, clear) ==
  /\ UNCHANGED <<nextId, work>>
  /\ registry' \in [Nodes -> [Ids -> 0 .. MaxWork]]
  /\ \A m \in Nodes, i \in Ids :
        registry'[m][i] = IF /\ m = n /\ i = id /\ registry[n][id] # 0
                             /\ Clears(work[registry[n][id]].status, clear)
                          THEN 0 ELSE registry[m][i]

LEMMA TellEffect ==
  ASSUME Typed, NEW n \in Nodes, NEW id \in Ids, NEW clear, GetTask(n, id, clear)
  PROVE  Telling(n, id, clear)
<1>. USE SlaveAssumption, Numbers DEF SlaveAssumption, Typed, Recorded
<1>1. 0 \in 0 .. MaxWork
  OBVIOUS
<1>2. CASE registry[n][id] # 0 /\ Clears(work[registry[n][id]].status, clear)
  <2>1. registry' = [registry EXCEPT ![n][id] = 0] /\ UNCHANGED <<nextId, work>>
    BY <1>2 DEF GetTask
  <2>. QED  BY <1>1, <1>2, <2>1 DEF Telling
<1>3. CASE ~(registry[n][id] # 0 /\ Clears(work[registry[n][id]].status, clear))
  <2>1. UNCHANGED <<registry, nextId, work>>
    BY <1>3 DEF GetTask
  <2>. QED  BY <1>3, <2>1 DEF Telling
<1>. QED  BY <1>2, <1>3

-----------------------------------------------------------------------------
(***************************************************************************)
(* Whatever happens, a slave task stays what it was made for.              *)
(***************************************************************************)
Onward ==
  /\ Len(work) <= Len(work') /\ work' \in Seq(Work)
  /\ \A w \in Works : /\ work'[w].job = work[w].job /\ work'[w].kind = work[w].kind
                      /\ work'[w].node = work[w].node /\ work'[w].id = work[w].id
                      /\ work'[w].zip = work[w].zip
  /\ placed \subseteq placed' /\ displaced \subseteq displaced'

LEMMA WorksGrow ==
  ASSUME Typed, Onward
  PROVE  Works \subseteq Works'
<1>1. Len(work) \in Nat /\ Len(work') \in Nat
  BY LenProperties DEF Onward, Typed, Recorded
<1>. QED  BY <1>1 DEF Onward, Works

LEMMA DoneStays ==
  ASSUME Typed, Onward, NEW j, Done(j)
  PROVE  Done(j)'
<1>1. PICK p \in placed : Own(j, p)
  BY DEF Done
<1>2. p.zip \in Works /\ p \in placed'
  BY DEF Typed, Flags, Onward
<1>3. Own(j, p)'
  BY <1>1, <1>2 DEF Own, Onward
<1>. QED  BY <1>2, <1>3 DEF Done

(***************************************************************************)
(* A job that stays where it is keeps what it has; its task may have been  *)
(* forgotten by the slave.                                                 *)
(***************************************************************************)
Stays(j) ==
  /\ row'[j].phase = row[j].phase /\ row'[j].task = row[j].task /\ row'[j].zip = row[j].zip
  /\ row[j].phase # "start" => row'[j].node = row[j].node
  /\ row'[j].status \in {row[j].status, "error"}
KeepsTask(j) ==
  Awaits(j) => row[j].task <= nextId'[row[j].node] /\ registry'[row[j].node][row[j].task] \in {Current(j), 0}

LEMMA MineStays ==
  ASSUME SlaveInv, Onward, NEW j \in Jobs, j \notin displaced', Stays(j), KeepsTask(j)
  PROVE  Mine(j)'
<1>1. Typed /\ Mine(j)
  BY DEF SlaveInv, Rest, Onward
<1>2. Awaits(j)' => /\ Awaits(j) /\ row'[j].node = row[j].node /\ row'[j].task = row[j].task
                    /\ Current(j)' = registry'[row[j].node][row[j].task]
  BY DEF Awaits, Active, Stays, Current
<1>3. Awaits(j) => row[j].node \in Nodes /\ row[j].task \in Ids
  BY <1>1, Numbers DEF SlaveInv, Rest, Shaped, Phased, Awaits, Typed, Recorded, Job
<1>4. Kind(j)' = Kind(j)
  BY DEF Kind, Stays
<1>5. Awaits(j)' => /\ row'[j].task <= nextId'[row'[j].node]
                    /\ Current(j)' # 0 => work'[Current(j)'].job = j /\ work'[Current(j)'].kind = Kind(j)'
  <2>. SUFFICES ASSUME Awaits(j)'
                PROVE  /\ row'[j].task <= nextId'[row'[j].node]
                       /\ Current(j)' # 0 =>
                             work'[Current(j)'].job = j /\ work'[Current(j)'].kind = Kind(j)'
    OBVIOUS
  <2>1. row'[j].task <= nextId'[row'[j].node] /\ Current(j)' \in {Current(j), 0}
    BY <1>2 DEF KeepsTask
  <2>2. ASSUME Current(j)' # 0
        PROVE  work'[Current(j)'].job = j /\ work'[Current(j)'].kind = Kind(j)'
    <3>1. Current(j)' = Current(j) /\ Current(j) \in Works
      BY <1>1, <1>2, <1>3, <2>1, <2>2, Numbers DEF Current
    <3>2. work[Current(j)].job = j /\ work[Current(j)].kind = Kind(j)
      BY <1>1, <1>2, <2>2, <3>1 DEF Mine
    <3>. QED  BY <1>4, <3>1, <3>2 DEF Onward
  <2>. QED  BY <2>1, <2>2
<1>6. row'[j].phase = "uploading" => row'[j].zip # 0 /\ work'[row'[j].zip].job = j
  <2>1. row[j].zip # 0 => row[j].zip \in Works
    BY <1>1, Numbers
  <2>. QED  BY <1>1, <2>1 DEF Stays, Mine, Onward
<1>7. row'[j].phase = "complete" \/ row'[j].status = "completed" => Done(j)'
  BY <1>1, DoneStays DEF Stays, Mine
<1>. QED  BY <1>5, <1>6, <1>7 DEF Mine

(***************************************************************************)
(* What an iteration of a job does to the slave it asks.                   *)
(***************************************************************************)
Asked(j, n) ==
  \/ Creation(j, n, Kind(j)) /\ Creates(j)
  \/ \E clear : Telling(n, row[j].task, clear)
  \/ UNCHANGED <<nextId, work, registry>>

LEMMA AskedOnward ==
  ASSUME Typed, NEW j \in Jobs, NEW n \in Nodes, Asked(j, n), placed \subseteq placed', displaced \subseteq displaced'
  PROVE  Onward
<1>1. Len(work) \in Nat /\ work \in Seq(Work)
  BY LenProperties DEF Typed, Recorded
<1>. QED  BY <1>1 DEF Asked, Creation, Telling, Onward

(***************************************************************************)
(* A slave that is asked by one job leaves the tasks of the others alone.  *)
(***************************************************************************)
LEMMA OthersKeep ==
  ASSUME SlaveInv, NEW j \in Jobs, NEW n \in Nodes, Asked(j, n), NEW k \in Jobs,
         k \notin displaced
  PROVE  KeepsTask(k)
<1>. SUFFICES ASSUME Awaits(k)
              PROVE  /\ row[k].task <= nextId'[row[k].node]
                     /\ registry'[row[k].node][row[k].task] \in {Current(k), 0}
  BY DEF KeepsTask
<1>1. Typed /\ Mine(k)
  BY DEF SlaveInv, Rest
<1>2. row[k].node \in Nodes /\ row[k].task \in Ids
  BY <1>1, Numbers DEF SlaveInv, Rest, Shaped, Phased, Awaits, Typed, Recorded, Job
<1>3. row[k].task <= nextId[row[k].node] /\ nextId[row[k].node] \in Nat /\ row[k].task \in Nat
  BY <1>1, <1>2, SlaveAssumption DEF SlaveAssumption, Mine, Typed, Recorded, Ids
<1>4. CASE Creation(j, n, Kind(j))
  <2>1. row[k].task <= nextId'[row[k].node]
    <3>1. nextId'[row[k].node] \in {nextId[row[k].node], nextId[row[k].node] + 1}
      BY <1>2, <1>4 DEF Creation, NextID
    <3>. QED  BY <1>3, <3>1
  <2>2. row[k].node = n => row[k].task # NextID(n)
    BY <1>3 DEF NextID
  <2>. QED  BY <1>2, <1>4, <2>1, <2>2 DEF Creation, Current
<1>5. ASSUME NEW clear, Telling(n, row[j].task, clear)
      PROVE  /\ row[k].task <= nextId'[row[k].node]
             /\ registry'[row[k].node][row[k].task] \in {Current(k), 0}
  BY <1>2, <1>3, <1>5 DEF Telling, Current
<1>6. CASE UNCHANGED <<nextId, work, registry>>
  BY <1>2, <1>3, <1>6 DEF Current
<1>. QED  BY <1>4, <1>5, <1>6 DEF Asked

(***************************************************************************)
(* An iteration: what is left to show is what the job itself has then.     *)
(***************************************************************************)
LEMMA JobStep ==
  ASSUME SlaveInv, NEW j \in Jobs, NEW n \in Nodes, Asked(j, n),
         NEW s \in Job, Phased(s), s.zip <= Len(work), row' = [row EXCEPT ![j] = s],
         files' \subseteq files, UNCHANGED <<pool, placed>>, displaced \subseteq displaced',
         displaced' \subseteq Jobs, faults' \in 0 .. MaxFaults,
         j \notin displaced' => Mine(j)'
  PROVE  SlaveInv'
<1>1. Typed /\ Rest /\ Onward
  BY AskedOnward DEF SlaveInv
<1>2. /\ Len(work) \in Nat /\ Len(work') \in Nat /\ Len(work) <= Len(work') /\ Len(work') <= MaxWork
      /\ Works \subseteq Works' /\ work \in Seq(Work) /\ work' \in Seq(Work)
      /\ \A w \in Works' : w \in Works \/ (w = Len(work) + 1 /\ Creation(j, n, Kind(j)) /\ Creates(j))
  <2>1. Len(work) \in Nat /\ Len(work') \in Nat /\ work \in Seq(Work) /\ work' \in Seq(Work)
    BY <1>1, LenProperties DEF Typed, Recorded, Onward
  <2>2. Len(work') <= MaxWork
    BY <1>1 DEF Asked, Creation, Telling, Typed, Recorded
  <2>3. Works \subseteq Works' /\ Len(work) <= Len(work')
    BY <1>1, WorksGrow DEF Onward
  <2>4. CASE Creation(j, n, Kind(j)) /\ Creates(j)
    <3>1. Len(work') = Len(work) + 1
      BY <2>4 DEF Creation
    <3>2. \A w \in Works' : w \in Works \/ w = Len(work) + 1
      BY <2>1, <3>1 DEF Works
    <3>. QED  BY <2>1, <2>2, <2>3, <2>4, <3>2
  <2>5. CASE UNCHANGED work
    BY <2>1, <2>2, <2>3, <2>5 DEF Works
  <2>. QED  BY <2>4, <2>5 DEF Asked, Telling
<1>3. \A k \in Jobs : row'[k] = IF k = j THEN s ELSE row[k]
  BY <1>1 DEF Typed, Recorded
<1>4. Typed'
  <2>1. /\ row' \in [Jobs -> Job] /\ nextId' \in [Nodes -> 0 .. MaxWork]
        /\ registry' \in [Nodes -> [Ids -> 0 .. MaxWork]]
    BY <1>1 DEF Typed, Recorded, Asked, Creation, Telling
  <2>2. Recorded'
    BY <1>2, <2>1 DEF Recorded
  <2>3. \A k \in Jobs : row'[k].zip <= Len(work')
    <3>1. \A k \in Jobs : row'[k].zip <= Len(work) /\ row'[k].zip \in Nat
      BY <1>1, <1>3, <2>1, SlaveAssumption DEF SlaveAssumption, Typed, Recorded, Referring, Job
    <3>. QED  BY <1>2, <3>1
  <2>4. \A m \in Nodes : nextId'[m] <= Len(work') /\ \A i \in Ids : registry'[m][i] <= Len(work')
    <3>1. \A m \in Nodes : /\ nextId[m] <= Len(work) /\ nextId[m] \in Nat
                           /\ \A i \in Ids : registry[m][i] <= Len(work) /\ registry[m][i] \in Nat
      BY <1>1, SlaveAssumption DEF SlaveAssumption, Typed, Recorded, Referring
    <3>2. CASE Creation(j, n, Kind(j))
      <4>1. \A m \in Nodes : /\ nextId'[m] \in {nextId[m], nextId[m] + 1}
                             /\ \A i \in Ids : registry'[m][i] \in {registry[m][i], Len(work) + 1}
        BY <3>2 DEF Creation, NextID
      <4>2. Len(work') = Len(work) + 1
        BY <3>2 DEF Creation
      <4>. QED  BY <1>2, <3>1, <4>1, <4>2
    <3>3. CASE ~Creation(j, n, Kind(j))
      <4>1. \A m \in Nodes : /\ nextId'[m] = nextId[m]
                             /\ \A i \in Ids : registry'[m][i] \in {registry[m][i], 0}
        BY <3>3 DEF Asked, Telling
      <4>. QED  BY <1>2, <3>1, <4>1
    <3>. QED  BY <3>2, <3>3
  <2>5. \A w \in Works' : work'[w].zip <= Len(work')
    <3>1. \A w \in Works : work[w].zip <= Len(work) /\ work[w].zip \in Nat
      BY <1>1, Numbers, SlaveAssumption DEF SlaveAssumption, Typed, Referring, Work
    <3>2. row[j].zip <= Len(work) /\ row[j].zip \in Nat
      BY <1>1, SlaveAssumption DEF SlaveAssumption, Typed, Recorded, Referring, Job
    <3>3. \A w \in Works : work'[w].zip = work[w].zip
      BY <1>1 DEF Onward
    <3>4. Creation(j, n, Kind(j)) => work'[Len(work) + 1].zip = row[j].zip
      BY DEF Creation
    <3>. QED  BY <1>2, <3>1, <3>2, <3>3, <3>4
  <2>6. Referring'
    BY <2>3, <2>4, <2>5 DEF Referring
  <2>7. Flags'
    BY <1>1, <1>2 DEF Typed, Flags
  <2>. QED  BY <2>2, <2>6, <2>7 DEF Typed
<1>5. Shaped'
  BY <1>1, <1>3 DEF Rest, Shaped
<1>6. Registered'
  <2>. SUFFICES ASSUME NEW m \in Nodes, NEW i \in Ids, registry'[m][i] # 0
                PROVE  /\ work'[registry'[m][i]].node = m /\ work'[registry'[m][i]].id = i
                       /\ i <= nextId'[m]
    BY DEF Registered
  <2>1. CASE registry'[m][i] = registry[m][i]
    <3>1. /\ work[registry[m][i]].node = m /\ work[registry[m][i]].id = i /\ i <= nextId[m]
          /\ registry[m][i] \in Works
      BY <1>1, <2>1, Numbers DEF Rest, Registered
    <3>2. nextId[m] \in Nat /\ i \in Nat /\ (nextId'[m] = nextId[m] \/ nextId'[m] = nextId[m] + 1)
      BY <1>1, SlaveAssumption
         DEF SlaveAssumption, Typed, Recorded, Ids, Asked, Creation, Telling, NextID
    <3>3. work'[registry[m][i]].node = m /\ work'[registry[m][i]].id = i
      BY <1>1, <3>1 DEF Onward
    <3>. QED  BY <2>1, <3>1, <3>2, <3>3
  <2>2. CASE registry'[m][i] # registry[m][i]
    <3>1. Creation(j, n, Kind(j)) /\ m = n /\ i = NextID(n)
      BY <2>2 DEF Asked, Creation, Telling
    <3>2. NextID(n) \in Nat
      BY <3>1, SlaveAssumption DEF SlaveAssumption, Creation, Ids
    <3>. QED  BY <3>1, <3>2 DEF Creation
  <2>. QED  BY <2>1, <2>2
<1>7. ASSUME NEW k \in Jobs \ displaced'
      PROVE  Mine(k)'
  <2>1. CASE k = j
    BY <1>7, <2>1
  <2>2. CASE k # j
    <3>1. Stays(k)
      BY <1>3, <2>2 DEF Stays
    <3>2. KeepsTask(k)
      BY <1>7, OthersKeep
    <3>. QED  BY <1>1, <1>7, <3>1, <3>2, MineStays
  <2>. QED  BY <2>1, <2>2
<1>8. ASSUME NEW w \in Works'
      PROVE  Delivered(w)'
  <2>1. CASE w \in Works
    <3>1. work'[w] = work[w] /\ Delivered(w)
      BY <1>1, <2>1 DEF Asked, Creation, Telling, Rest
    <3>2. work[w].zip # 0 => work[w].zip \in Works
      BY <1>1, <2>1, Numbers
    <3>. QED  BY <1>1, <3>1, <3>2 DEF Delivered, Result, Onward
  <2>2. CASE w = Len(work) + 1 /\ Creation(j, n, Kind(j)) /\ Creates(j)
    <3>1. /\ work'[w].status = "queued" /\ work'[w].job = j /\ work'[w].kind = Kind(j)
          /\ work'[w].zip = row[j].zip
      BY <2>2 DEF Creation
    <3>2. Kind(j) = "upload" => row[j].phase = "uploading"
      BY DEF Kind
    <3>3. Kind(j) = "upload" /\ j \notin displaced' =>
             row[j].zip # 0 /\ row[j].zip \in Works /\ work[row[j].zip].job = j
      BY <1>1, <3>2, Numbers DEF Rest, Mine, Onward
    <3>. QED  BY <1>1, <3>1, <3>3 DEF Delivered, Onward
  <2>. QED  BY <1>2, <2>1, <2>2
<1>. QED  BY <1>4, <1>5, <1>6, <1>7, <1>8 DEF SlaveInv, Rest

-----------------------------------------------------------------------------
(***************************************************************************)
(* The row of a job, at a node.                                            *)
(***************************************************************************)
LEMMA AtNode ==
  ASSUME Typed, NEW j \in Jobs, NEW n \in Nodes
  PROVE  /\ row[j] \in Job /\ At(j, n) \in Job /\ At(j, n).node = n
         /\ At(j, n).phase = row[j].phase /\ At(j, n).task = row[j].task /\ At(j, n).zip = row[j].zip
         /\ At(j, n).status = row[j].status /\ At(j, n).tries = row[j].tries
<1>1. row[j] \in Job
  BY DEF Typed, Recorded
<1>. QED  BY <1>1 DEF At, Job

LEMMA Nodesof ==
  ASSUME Typed, NEW j, NEW n \in Allocated(j)
  PROVE  n \in Nodes
BY DEF Allocated, Typed, Flags

(***************************************************************************)
(* What the queue writes of a job: its row, and it removes folders.        *)
(***************************************************************************)
Becomes(j, t) == row' = [row EXCEPT ![j] = t] /\ files' \subseteq files
Like(t, s) == t.phase = s.phase /\ t.task = s.task /\ t.zip = s.zip /\ t.node = s.node

LEMMA RetryEffect ==
  ASSUME NEW j, NEW s \in Job, Retry(j, s)
  PROVE  \E t \in Job : Becomes(j, t) /\ Like(t, s) /\ t.status \in {s.status, "error"}
<1>1. CASE s.tries < MaxRetry
  <2>1. PICK t : t = [s EXCEPT !.tries = @ + 1]
    OBVIOUS
  <2>2. s.tries + 1 \in 0 .. MaxRetry
    BY <1>1, SlaveAssumption DEF SlaveAssumption, Job
  <2>3. t \in Job /\ Like(t, s) /\ t.status = s.status
    BY <2>1, <2>2 DEF Job, Like
  <2>4. Becomes(j, t)
    BY <1>1, <2>1 DEF Retry, Keep, Becomes
  <2>. QED  BY <2>3, <2>4
<1>2. CASE ~(s.tries < MaxRetry)
  <2>1. PICK t : t = [s EXCEPT !.status = "error"]
    OBVIOUS
  <2>2. t \in Job /\ Like(t, s) /\ t.status = "error"
    BY <2>1 DEF Job, Like
  <2>3. Becomes(j, t)
    BY <1>2, <2>1 DEF Retry, End, Becomes
  <2>. QED  BY <2>2, <2>3
<1>. QED  BY <1>1, <1>2

LEMMA EndEffect ==
  ASSUME NEW j, NEW s \in Job, NEW status \in {"completed", "error"}, End(j, s, status)
  PROVE  \E t \in Job : Becomes(j, t) /\ Like(t, s) /\ t.status = status
<1>1. PICK t : t = [s EXCEPT !.status = status]
  OBVIOUS
<1>2. t \in Job /\ Like(t, s) /\ t.status = status
  BY <1>1 DEF Job, Like
<1>3. Becomes(j, t)
  BY <1>1 DEF End, Becomes
<1>. QED  BY <1>2, <1>3

(***************************************************************************)
(* An iteration that brings the job nowhere.                               *)
(***************************************************************************)
LEMMA StayStep ==
  ASSUME SlaveInv, NEW j \in Jobs, NEW n \in Nodes, Asked(j, n),
         NEW t \in Job, Becomes(j, t), t.phase = row[j].phase, t.task = row[j].task,
         t.zip = row[j].zip, t.node \in {row[j].node, n}, t.status \in {row[j].status, "error"},
         UNCHANGED <<pool, placed>>, displaced \subseteq displaced', displaced' \subseteq Jobs,
         faults' \in 0 .. MaxFaults,
         j \notin displaced' /\ row[j].phase # "start" => t.node = row[j].node
  PROVE  SlaveInv'
<1>1. Typed /\ Rest /\ row[j] \in Job /\ Phased(row[j])
  BY DEF SlaveInv, Typed, Recorded, Rest, Shaped
<1>2. Phased(t)
  BY <1>1 DEF Phased
<1>3. t.zip <= Len(work)
  BY <1>1 DEF Typed, Referring
<1>4. ASSUME j \notin displaced'
      PROVE  Mine(j)'
  <2>1. row'[j] = t
    BY <1>1 DEF Becomes, Typed, Recorded
  <2>2. Stays(j)
    BY <1>4, <2>1 DEF Stays
  <2>3. KeepsTask(j)
    BY <1>4, OthersKeep
  <2>4. Onward
    BY <1>1, AskedOnward
  <2>. QED  BY <1>4, <2>2, <2>3, <2>4, MineStays
<1>. QED  BY <1>2, <1>3, <1>4, JobStep DEF Becomes

(***************************************************************************)
(* The slave has made the task.                                            *)
(***************************************************************************)
LEMMA CreatedStep ==
  ASSUME SlaveInv, NEW j \in Jobs, NEW n \in Nodes, Creates(j), Active(j), Creation(j, n, Kind(j)),
         Keep(j, Created(j, n)), Moves(j, n), UNCHANGED <<pool, placed, faults>>
  PROVE  SlaveInv'
<1>1. Typed /\ Rest /\ row[j] \in Job /\ Phased(row[j])
  BY DEF SlaveInv, Typed, Recorded, Rest, Shaped
<1>2. PICK t : t = Created(j, n)
  OBVIOUS
<1>3. NextID(n) \in Ids /\ NextID(n) \in 0 .. MaxWork /\ NextID(n) # 0 /\ NextID(n) \in Nat
  BY SlaveAssumption DEF SlaveAssumption, Creation, Ids
<1>4. /\ t \in Job /\ t.status = "active" /\ t.node = n /\ t.task = NextID(n) /\ t.zip = row[j].zip
      /\ t.phase = IF row[j].phase = "start" THEN "working" ELSE row[j].phase
  <2>1. PICK r : r = At(j, n)
    OBVIOUS
  <2>2. PICK phase : phase = IF row[j].phase = "start" THEN "working" ELSE row[j].phase
    OBVIOUS
  <2>3. r \in Job /\ r.node = n /\ r.phase = row[j].phase /\ r.zip = row[j].zip /\ r.status = "active"
    BY <1>1, <2>1, AtNode DEF Active
  <2>4. phase \in {"start", "working", "uploading", "complete"}
    BY <1>1, <2>2 DEF Job
  <2>5. t = [r EXCEPT !.phase = phase, !.task = NextID(n)]
    BY <1>2, <2>1, <2>2, <2>3 DEF Created
  <2>. QED  BY <1>3, <2>2, <2>3, <2>4, <2>5 DEF Job
<1>5. Phased(t)
  BY <1>1, <1>3, <1>4 DEF Phased, Creates, Active
<1>6. t.zip <= Len(work)
  BY <1>1, <1>4 DEF Typed, Referring
<1>7. displaced \subseteq displaced' /\ displaced' \subseteq Jobs
  BY <1>1 DEF Moves, Typed, Flags
<1>8. row' = [row EXCEPT ![j] = t] /\ files' \subseteq files
  BY <1>2 DEF Keep
<1>9. Asked(j, n)
  BY DEF Asked
<1>10. ASSUME j \notin displaced'
       PROVE  Mine(j)'
  <2>1. row'[j] = t /\ Mine(j) /\ Onward
    BY <1>1, <1>7, <1>8, <1>9, <1>10, AskedOnward DEF Typed, Recorded, Rest
  <2>2. Current(j)' = Len(work) + 1 /\ nextId'[n] = NextID(n)
    BY <1>3, <1>4, <2>1 DEF Current, Creation
  <2>3. work'[Len(work) + 1].job = j /\ work'[Len(work) + 1].kind = Kind(j)
    BY DEF Creation
  <2>4. Kind(j)' = Kind(j)
    BY <1>4, <2>1 DEF Kind, Creates
  <2>5. row'[j].phase = "uploading" => row'[j].zip # 0 /\ work'[row'[j].zip].job = j
    <3>1. row[j].zip # 0 => row[j].zip \in Works
      BY <1>1, Numbers
    <3>. QED  BY <1>4, <2>1, <3>1 DEF Mine, Onward, Creates
  <2>6. row'[j].phase # "complete" /\ row'[j].status # "completed"
    BY <1>4, <2>1 DEF Creates
  <2>. QED  BY <1>3, <1>4, <2>1, <2>2, <2>3, <2>4, <2>5, <2>6 DEF Mine
<1>. QED  BY <1>1, <1>4, <1>5, <1>6, <1>7, <1>8, <1>9, <1>10, JobStep DEF Typed, Flags

(***************************************************************************)
(* The slave has told of the task: what a job is told is about its own.    *)
(***************************************************************************)
LEMMA ToldOwn ==
  ASSUME SlaveInv, NEW j \in Jobs, j \notin displaced, Awaits(j), Current(j) # 0
  PROVE  /\ Current(j) \in Works /\ work[Current(j)].job = j /\ work[Current(j)].kind = Kind(j)
         /\ work[Current(j)].status = "completed" /\ Kind(j) # "compress" => Done(j)
<1>1. Typed /\ Rest /\ Mine(j)
  BY DEF SlaveInv, Rest
<1>2. Current(j) \in Works
  BY <1>1, Numbers DEF Rest, Shaped, Phased, Awaits, Typed, Recorded, Job, Current
<1>3. PICK w : w = Current(j)
  OBVIOUS
<1>4. work[w].job = j /\ work[w].kind = Kind(j) /\ Delivered(w) /\ w \in Works
  BY <1>1, <1>2, <1>3 DEF Mine, Rest
<1>5. ASSUME work[w].status = "completed", Kind(j) # "compress"
      PROVE  Done(j)
  <2>1. Result(w) \in placed
    BY <1>4, <1>5 DEF Delivered
  <2>2. Own(j, Result(w))
    BY <1>4 DEF Own, Result, Delivered
  <2>. QED  BY <2>1, <2>2 DEF Done
<1>. QED  BY <1>3, <1>4, <1>5

LEMMA ToldEffect ==
  ASSUME SlaveInv, NEW j \in Jobs, NEW n \in Nodes, NEW w \in Works
  PROVE  /\ Told(j, n, w) \in Job /\ Told(j, n, w).node = n
         /\ Told(j, n, w).phase = row[j].phase /\ Told(j, n, w).task = row[j].task
         /\ Told(j, n, w).status = row[j].status /\ Told(j, n, w).tries = row[j].tries
         /\ Told(j, n, w).zip = IF Compressing(j) THEN Archive(w) ELSE row[j].zip
         /\ Archive(w) \in {0, w} /\ Told(j, n, w).zip \in {0} \cup Works
<1>1. Typed
  BY DEF SlaveInv
<1>2. PICK r : r = At(j, n)
  OBVIOUS
<1>3. /\ r \in Job /\ r.node = n /\ r.phase = row[j].phase /\ r.task = row[j].task
      /\ r.zip = row[j].zip /\ r.status = row[j].status /\ r.tries = row[j].tries
  BY <1>1, <1>2, AtNode
<1>4. PICK zip : zip = IF Compressing(j) THEN Archive(w) ELSE row[j].zip
  OBVIOUS
<1>5. Archive(w) \in {0, w} /\ zip \in {0} \cup Works
  BY <1>1, <1>4, Numbers DEF Archive
<1>6. zip \in 0 .. MaxWork
  BY <1>1, <1>5, Numbers
<1>7. Told(j, n, w) = [r EXCEPT !.zip = zip]
  BY <1>2, <1>3, <1>4 DEF Told
<1>8. PICK t : t = [r EXCEPT !.zip = zip]
  OBVIOUS
<1>9. /\ t \in Job /\ t.node = n /\ t.phase = row[j].phase /\ t.task = row[j].task
      /\ t.status = row[j].status /\ t.zip = zip /\ t.tries = row[j].tries
  BY <1>3, <1>6, <1>8 DEF Job
<1>. QED  BY <1>4, <1>5, <1>7, <1>8, <1>9

(***************************************************************************)
(* The task is completed: the job goes on to its next phase, or ends.      *)
(***************************************************************************)
LEMMA ProceedStep ==
  ASSUME SlaveInv, NEW j \in Jobs, NEW n \in Nodes, Awaits(j),
         NEW w \in Works, w = registry[n][row[j].task], work[w].status = "completed",
         Telling(n, row[j].task, ClearsOnComplete(j)), Proceeds(j, Told(j, n, w)), Moves(j, n),
         UNCHANGED <<pool, placed, faults>>
  PROVE  SlaveInv'
<1>1. Typed /\ Rest /\ row[j] \in Job /\ Phased(row[j])
  BY DEF SlaveInv, Typed, Recorded, Rest, Shaped
<1>2. displaced \subseteq displaced' /\ displaced' \subseteq Jobs
  BY <1>1 DEF Moves, Typed, Flags
<1>3. Asked(j, n) /\ faults' \in 0 .. MaxFaults
  BY <1>1 DEF Asked, Typed, Flags
<1>4. j \notin displaced' => /\ j \notin displaced /\ n = row[j].node /\ w = Current(j)
                             /\ work[w].job = j /\ work[w].kind = Kind(j)
                             /\ Kind(j) # "compress" => Done(j)
  <2>. SUFFICES ASSUME j \notin displaced'
                PROVE  /\ j \notin displaced /\ n = row[j].node /\ w = Current(j)
                       /\ work[w].job = j /\ work[w].kind = Kind(j)
                       /\ Kind(j) # "compress" => Done(j)
    OBVIOUS
  <2>1. j \notin displaced /\ n = row[j].node
    BY <1>1 DEF Moves, Awaits
  <2>2. w = Current(j) /\ w # 0
    BY <1>1, <2>1, Numbers DEF Current
  <2>. QED  BY <2>1, <2>2, ToldOwn
<1>5. PICK r : r = Told(j, n, w)
  OBVIOUS
<1>6. /\ r \in Job /\ r.node = n /\ r.phase = row[j].phase /\ r.task = row[j].task
      /\ r.status = "active" /\ r.zip \in {0} \cup Works
      /\ r.zip = IF Compressing(j) THEN Archive(w) ELSE row[j].zip
  BY <1>5, ToldEffect DEF Awaits, Active
<1>7. r.zip <= Len(work) /\ (row[j].phase = "working" \/ row[j].phase = "uploading")
  BY <1>1, <1>6, Numbers DEF Works, Awaits
<1>8. Onward
  BY <1>1, <1>2, <1>3, AskedOnward
<1>9. CASE row[j].phase = "uploading"
  <2>1. PICK t : t = [r EXCEPT !.phase = "complete"]
    OBVIOUS
  <2>2. /\ t \in Job /\ t.phase = "complete" /\ t.status = "active" /\ t.zip = r.zip /\ t.node = n
    BY <1>6, <2>1 DEF Job
  <2>3. row' = [row EXCEPT ![j] = t] /\ files' \subseteq files
    BY <1>5, <1>6, <1>9, <2>1 DEF Proceeds, Keep
  <2>4. Phased(t)
    BY <2>2 DEF Phased
  <2>5. ASSUME j \notin displaced' PROVE Mine(j)'
    <3>1. row'[j] = t
      BY <1>1, <2>3 DEF Typed, Recorded
    <3>2. Done(j)'
      BY <1>1, <1>4, <1>8, <1>9, <2>5, DoneStays DEF Kind
    <3>. QED  BY <2>2, <3>1, <3>2 DEF Mine, Awaits
  <2>. QED  BY <1>2, <1>3, <1>7, <2>2, <2>3, <2>4, <2>5, JobStep
<1>10. CASE row[j].phase = "working" /\ j \in Archives
  <2>1. PICK t : t = [r EXCEPT !.phase = "uploading", !.task = 0]
    OBVIOUS
  <2>2. /\ t \in Job /\ t.phase = "uploading" /\ t.status = "active" /\ t.zip = r.zip /\ t.node = n
        /\ t.task = 0
    <3>1. 0 \in 0 .. MaxWork
      BY SlaveAssumption DEF SlaveAssumption
    <3>. QED  BY <1>6, <2>1, <3>1 DEF Job
  <2>3. row' = [row EXCEPT ![j] = t] /\ files' \subseteq files
    BY <1>5, <1>6, <1>10, <2>1 DEF Proceeds, Keep
  <2>4. Phased(t)
    BY <2>2 DEF Phased
  <2>5. ASSUME j \notin displaced' PROVE Mine(j)'
    <3>1. row'[j] = t
      BY <1>1, <2>3 DEF Typed, Recorded
    <3>2. r.zip = w /\ work'[w].job = j /\ w # 0
      BY <1>1, <1>4, <1>6, <1>8, <1>10, <2>5, Numbers DEF Kind, Archive, Compressing, Onward
    <3>. QED  BY <2>2, <3>1, <3>2 DEF Mine, Awaits
  <2>. QED  BY <1>2, <1>3, <1>7, <2>2, <2>3, <2>4, <2>5, JobStep
<1>11. CASE row[j].phase = "working" /\ j \notin Archives
  <2>1. End(j, r, "completed")
    BY <1>5, <1>6, <1>11 DEF Proceeds
  <2>2. PICK t \in Job : Becomes(j, t) /\ Like(t, r) /\ t.status = "completed"
    BY <1>6, <2>1, EndEffect
  <2>3. row' = [row EXCEPT ![j] = t] /\ files' \subseteq files
    BY <2>2 DEF Becomes
  <2>4. Phased(t)
    BY <1>1, <1>6, <1>11, <2>2 DEF Phased, Like
  <2>5. ASSUME j \notin displaced' PROVE Mine(j)'
    <3>1. row'[j] = t
      BY <1>1, <2>3 DEF Typed, Recorded
    <3>2. Done(j)'
      BY <1>1, <1>4, <1>8, <1>11, <2>5, DoneStays DEF Kind
    <3>. QED  BY <1>6, <1>11, <2>2, <3>1, <3>2 DEF Mine, Awaits, Active, Like
  <2>. QED  BY <1>2, <1>3, <1>7, <2>2, <2>3, <2>4, <2>5, JobStep DEF Like
<1>. QED  BY <1>7, <1>9, <1>10, <1>11

(***************************************************************************)
(* The iteration of a job whose slave answers.                             *)
(***************************************************************************)
LEMMA RequestStep ==
  ASSUME SlaveInv, NEW j \in Jobs, Request(j)
  PROVE  SlaveInv'
<1>1. PICK n \in Nodes : /\ Asking(j, n) /\ Asks(j, n) /\ Uses(j, n)
                         /\ UNCHANGED <<pool, placed>> /\ NoFault
  BY DEF Request
<1>2. Typed /\ Rest /\ row[j] \in Job /\ Phased(row[j]) /\ Active(j) /\ row[j].phase # "complete"
      /\ Moves(j, n) /\ UNCHANGED faults
  BY <1>1 DEF SlaveInv, Typed, Recorded, Rest, Shaped, Asking, NoFault
<1>3. displaced \subseteq displaced' /\ displaced' \subseteq Jobs /\ faults' \in 0 .. MaxFaults
      /\ (j \notin displaced' => row[j].phase = "start" \/ n = row[j].node)
  BY <1>2 DEF Moves, Typed, Flags
<1>4. Kind(j) \in Kinds
  BY DEF Kind, Kinds
<1>5. CASE Creates(j)
  BY <1>1, <1>2, <1>4, <1>5, CreateEffect, CreatedStep DEF Asks, Uses
<1>6. CASE ~Creates(j)
  <2>1. row[j].task \in Ids /\ row[j].phase \in {"working", "uploading"} /\ Awaits(j)
    BY <1>2, <1>6, Numbers DEF Creates, Phased, Job, Awaits
  <2>2. Telling(n, row[j].task, ClearsOnComplete(j))
    BY <1>1, <1>2, <1>6, <2>1, TellEffect DEF Asks
  <2>3. Asked(j, n)
    BY <2>2 DEF Asked
  <2>4. PICK w : w = registry[n][row[j].task]
    OBVIOUS
  <2>5. w = 0 \/ w \in Works
    BY <1>2, <2>1, <2>4, Numbers
  <2>6. CASE w = 0
    <3>1. Retry(j, At(j, n))
      BY <1>1, <1>6, <2>4, <2>6 DEF Uses
    <3>2. PICK t \in Job : Becomes(j, t) /\ Like(t, At(j, n)) /\ t.status \in {At(j, n).status, "error"}
      BY <1>2, <3>1, AtNode, RetryEffect
    <3>. QED  BY <1>1, <1>2, <1>3, <2>3, <3>2, AtNode, StayStep DEF Like
  <2>7. CASE w \in Works /\ work[w].status = "completed"
    <3>1. Proceeds(j, Told(j, n, w))
      <4>1. w # 0
        BY <1>2, <2>7, Numbers
      <4>. QED  BY <1>1, <1>6, <2>4, <2>7, <4>1 DEF Uses
    <3>. QED  BY <1>1, <1>2, <2>1, <2>2, <2>4, <2>7, <3>1, ProceedStep
  <2>8. CASE w \in Works /\ work[w].status # "completed"
    <3>1. w # 0
      BY <1>2, <2>8, Numbers
    <3>2. End(j, Told(j, n, w), "error") \/ Keep(j, Told(j, n, w))
      BY <1>1, <1>6, <2>4, <2>8, <3>1 DEF Uses
    <3>3. PICK r : r = Told(j, n, w)
      OBVIOUS
    <3>4. Archive(w) = 0
      BY <2>8 DEF Archive
    <3>5. /\ r \in Job /\ r.node = n /\ r.phase = row[j].phase /\ r.task = row[j].task
          /\ r.status = row[j].status
          /\ r.zip = IF Compressing(j) THEN Archive(w) ELSE row[j].zip
      BY <2>8, <3>3, ToldEffect
    <3>6. r.zip = row[j].zip
      BY <1>2, <3>4, <3>5 DEF Phased, Active, Compressing
    <3>7. PICK t \in Job : Becomes(j, t) /\ Like(t, r) /\ t.status \in {r.status, "error"}
      <4>1. CASE End(j, r, "error")
        BY <3>5, <4>1, EndEffect
      <4>2. CASE Keep(j, r)
        BY <3>5, <4>2 DEF Keep, Becomes, Like
      <4>. QED  BY <3>2, <3>3, <4>1, <4>2
    <3>. QED  BY <1>1, <1>2, <1>3, <2>3, <3>5, <3>6, <3>7, StayStep DEF Like
  <2>. QED  BY <2>5, <2>6, <2>7, <2>8
<1>. QED  BY <1>5, <1>6

(***************************************************************************)
(* The iterations of a job that do not get an answer, and the last one.    *)
(***************************************************************************)
LEMMA NoneStep ==
  ASSUME SlaveInv, NEW j \in Jobs, NoneAvailable(j)
  PROVE  SlaveInv'
<1>1. Typed /\ row[j] \in Job
  BY DEF SlaveInv, Typed, Recorded
<1>2. PICK n : n \in Nodes
  BY SlaveAssumption DEF SlaveAssumption
<1>3. PICK t \in Job : Becomes(j, t) /\ Like(t, row[j]) /\ t.status \in {row[j].status, "error"}
  BY <1>1, RetryEffect DEF NoneAvailable
<1>4. Asked(j, n) /\ UNCHANGED <<pool, placed, displaced, faults>>
  BY DEF Asked, NoneAvailable, NoFault
<1>5. displaced' \subseteq Jobs /\ faults' \in 0 .. MaxFaults
  BY <1>1, <1>4 DEF Typed, Flags
<1>. QED  BY <1>2, <1>3, <1>4, <1>5, StayStep DEF Like

LEMMA RefusesStep ==
  ASSUME SlaveInv, NEW j \in Jobs, MasterRefuses(j)
  PROVE  SlaveInv'
<1>1. Typed /\ row[j] \in Job
  BY DEF SlaveInv, Typed, Recorded
<1>2. PICK n : n \in Nodes
  BY SlaveAssumption DEF SlaveAssumption
<1>3. PICK t : t = [row[j] EXCEPT !.status = "error"]
  OBVIOUS
<1>4. /\ t \in Job /\ t.status = "error" /\ t.phase = row[j].phase /\ t.task = row[j].task
      /\ t.zip = row[j].zip /\ t.node = row[j].node
  BY <1>1, <1>3 DEF Job
<1>5. Becomes(j, t)
  BY <1>1, <1>3 DEF MasterRefuses, Becomes, Typed, Recorded
<1>6. Asked(j, n) /\ UNCHANGED <<pool, placed, displaced, faults>>
  BY DEF Asked, MasterRefuses, NoFault
<1>7. displaced' \subseteq Jobs /\ faults' \in 0 .. MaxFaults
  BY <1>1, <1>6 DEF Typed, Flags
<1>. QED  BY <1>2, <1>4, <1>5, <1>6, <1>7, StayStep

LEMMA FaultCounts ==
  ASSUME Typed, NEW what, Fault(what)
  PROVE  faults' \in 0 .. MaxFaults /\ faults' = faults + 1
BY SlaveAssumption DEF SlaveAssumption, Typed, Flags, Fault

LEMMA CompleteStep ==
  ASSUME SlaveInv, NEW j \in Jobs, Complete(j)
  PROVE  SlaveInv'
<1>1. Typed /\ Rest /\ row[j] \in Job /\ Phased(row[j]) /\ Active(j) /\ row[j].phase = "complete"
  BY DEF SlaveInv, Typed, Recorded, Rest, Shaped, Complete
<1>2. PICK n \in Allocated(j) :
         \/ End(j, At(j, n), "completed") /\ NoFault
         \/ /\ Fault("kept")
            /\ row' = [row EXCEPT ![j] = [At(j, n) EXCEPT !.status = "completed"]]
            /\ UNCHANGED files
  BY DEF Complete
<1>3. n \in Nodes
  BY <1>1, Nodesof
<1>4. PICK r : r = At(j, n)
  OBVIOUS
<1>5. /\ r \in Job /\ r.node = n /\ r.phase = row[j].phase /\ r.task = row[j].task
      /\ r.zip = row[j].zip
  BY <1>1, <1>3, <1>4, AtNode
<1>6. \E t \in Job : Becomes(j, t) /\ Like(t, r) /\ t.status = "completed"
  <2>1. CASE End(j, r, "completed")
    BY <1>5, <2>1, EndEffect
  <2>2. CASE row' = [row EXCEPT ![j] = [r EXCEPT !.status = "completed"]] /\ UNCHANGED files
    <3>1. PICK t : t = [r EXCEPT !.status = "completed"]
      OBVIOUS
    <3>2. t \in Job /\ Like(t, r) /\ t.status = "completed"
      BY <1>5, <3>1 DEF Job, Like
    <3>. QED  BY <2>2, <3>1, <3>2 DEF Becomes
  <2>. QED  BY <1>2, <1>4, <2>1, <2>2
<1>7. PICK t \in Job : Becomes(j, t) /\ Like(t, r) /\ t.status = "completed"
  BY <1>6
<1>8. Asked(j, n) /\ UNCHANGED <<pool, placed, displaced>>
  BY DEF Asked, Complete
<1>9. displaced' \subseteq Jobs /\ faults' \in 0 .. MaxFaults
  BY <1>1, <1>2, <1>8, FaultCounts DEF Typed, Flags, NoFault
<1>10. Phased(t) /\ t.zip <= Len(work)
  BY <1>1, <1>3, <1>5, <1>7 DEF Phased, Like, Typed, Referring
<1>11. ASSUME j \notin displaced'
       PROVE  Mine(j)'
  <2>1. row'[j] = t /\ Mine(j) /\ Onward
    BY <1>1, <1>3, <1>7, <1>8, <1>11, AskedOnward DEF Typed, Recorded, Rest, Becomes
  <2>2. Done(j)'
    BY <1>1, <2>1, DoneStays DEF Mine
  <2>. QED  BY <1>1, <1>5, <1>7, <2>1, <2>2 DEF Mine, Awaits, Active, Like
<1>. QED  BY <1>3, <1>7, <1>8, <1>9, <1>10, <1>11, JobStep DEF Becomes

LEMMA UnreachableStep ==
  ASSUME SlaveInv, NEW j \in Jobs, Unreachable(j)
  PROVE  SlaveInv'
<1>1. PICK n \in Nodes : /\ Asking(j, n)
                         /\ Fault("unreachable") /\ Retry(j, At(j, n))
                         /\ UNCHANGED <<pool, nextId, registry, work, placed>>
  BY DEF Unreachable
<1>2. Typed /\ row[j] \in Job /\ Moves(j, n)
  BY <1>1 DEF SlaveInv, Typed, Recorded, Asking
<1>3. displaced \subseteq displaced' /\ displaced' \subseteq Jobs
      /\ (j \notin displaced' => row[j].phase = "start" \/ n = row[j].node)
  BY <1>2 DEF Moves, Typed, Flags
<1>4. faults' \in 0 .. MaxFaults
  BY <1>1, <1>2, FaultCounts
<1>5. PICK t \in Job : Becomes(j, t) /\ Like(t, At(j, n)) /\ t.status \in {At(j, n).status, "error"}
  BY <1>1, <1>2, AtNode, RetryEffect
<1>6. Asked(j, n)
  BY <1>1 DEF Asked
<1>. QED  BY <1>1, <1>2, <1>3, <1>4, <1>5, <1>6, AtNode, StayStep DEF Like

LEMMA LostStep ==
  ASSUME SlaveInv, NEW j \in Jobs, AnswerLost(j)
  PROVE  SlaveInv'
<1>1. PICK n \in Nodes :
         /\ Asking(j, n) /\ Asks(j, n)
         /\ \/ Fault("lost") /\ Retry(j, At(j, n))
            \/ Fault("timeout") /\ End(j, At(j, n), "error")
            \/ Fault("crash") /\ UNCHANGED <<row, files>>
         /\ UNCHANGED <<pool, placed>>
  BY DEF AnswerLost
<1>2. Typed /\ Rest /\ row[j] \in Job /\ Phased(row[j]) /\ Active(j) /\ row[j].phase # "complete"
      /\ Moves(j, n)
  BY <1>1 DEF SlaveInv, Typed, Recorded, Rest, Shaped, Asking
<1>3. displaced \subseteq displaced' /\ displaced' \subseteq Jobs
      /\ (j \notin displaced' => row[j].phase = "start" \/ n = row[j].node)
  BY <1>2 DEF Moves, Typed, Flags
<1>4. faults' \in 0 .. MaxFaults
  BY <1>1, <1>2, FaultCounts
<1>5. Asked(j, n)
  <2>1. CASE Creates(j)
    <3>1. Kind(j) \in Kinds
      BY DEF Kind, Kinds
    <3>. QED  BY <1>1, <1>2, <2>1, <3>1, CreateEffect DEF Asks, Asked
  <2>2. CASE ~Creates(j)
    <3>1. row[j].task \in Ids
      BY <1>2, <2>2, Numbers DEF Creates, Phased, Job
    <3>. QED  BY <1>1, <1>2, <2>2, <3>1, TellEffect DEF Asks, Asked
  <2>. QED  BY <2>1, <2>2
<1>6. PICK r : r = At(j, n)
  OBVIOUS
<1>7. /\ r \in Job /\ r.node = n /\ r.phase = row[j].phase /\ r.task = row[j].task
      /\ r.zip = row[j].zip /\ r.status = row[j].status
  BY <1>2, <1>6, AtNode
<1>8. CASE Retry(j, r) \/ End(j, r, "error")
  <2>1. PICK t \in Job : Becomes(j, t) /\ Like(t, r) /\ t.status \in {r.status, "error"}
    BY <1>7, <1>8, RetryEffect, EndEffect
  <2>. QED  BY <1>1, <1>3, <1>4, <1>5, <1>7, <2>1, StayStep DEF Like
<1>9. CASE UNCHANGED <<row, files>>
  <2>1. row' = [row EXCEPT ![j] = row[j]] /\ files' \subseteq files
    BY <1>2, <1>9 DEF Typed, Recorded
  <2>. QED  BY <1>1, <1>2, <1>3, <1>4, <1>5, <2>1, StayStep DEF Becomes
<1>. QED  BY <1>1, <1>6, <1>8, <1>9

-----------------------------------------------------------------------------
(***************************************************************************)
(* What a slave does by itself: no task is made and no job is written.     *)
(***************************************************************************)
Alone ==
  /\ Len(work') = Len(work) /\ UNCHANGED row
  /\ nextId' \in [Nodes -> 0 .. MaxWork] /\ registry' \in [Nodes -> [Ids -> 0 .. MaxWork]]
  /\ \A m \in Nodes : \/ nextId'[m] = nextId[m] /\ registry'[m] = registry[m]
                      \/ nextId'[m] = 0 /\ \A i \in Ids : registry'[m][i] = 0
  /\ \A j \in Jobs \ displaced' : KeepsTask(j)
  /\ files' \subseteq Works /\ placed' \subseteq [job : Jobs, zip : Works]
  /\ pool' \subseteq Nodes /\ displaced' \subseteq Jobs /\ faults' \in 0 .. MaxFaults
  /\ \A w \in Works : work'[w].status = "completed" /\ work[w].kind # "compress" =>
                         Result(w) \in placed'

LEMMA AloneStep ==
  ASSUME SlaveInv, Onward, Alone
  PROVE  SlaveInv'
<1>1. Typed /\ Rest
  BY DEF SlaveInv
<1>2. Works' = Works /\ Len(work) \in Nat /\ 0 <= Len(work)
  BY <1>1, LenProperties DEF Alone, Works, Typed, Recorded
<1>3. Typed'
  <2>1. Recorded'
    BY <1>1 DEF Alone, Onward, Typed, Recorded
  <2>2. \A m \in Nodes : nextId'[m] <= Len(work') /\ \A i \in Ids : registry'[m][i] <= Len(work')
    BY <1>1, <1>2 DEF Alone, Typed, Referring
  <2>3. \A w \in Works : work'[w].zip <= Len(work')
    BY <1>1 DEF Alone, Onward, Typed, Referring
  <2>4. Referring'
    BY <1>1, <1>2, <2>2, <2>3 DEF Alone, Typed, Referring
  <2>5. Flags'
    BY <1>2 DEF Alone, Flags
  <2>. QED  BY <2>1, <2>4, <2>5 DEF Typed
<1>4. Shaped'
  BY <1>1 DEF Alone, Rest, Shaped
<1>5. Registered'
  <2>. SUFFICES ASSUME NEW m \in Nodes, NEW i \in Ids, registry'[m][i] # 0
                PROVE  /\ work'[registry'[m][i]].node = m /\ work'[registry'[m][i]].id = i
                       /\ i <= nextId'[m]
    BY DEF Registered
  <2>1. nextId'[m] = nextId[m] /\ registry'[m][i] = registry[m][i]
    BY DEF Alone
  <2>2. registry[m][i] \in Works
    BY <1>1, <2>1, Numbers
  <2>. QED  BY <1>1, <2>1, <2>2 DEF Rest, Registered, Onward
<1>6. ASSUME NEW j \in Jobs \ displaced'
      PROVE  Mine(j)'
  <2>1. Stays(j) /\ KeepsTask(j)
    BY <1>6 DEF Stays, Alone
  <2>. QED  BY <1>6, <2>1, MineStays
<1>7. ASSUME NEW w \in Works'
      PROVE  Delivered(w)'
  <2>1. w \in Works /\ Delivered(w)
    BY <1>1, <1>2 DEF Rest
  <2>2. work[w].zip # 0 => work[w].zip \in Works
    BY <1>1, <2>1, Numbers
  <2>3. Result(w)' = Result(w)
    BY <2>1 DEF Result, Onward
  <2>4. /\ work'[w].kind = work[w].kind /\ work'[w].job = work[w].job /\ work'[w].zip = work[w].zip
        /\ work[w].zip # 0 => work'[work[w].zip].job = work[work[w].zip].job
    BY <2>1, <2>2 DEF Onward
  <2>5. work[w].kind = "upload" /\ work[w].job \notin displaced' =>
           work[w].zip # 0 /\ work[work[w].zip].job = work[w].job
    BY <2>1 DEF Onward, Delivered
  <2>. QED  BY <2>1, <2>3, <2>4, <2>5 DEF Delivered, Alone
<1>. QED  BY <1>3, <1>4, <1>5, <1>6, <1>7 DEF SlaveInv, Rest

(***************************************************************************)
(* A slave task goes on, or fails.                                         *)
(***************************************************************************)
LEMMA StatusEffect ==
  ASSUME Typed, NEW w \in Works,
         NEW st \in {"queued", "processing", "completed", "error", "gone"},
         work' = [work EXCEPT ![w].status = st], placed \subseteq placed', displaced' = displaced
  PROVE  /\ Onward /\ Len(work') = Len(work)
         /\ \A v \in Works : work'[v].status = IF v = w THEN st ELSE work[v].status
<1>1. work[w] \in Work /\ work \in Seq(Work) /\ Len(work) \in Nat
  BY Numbers, LenProperties DEF Typed, Recorded
<1>2. PICK x : x = [work[w] EXCEPT !.status = st]
  OBVIOUS
<1>3. /\ x \in Work /\ x.status = st /\ x.job = work[w].job /\ x.kind = work[w].kind
      /\ x.node = work[w].node /\ x.id = work[w].id /\ x.zip = work[w].zip
  BY <1>1, <1>2 DEF Work
<1>4. work' = [work EXCEPT ![w] = x]
  BY <1>2
<1>5. work' \in Seq(Work) /\ Len(work') = Len(work)
      /\ \A v \in Works : work'[v] = IF v = w THEN x ELSE work[v]
  <2>1. PICK y : y = [work EXCEPT ![w] = x]
    OBVIOUS
  <2>2. y \in Seq(Work) /\ Len(y) = Len(work)
    BY ONLY <1>1, <1>3, <2>1, ExceptSeq, w \in 1 .. Len(work) DEF Works
  <2>3. \A v \in 1 .. Len(work) : y[v] = IF v = w THEN x ELSE work[v]
    BY ONLY <1>1, <1>3, <2>1, ExceptSeq, w \in 1 .. Len(work) DEF Works
  <2>. QED  BY <1>4, <2>1, <2>2, <2>3 DEF Works
<1>6. \A v \in Works : /\ work'[v].status = (IF v = w THEN st ELSE work[v].status)
                       /\ work'[v].job = work[v].job /\ work'[v].kind = work[v].kind
                       /\ work'[v].node = work[v].node /\ work'[v].id = work[v].id
                       /\ work'[v].zip = work[v].zip
  BY <1>3, <1>5
<1>. QED  BY <1>1, <1>5, <1>6 DEF Onward

LEMMA Placed ==
  ASSUME SlaveInv, NEW w \in Works, NEW v \in Works, work[v].status = "completed" /\ work[v].kind # "compress",
         placed \subseteq placed'
  PROVE  Result(v) \in placed'
BY DEF SlaveInv, Rest, Delivered

LEMMA StatusStep ==
  ASSUME SlaveInv, NEW w \in Works,
         NEW st \in {"queued", "processing", "completed", "error", "gone"},
         work' = [work EXCEPT ![w].status = st],
         UNCHANGED <<row, pool, nextId, registry, displaced>>, faults' \in 0 .. MaxFaults,
         files' \subseteq Works, placed \subseteq placed', placed' \subseteq [job : Jobs, zip : Works],
         st = "completed" /\ work[w].kind # "compress" => Result(w) \in placed'
  PROVE  SlaveInv'
<1>1. Typed
  BY DEF SlaveInv
<1>2. /\ Onward /\ Len(work') = Len(work)
      /\ \A v \in Works : work'[v].status = IF v = w THEN st ELSE work[v].status
  BY <1>1, StatusEffect
<1>3. \A j \in Jobs \ displaced' : KeepsTask(j)
  BY DEF KeepsTask, SlaveInv, Rest, Mine, Current
<1>4. \A v \in Works : work'[v].status = "completed" /\ work[v].kind # "compress" =>
                         Result(v) \in placed'
  BY <1>2, Placed
<1>5. Alone
  BY <1>1, <1>2, <1>3, <1>4 DEF Alone, Typed, Recorded, Flags
<1>. QED  BY <1>2, <1>5, AloneStep

LEMMA BeginsStep ==
  ASSUME SlaveInv, NEW w \in Works, SlaveBegins(w)
  PROVE  SlaveInv'
<1>1. files' \subseteq Works /\ faults' \in 0 .. MaxFaults /\ placed' = placed
      /\ placed' \subseteq [job : Jobs, zip : Works]
  BY DEF SlaveBegins, SlaveInv, Typed, Flags
<1>. QED  BY <1>1, StatusStep DEF SlaveBegins

LEMMA EndsStep ==
  ASSUME SlaveInv, NEW w \in Works, SlaveEnds(w)
  PROVE  SlaveInv'
<1>1. Typed /\ work[w] \in Work /\ files \subseteq Works
  BY Numbers DEF SlaveInv, Typed, Flags
<1>2. PICK works : works = (work[w].kind = "upload" => CanOpen(w))
  OBVIOUS
<1>3. works => Result(w) \in [job : Jobs, zip : Works]
  <2>1. CASE work[w].kind = "upload"
    <3>1. works => work[w].zip \in Works
      BY <1>1, <1>2, <2>1 DEF CanOpen
    <3>2. Result(w) = [job |-> work[w].job, zip |-> work[w].zip]
      BY <2>1 DEF Result
    <3>. QED  BY <1>1, <3>1, <3>2 DEF Work
  <2>2. CASE work[w].kind # "upload"
    <3>1. Result(w) = [job |-> work[w].job, zip |-> w]
      BY <2>2 DEF Result
    <3>. QED  BY <1>1, <3>1 DEF Work
  <2>. QED  BY <2>1, <2>2
<1>4. /\ work' = [work EXCEPT ![w].status = IF works THEN "completed" ELSE "error"]
      /\ placed' = IF works /\ work[w].kind # "compress" THEN placed \cup {Result(w)} ELSE placed
      /\ UNCHANGED <<row, pool, nextId, registry, files, displaced, mishaps, faults>>
  BY <1>2 DEF SlaveEnds, Result
<1>5. PICK st : st = IF works THEN "completed" ELSE "error"
  OBVIOUS
<1>6. /\ work' = [work EXCEPT ![w].status = st] /\ st \in {"completed", "error"}
      /\ st = "completed" => works
  BY <1>4, <1>5
<1>7. placed \subseteq placed' /\ placed' \subseteq [job : Jobs, zip : Works]
  BY <1>1, <1>3, <1>4 DEF Typed, Flags
<1>8. st = "completed" /\ work[w].kind # "compress" => Result(w) \in placed'
  BY <1>4, <1>6
<1>9. files' \subseteq Works /\ faults' \in 0 .. MaxFaults
  BY <1>1, <1>4 DEF Typed, Flags
<1>. QED  BY <1>4, <1>6, <1>7, <1>8, <1>9, StatusStep

LEMMA FailsStep ==
  ASSUME SlaveInv, NEW w \in Works, SlaveFails(w)
  PROVE  SlaveInv'
<1>1. Typed /\ files' \subseteq Works /\ placed' = placed /\ placed' \subseteq [job : Jobs, zip : Works]
  BY DEF SlaveFails, SlaveInv, Typed, Flags
<1>2. faults' \in 0 .. MaxFaults
  BY <1>1, FaultCounts DEF SlaveFails
<1>. QED  BY <1>1, <1>2, StatusStep DEF SlaveFails

(***************************************************************************)
(* A slave restarts: the tasks it was busy with are gone, and those whose  *)
(* jobs hold an id of it are displaced.                                    *)
(***************************************************************************)
LEMMA RestartsStep ==
  ASSUME SlaveInv, NEW n \in Nodes, SlaveRestarts(n)
  PROVE  SlaveInv'
<1>. USE SlaveAssumption DEF SlaveAssumption
<1>1. Typed /\ Rest /\ \A w \in Works : work[w] \in Work
  BY Numbers DEF SlaveInv
<1>2. \A w \in Works : [work[w] EXCEPT !.status = "gone"] \in Work
  BY <1>1 DEF Work
<1>3. Len(work) \in Nat
  BY <1>1, LenProperties DEF Typed, Recorded
<1>4. PICK x : x = [w \in Works |->
          IF work[w].node = n /\ work[w].status \in {"queued", "processing"}
          THEN [work[w] EXCEPT !.status = "gone"] ELSE work[w]]
  OBVIOUS
<1>5. /\ x \in [1 .. Len(work) -> Work]
      /\ \A w \in Works : /\ x[w].job = work[w].job /\ x[w].kind = work[w].kind
                          /\ x[w].node = work[w].node /\ x[w].id = work[w].id
                          /\ x[w].zip = work[w].zip /\ x[w].status \in {work[w].status, "gone"}
  <2>1. x \in [1 .. Len(work) -> Work]
    BY <1>1, <1>2, <1>4 DEF Works
  <2>2. ASSUME NEW w \in Works
        PROVE  /\ x[w].job = work[w].job /\ x[w].kind = work[w].kind
               /\ x[w].node = work[w].node /\ x[w].id = work[w].id
               /\ x[w].zip = work[w].zip /\ x[w].status \in {work[w].status, "gone"}
    <3>1. work[w] \in Work /\ (x[w] = work[w] \/ x[w] = [work[w] EXCEPT !.status = "gone"])
      BY <1>1, <1>4
    <3>. QED  BY <3>1 DEF Work
  <2>. QED  BY <2>1, <2>2
<1>6. x \in Seq(Work) /\ Len(x) = Len(work)
  BY <1>3, <1>5, IsASeq, LenProperties
<1>7. work' = x /\ UNCHANGED <<row, pool, files, placed>>
  BY <1>4 DEF SlaveRestarts
<1>8. displaced \subseteq displaced' /\ displaced' \subseteq Jobs
  BY <1>1 DEF SlaveRestarts, Typed, Flags
<1>9. Onward
  BY <1>3, <1>5, <1>6, <1>7, <1>8 DEF Onward
<1>10. /\ nextId' \in [Nodes -> 0 .. MaxWork] /\ registry' \in [Nodes -> [Ids -> 0 .. MaxWork]]
       /\ \A m \in Nodes : /\ m # n => nextId'[m] = nextId[m] /\ registry'[m] = registry[m]
                           /\ m = n => nextId'[m] = 0 /\ \A i \in Ids : registry'[m][i] = 0
  <2>1. PICK zeros : zeros = [i \in Ids |-> 0]
    OBVIOUS
  <2>2. 0 \in 0 .. MaxWork
    OBVIOUS
  <2>3. zeros \in [Ids -> 0 .. MaxWork] /\ \A i \in Ids : zeros[i] = 0
    BY <2>1, <2>2
  <2>4. nextId' = [nextId EXCEPT ![n] = 0] /\ registry' = [registry EXCEPT ![n] = zeros]
    BY <2>1 DEF SlaveRestarts
  <2>. QED  BY <1>1, <2>2, <2>3, <2>4 DEF Typed, Recorded
<1>11. ASSUME NEW j \in Jobs \ displaced'
       PROVE  KeepsTask(j)
  <2>1. ASSUME Awaits(j)
        PROVE  row[j].task <= nextId'[row[j].node] /\ registry'[row[j].node][row[j].task] \in {Current(j), 0}
    <3>1. row[j].node \in Nodes /\ row[j].node # n
      BY <1>1, <1>11, <2>1 DEF Rest, Shaped, Phased, Awaits, SlaveRestarts, Active
    <3>2. Mine(j)
      BY <1>1, <1>8, <1>11 DEF Rest
    <3>. QED  BY <1>10, <2>1, <3>1, <3>2 DEF Mine, Current
  <2>. QED  BY <2>1 DEF KeepsTask
<1>12. \A w \in Works : work'[w].status = "completed" /\ work[w].kind # "compress" =>
                          Result(w) \in placed'
  BY <1>1, <1>5, <1>7 DEF Rest, Delivered
<1>13. faults' \in 0 .. MaxFaults
  BY <1>1, FaultCounts DEF SlaveRestarts
<1>14. Alone
  BY <1>1, <1>6, <1>7, <1>8, <1>10, <1>11, <1>12, <1>13 DEF Alone, Typed, Flags
<1>. QED  BY <1>9, <1>14, AloneStep

LEMMA UpsertStep ==
  ASSUME SlaveInv, NEW n \in Nodes, Upsert(n)
  PROVE  SlaveInv'
<1>1. Typed /\ Rest /\ work \in Seq(Work) /\ Len(work) \in Nat
  BY LenProperties DEF SlaveInv, Typed, Recorded
<1>2. pool' \subseteq Nodes /\ faults' \in 0 .. MaxFaults
      /\ UNCHANGED <<row, nextId, registry, work, files, placed, displaced>>
  BY <1>1, FaultCounts DEF Upsert, Typed, Flags
<1>3. Onward
  BY <1>1, <1>2 DEF Onward
<1>4. Alone
  <2>1. \A j \in Jobs \ displaced' : KeepsTask(j)
    BY <1>1, <1>2 DEF KeepsTask, Rest, Mine, Current
  <2>2. \A w \in Works : work'[w].status = "completed" /\ work[w].kind # "compress" =>
                            Result(w) \in placed'
    BY <1>1, <1>2 DEF Rest, Delivered
  <2>. QED  BY <1>1, <1>2, <2>1, <2>2 DEF Alone, Typed, Recorded, Flags
<1>. QED  BY <1>3, <1>4, AloneStep

-----------------------------------------------------------------------------
(***************************************************************************)
(* Every step keeps the invariant.                                         *)
(***************************************************************************)
LEMMA UnchangedInv ==
  ASSUME SlaveInv, UNCHANGED vars
  PROVE  SlaveInv'
<1>1. Works' = Works
  BY DEF vars, Works
<1>2. Typed'
  BY <1>1 DEF vars, SlaveInv, Typed, Recorded, Referring, Flags
<1>3. Shaped'
  BY DEF vars, SlaveInv, Rest, Shaped
<1>4. Registered'
  BY DEF vars, SlaveInv, Rest, Registered
<1>5. \A j \in Jobs \ displaced : Mine(j)'
  BY DEF vars, SlaveInv, Rest, Mine, Awaits, Active, Current, Done, Own, Kind
<1>6. \A w \in Works : Delivered(w)'
  BY DEF vars, SlaveInv, Rest, Delivered, Result
<1>7. displaced' = displaced
  BY DEF vars
<1>. QED  BY <1>1, <1>2, <1>3, <1>4, <1>5, <1>6, <1>7 DEF SlaveInv, Rest

LEMMA SlaveInvariant == Spec => []SlaveInv
<1>1. Init => SlaveInv
  BY InitInv
<1>2. ASSUME SlaveInv, [Next]_vars
      PROVE  SlaveInv'
  <2>1. CASE \E j \in Jobs : Iteration(j) \/ Unreachable(j) \/ AnswerLost(j)
    BY <1>2, <2>1, RequestStep, CompleteStep, NoneStep, RefusesStep, UnreachableStep,
       LostStep DEF Iteration
  <2>2. CASE \E w \in Ids : SlaveWorks(w)
    BY <1>2, <2>2, BeginsStep, EndsStep DEF SlaveWorks
  <2>3. CASE \E w \in Works : SlaveFails(w)
    BY <1>2, <2>3, FailsStep
  <2>4. CASE \E n \in Nodes : SlaveRestarts(n) \/ Upsert(n)
    BY <1>2, <2>4, RestartsStep, UpsertStep
  <2>5. CASE UNCHANGED vars
    BY <1>2, <2>5, UnchangedInv
  <2>. QED  BY <1>2, <2>1, <2>2, <2>3, <2>4, <2>5 DEF Next
<1>. QED  BY <1>1, <1>2, PTL DEF Spec

(***************************************************************************)
(* Every row is of a job as the queue writes it, and every id, archive and *)
(* registered task refers to a slave task that was made.                   *)
(***************************************************************************)
THEOREM SlaveTypeCorrect == Spec => []TypeOK
<1>1. SlaveInv => TypeOK
  <2>. SUFFICES ASSUME Typed PROVE TypeOK
    BY DEF SlaveInv
  <2>1. Len(work) \in 0 .. MaxWork /\ \A w \in Works : work[w] \in Work
    BY Numbers
  <2>2. \A x \in 0 .. MaxWork : x <= Len(work) => x \in 0 .. Len(work)
    BY <2>1, SlaveAssumption DEF SlaveAssumption
  <2>3. PICK Rows : Rows = [status : {"active", "completed", "error"},
                         phase : {"start", "working", "uploading", "complete"},
                         node : Nodes \cup {NoNode}, task : 0 .. MaxWork,
                         zip : 0 .. Len(work), tries : 0 .. MaxRetry]
    OBVIOUS
  <2>4. row \in [Jobs -> Rows]
    <3>1. \A j \in Jobs : row[j] \in Job /\ row[j].zip <= Len(work)
      BY DEF Typed, Recorded, Referring
    <3>2. \A j \in Jobs : row[j].zip \in 0 .. Len(work)
      BY <2>2, <3>1 DEF Job
    <3>3. \A j \in Jobs : row[j] \in Rows
      BY <2>3, <3>1, <3>2 DEF Job
    <3>. QED  BY <3>3 DEF Typed, Recorded
  <2>5. registry \in [Nodes -> [Ids -> 0 .. Len(work)]]
    <3>1. \A n \in Nodes, i \in Ids : registry[n][i] \in 0 .. Len(work)
      BY <2>2 DEF Typed, Recorded, Referring
    <3>. QED  BY <3>1 DEF Typed, Recorded
  <2>6. \A w \in Works :
          work[w] \in [job : Jobs, kind : {"compress", "extract", "upload"}, node : Nodes,
                       id : Ids, zip : 0 .. Len(work),
                       status : {"queued", "processing", "completed", "error", "gone"}]
    <3>1. \A w \in Works : work[w].zip \in 0 .. Len(work)
      BY <2>1, <2>2 DEF Typed, Referring, Work
    <3>. QED  BY <2>1, <3>1 DEF Work, Kinds
  <2>. QED  BY <2>3, <2>4, <2>5, <2>6 DEF TypeOK, Typed, Recorded, Flags
<1>. QED  BY <1>1, SlaveInvariant, PTL

(***************************************************************************)
(* A job that is completed has had its own archive uploaded, or its own    *)
(* archive extracted (unless its slave was restarted or replaced while it  *)
(* held the id of a task): the answers of other tasks, lost answers, time  *)
(* limits, retries and a restart of the master cannot make up for it.      *)
(***************************************************************************)
THEOREM CompletedJobIsDone == Spec => []CompletedMeansDone
<1>1. SlaveInv => CompletedMeansDone
  BY DEF SlaveInv, Rest, Mine, Done, CompletedMeansDone
<1>. QED  BY <1>1, SlaveInvariant, PTL

-----------------------------------------------------------------------------
(***************************************************************************)
(* While nothing but unreachable slaves has gone wrong, and not too often, *)
(* no job has failed and none is displaced, the slave knows the task of    *)
(* every job that awaits one, an archive is there for as long as its job   *)
(* needs it, and every slave task is awaited, kept for its archive or      *)
(* over, with nothing left of it.                                          *)
(***************************************************************************)
Calm == mishaps \subseteq {"unreachable"} /\ faults <= MaxRetry
Waits(j) ==
  /\ Current(j) # 0
  /\ work[Current(j)].kind = "compress" /\ work[Current(j)].status # "queued" => Current(j) \in files
  /\ work[Current(j)].kind = "upload" => work[Current(j)].zip = row[j].zip
JobCalm(j) ==
  /\ row[j].tries <= faults /\ row[j].status # "error"
  /\ Awaits(j) => Waits(j)
  /\ Active(j) /\ row[j].zip # 0 =>
       row[j].zip \in files /\ work[row[j].zip].node = row[j].node /\ work[row[j].zip].job = j
Busy(w) == Awaits(work[w].job) /\ Current(work[w].job) = w
Kept(w) == /\ work[w].status = "completed" /\ work[w].kind = "compress"
           /\ Active(work[w].job) /\ row[work[w].job].zip = w
Over(w) == /\ work[w].status = "completed" /\ w \notin files
           /\ work[w].kind # "compress" => \A n \in Nodes, i \in Ids : registry[n][i] # w
Settled(w) == Busy(w) \/ Kept(w) \/ Over(w)
Sound(w) == work[w].id <= nextId[work[w].node] /\ work[w].status \notin {"error", "gone"}
Apart == \A v, w \in Works : work[v].node = work[w].node /\ work[v].id = work[w].id => v = w
Compressed == \A f \in files : work[f].kind = "compress"

Peace ==
  /\ pool = Nodes /\ displaced = {} /\ Apart /\ Compressed
  /\ \A j \in Jobs : JobCalm(j)
  /\ \A w \in Works : Sound(w) /\ Settled(w)
CalmInv == Calm => Peace

LEMMA InitCalm == Init => CalmInv
<1>. SUFFICES ASSUME Init PROVE Peace
  BY DEF CalmInv
<1>1. Works = {} /\ files = {} /\ pool = Nodes /\ displaced = {}
  BY EmptySeq DEF Init, Works
<1>2. \A j \in Jobs : /\ row[j].phase = "start" /\ row[j].status = "active" /\ row[j].zip = 0
                      /\ row[j].tries = 0
  BY DEF Init
<1>3. \A j \in Jobs : JobCalm(j)
  BY <1>2 DEF Init, JobCalm, Awaits
<1>. QED  BY <1>1, <1>3 DEF Peace, Apart, Compressed

(***************************************************************************)
(* Whom the answer to a request of a job concerns: tasks of its own only.  *)
(***************************************************************************)
OwnOnly(j) ==
  \A m \in Nodes, i \in Ids :
     registry[m][i] # 0 /\ work[registry[m][i]].job # j => registry'[m][i] = registry[m][i]

LEMMA CreatesOwn ==
  ASSUME SlaveInv, NEW j \in Jobs, NEW n \in Nodes, Creation(j, n, Kind(j))
  PROVE  OwnOnly(j)
<1>1. Typed /\ Registered /\ nextId[n] \in Nat
  BY SlaveAssumption DEF SlaveAssumption, SlaveInv, Rest, Typed, Recorded
<1>2. NextID(n) \in Ids /\ ~(NextID(n) <= nextId[n])
  BY <1>1 DEF Creation, NextID
<1>3. registry[n][NextID(n)] = 0
  BY <1>1, <1>2 DEF Registered
<1>. QED  BY <1>3 DEF OwnOnly, Creation

LEMMA TellsOwn ==
  ASSUME SlaveInv, NEW j \in Jobs, j \notin displaced, Awaits(j), NEW clear,
         Telling(row[j].node, row[j].task, clear)
  PROVE  OwnOnly(j)
<1>1. Mine(j)
  BY DEF SlaveInv, Rest
<1>. QED  BY <1>1 DEF OwnOnly, Telling, Mine, Current

(***************************************************************************)
(* An iteration of one job: what is left to show is what becomes of it and *)
(* of its slave tasks.                                                     *)
(***************************************************************************)
LEMMA CalmJob ==
  ASSUME SlaveInv, SlaveInv', Peace, NEW j \in Jobs, NEW n \in Nodes, Asked(j, n), OwnOnly(j),
         \A k \in Jobs \ {j} : row'[k] = row[k],
         UNCHANGED <<pool, displaced, placed>>, faults <= faults',
         files' \subseteq files, \A f \in files : f \notin files' => work[f].job = j,
         JobCalm(j)', \A w \in Works' : work'[w].job = j => Settled(w)'
  PROVE  Peace'
<1>1. Typed /\ Rest /\ Onward /\ Works \subseteq Works' /\ Len(work) \in Nat
  BY AskedOnward, WorksGrow, Numbers DEF SlaveInv
<1>2. /\ \A w \in Works : work'[w] = work[w]
      /\ \A w \in Works' : \/ w \in Works
                           \/ w = Len(work) + 1 /\ w \notin Works /\ Creation(j, n, Kind(j))
  <2>1. \A w \in Works : work'[w] = work[w]
    BY DEF Asked, Creation, Telling
  <2>2. CASE Creation(j, n, Kind(j))
    <3>1. Len(work') = Len(work) + 1
      BY <2>2 DEF Creation
    <3>2. \A w \in Works' : w \in Works \/ (w = Len(work) + 1 /\ w \notin Works)
      BY <1>1, <3>1 DEF Works
    <3>. QED  BY <2>1, <2>2, <3>2
  <2>3. CASE UNCHANGED work
    BY <2>1, <2>3 DEF Works
  <2>. QED  BY <2>2, <2>3 DEF Asked, Telling
<1>3. \A m \in Nodes, i \in Ids : registry'[m][i] \in {registry[m][i], 0, Len(work) + 1}
  BY DEF Asked, Creation, Telling
<1>4. ASSUME NEW k \in Jobs, k # j
      PROVE  JobCalm(k)' /\ (Awaits(k) => Current(k)' = Current(k))
  <2>1. row'[k] = row[k] /\ JobCalm(k) /\ Mine(k) /\ row[k] \in Job
    BY <1>1, <1>4 DEF Peace, Rest, Typed, Recorded
  <2>2. row'[k].tries <= faults'
    <3>1. row[k].tries \in Nat /\ faults \in Nat /\ faults' \in Nat
      BY <1>1, <2>1, SlaveAssumption DEF SlaveAssumption, SlaveInv, Typed, Flags, Job
    <3>. QED  BY <2>1, <3>1 DEF JobCalm
  <2>3. ASSUME Awaits(k)
        PROVE  Current(k)' = Current(k) /\ Waits(k)'
    <3>1. /\ Current(k) # 0 /\ Current(k) \in Works /\ work[Current(k)].job = k
          /\ row[k].node \in Nodes /\ row[k].task \in Ids
      <4>1. row[k].node \in Nodes /\ row[k].task \in Ids
        BY <1>1, <2>1, <2>3, Numbers DEF Rest, Shaped, Phased, Awaits, Job
      <4>2. Current(k) # 0 /\ work[Current(k)].job = k
        BY <2>1, <2>3 DEF JobCalm, Waits, Mine
      <4>. QED  BY <1>1, <4>1, <4>2, Numbers DEF Current
    <3>2. Current(k)' = Current(k)
      BY <1>4, <2>1, <3>1 DEF OwnOnly, Current
    <3>3. Current(k) \in files => Current(k) \in files'
      BY <1>4, <3>1
    <3>. QED  BY <1>2, <2>1, <2>3, <3>1, <3>2, <3>3 DEF Waits, JobCalm
  <2>4. Awaits(k)' = Awaits(k) /\ Active(k)' = Active(k)
    BY <2>1 DEF Awaits, Active
  <2>5. Active(k) /\ row[k].zip # 0 => row[k].zip \in Works /\ row[k].zip \in files'
    BY <1>1, <1>4, <2>1, Numbers DEF JobCalm
  <2>. QED  BY <1>2, <2>1, <2>2, <2>3, <2>4, <2>5 DEF JobCalm
<1>5. ASSUME NEW w \in Works', work'[w].job # j
      PROVE  Settled(w)'
  <2>1. w \in Works /\ work'[w] = work[w] /\ w # 0 /\ w # Len(work) + 1
    BY <1>1, <1>2, <1>5, Numbers DEF Creation, Works
  <2>2. PICK k \in Jobs : k = work[w].job /\ k # j
    BY <1>1, <1>5, <2>1, Numbers DEF Work
  <2>3. row'[k] = row[k]
    BY <2>2
  <2>4. CASE Busy(w)
    BY <1>4, <2>1, <2>2, <2>3, <2>4 DEF Settled, Busy, Awaits, Active
  <2>5. CASE Kept(w)
    BY <2>1, <2>2, <2>3, <2>5 DEF Settled, Kept, Active
  <2>6. CASE Over(w)
    BY <1>3, <2>1, <2>6 DEF Settled, Over
  <2>. QED  BY <2>1, <2>4, <2>5, <2>6 DEF Peace, Settled
<1>6. ASSUME NEW w \in Works'
      PROVE  Sound(w)'
  <2>1. CASE w \in Works
    <3>1. work'[w] = work[w] /\ Sound(w) /\ work[w] \in Work
      BY <1>1, <1>2, <2>1, Numbers DEF Peace
    <3>2. \A m \in Nodes : nextId[m] \in Nat /\ nextId'[m] \in {nextId[m], nextId[m] + 1}
      BY <1>1, SlaveAssumption
         DEF SlaveAssumption, Typed, Recorded, Asked, Creation, Telling, NextID
    <3>3. work[w].node \in Nodes /\ work[w].id \in Nat
      BY <3>1 DEF Work, Ids
    <3>. QED  BY <3>1, <3>2, <3>3 DEF Sound
  <2>2. CASE w = Len(work) + 1 /\ Creation(j, n, Kind(j))
    <3>1. work'[w].id = NextID(n) /\ work'[w].node = n /\ work'[w].status = "queued"
          /\ nextId'[n] = NextID(n) /\ NextID(n) \in Nat
      BY <2>2 DEF Creation, Ids
    <3>. QED  BY <3>1 DEF Sound
  <2>. QED  BY <1>2, <2>1, <2>2
<1>7. Apart'
  <2>. SUFFICES ASSUME NEW v \in Works', NEW w \in Works', work'[v].node = work'[w].node,
                       work'[v].id = work'[w].id
                PROVE  v = w
    BY DEF Apart
  <2>1. ASSUME NEW x \in Works, Creation(j, n, Kind(j)), work[x].node = n
        PROVE  work[x].id # NextID(n)
    <3>1. Sound(x) /\ work[x].id \in Nat /\ nextId[n] \in Nat
      BY <1>1, <2>1, Numbers, SlaveAssumption
         DEF SlaveAssumption, Peace, Typed, Recorded, Work, Ids
    <3>. QED  BY <2>1, <3>1 DEF Sound, NextID
  <2>2. Creation(j, n, Kind(j)) => /\ work'[Len(work) + 1].node = n
                                   /\ work'[Len(work) + 1].id = NextID(n)
    BY DEF Creation
  <2>. QED  BY <1>2, <2>1, <2>2 DEF Peace, Apart
<1>8. Compressed'
  BY <1>1, <1>2 DEF Peace, Compressed, Typed, Flags
<1>. QED  BY <1>4, <1>5, <1>6, <1>7, <1>8 DEF Peace

(***************************************************************************)
(* An iteration that only counts a retry, or nothing.                      *)
(***************************************************************************)
LEMMA CalmStay ==
  ASSUME SlaveInv, SlaveInv', Peace, NEW j \in Jobs, NEW n \in Nodes, NEW t,
         row' = [row EXCEPT ![j] = t], t.phase = row[j].phase, t.task = row[j].task,
         t.zip = row[j].zip, t.status = row[j].status, row[j].phase # "start" => t.node = row[j].node,
         t.tries <= faults', faults <= faults',
         UNCHANGED <<pool, displaced, placed, work, nextId, registry, files>>
  PROVE  Peace'
<1>1. Typed /\ Rest /\ Asked(j, n) /\ OwnOnly(j) /\ Works' = Works
  BY DEF SlaveInv, Asked, OwnOnly, Works
<1>2. row'[j] = t /\ \A k \in Jobs \ {j} : row'[k] = row[k]
  BY <1>1 DEF Typed, Recorded
<1>3. JobCalm(j) /\ Awaits(j)' = Awaits(j) /\ Active(j)' = Active(j)
  BY <1>2 DEF Peace, Awaits, Active
<1>4. Awaits(j) => Current(j)' = Current(j)
  BY <1>2 DEF Current, Awaits
<1>5. Active(j) /\ row[j].zip # 0 => row'[j].node = row[j].node
  BY <1>1, <1>2 DEF Rest, Shaped, Phased, Active
<1>6. JobCalm(j)'
  BY <1>2, <1>3, <1>4, <1>5 DEF JobCalm, Waits
<1>7. ASSUME NEW w \in Works', work'[w].job = j
      PROVE  Settled(w)'
  <2>1. Settled(w) /\ work[w].job = j
    BY <1>1, <1>7 DEF Peace
  <2>. QED  BY <1>2, <1>3, <1>4, <2>1 DEF Settled, Busy, Kept, Over
<1>. QED  BY <1>1, <1>2, <1>6, <1>7, CalmJob

(***************************************************************************)
(* A job past its start stays at its node.                                 *)
(***************************************************************************)
LEMMA SameNode ==
  ASSUME SlaveInv, Peace, NEW j \in Jobs, row[j].phase # "start", NEW n \in Allocated(j)
  PROVE  n = row[j].node
BY DEF SlaveInv, Rest, Shaped, Phased, Peace, Allocated

LEMMA NobodyMoves ==
  ASSUME SlaveInv, Peace, NEW j \in Jobs, NEW n, Asking(j, n)
  PROVE  displaced' = displaced /\ (row[j].phase # "start" => n = row[j].node)
<1>1. row[j].phase # "start" => n = row[j].node
  BY SameNode DEF Asking
<1>. QED  BY <1>1 DEF Asking, Moves

(***************************************************************************)
(* The slave has made the task the job asked for.                          *)
(***************************************************************************)
LEMMA CalmCreated ==
  ASSUME SlaveInv, SlaveInv', Peace, NEW j \in Jobs, NEW n \in Nodes, Creates(j), Active(j),
         row[j].phase # "start" => n = row[j].node,
         Creation(j, n, Kind(j)), Keep(j, Created(j, n)), UNCHANGED <<pool, placed, displaced, faults>>
  PROVE  Peace'
<1>1. Typed /\ Rest /\ row[j] \in Job /\ Phased(row[j]) /\ JobCalm(j) /\ faults <= faults'
  <2>1. Typed /\ Rest /\ row[j] \in Job /\ faults \in 0 .. MaxFaults
    BY DEF SlaveInv, Typed, Recorded, Flags
  <2>2. faults <= faults'
    BY <2>1, SlaveAssumption DEF SlaveAssumption
  <2>. QED  BY <2>1, <2>2 DEF Rest, Shaped, Peace
<1>2. PICK t : t = Created(j, n)
  OBVIOUS
<1>3. NextID(n) \in Ids /\ NextID(n) # 0
  BY DEF Creation, Ids
<1>4. /\ t.status = "active" /\ t.node = n /\ t.task = NextID(n) /\ t.zip = row[j].zip
      /\ t.tries = row[j].tries
      /\ t.phase = IF row[j].phase = "start" THEN "working" ELSE row[j].phase
  <2>1. PICK r : r = At(j, n)
    OBVIOUS
  <2>2. PICK phase : phase = IF row[j].phase = "start" THEN "working" ELSE row[j].phase
    OBVIOUS
  <2>3. r \in Job /\ r.node = n /\ r.phase = row[j].phase /\ r.zip = row[j].zip
        /\ r.status = "active" /\ r.tries = row[j].tries
    BY <1>1, <2>1, AtNode DEF Active
  <2>4. t = [r EXCEPT !.phase = phase, !.task = NextID(n)]
    BY <1>2, <2>1, <2>2, <2>3 DEF Created
  <2>. QED  BY <2>2, <2>3, <2>4 DEF Job
<1>5. row' = [row EXCEPT ![j] = t] /\ files' = files
  BY <1>2 DEF Keep
<1>6. row'[j] = t /\ \A k \in Jobs \ {j} : row'[k] = row[k]
  BY <1>1, <1>5 DEF Typed, Recorded
<1>7. Asked(j, n) /\ OwnOnly(j) /\ Onward
  BY <1>1, CreatesOwn, AskedOnward DEF Asked
<1>8. PICK new : new = Len(work) + 1
  OBVIOUS
<1>9. new # 0 /\ new \notin Works /\ \A w \in Works' : w \in Works \/ w = new
  <2>1. Len(work) \in Nat /\ Len(work') = Len(work) + 1
    BY <1>1, Numbers DEF Creation
  <2>. QED  BY <1>8, <2>1 DEF Works
<1>10. Current(j)' = new
  BY <1>3, <1>4, <1>6, <1>8 DEF Current, Creation
<1>11. /\ work'[new].kind = Kind(j) /\ work'[new].status = "queued" /\ work'[new].zip = row[j].zip
       /\ work'[new].job = j /\ \A w \in Works : work'[w] = work[w]
  BY <1>8 DEF Creation
<1>12. Awaits(j)' /\ ~Awaits(j) /\ Active(j)'
  BY <1>3, <1>4, <1>6, <1>1 DEF Awaits, Active, Creates, Phased
<1>13. JobCalm(j)'
  <2>1. Waits(j)'
    BY <1>4, <1>6, <1>9, <1>10, <1>11 DEF Waits
  <2>2. row[j].zip # 0 => row[j].phase # "start" /\ row[j].zip \in Works
    BY <1>1, Numbers DEF Phased, Active
  <2>. QED  BY <1>1, <1>4, <1>5, <1>6, <1>11, <2>1, <2>2 DEF JobCalm
<1>14. ASSUME NEW w \in Works', work'[w].job = j
       PROVE  Settled(w)'
  <2>1. CASE w = new
    BY <1>10, <1>11, <1>12, <2>1 DEF Settled, Busy
  <2>2. CASE w \in Works
    <3>1. work'[w] = work[w] /\ Settled(w) /\ w # 0 /\ w # new /\ work[w].job = j
      BY <1>1, <1>9, <1>11, <1>14, <2>2, Numbers DEF Peace
    <3>2. CASE Kept(w)
      BY <1>4, <1>6, <1>12, <3>1, <3>2 DEF Settled, Kept
    <3>3. CASE Over(w)
      <4>1. \A m \in Nodes, i \in Ids : registry'[m][i] \in {registry[m][i], new}
        BY <1>8 DEF Creation
      <4>. QED  BY <1>5, <3>1, <3>3, <4>1 DEF Settled, Over
    <3>. QED  BY <1>12, <3>1, <3>2, <3>3 DEF Settled, Busy
  <2>. QED  BY <1>9, <2>1, <2>2
<1>. QED  BY <1>1, <1>5, <1>6, <1>7, <1>13, <1>14, CalmJob

(***************************************************************************)
(* The task of the job is completed: the job goes on, or it ends.          *)
(***************************************************************************)
LEMMA CalmProceed ==
  ASSUME SlaveInv, SlaveInv', Peace, NEW j \in Jobs, NEW n \in Nodes, Awaits(j), n = row[j].node,
         NEW w \in Works, w = Current(j), work[w].status = "completed",
         Telling(n, row[j].task, ClearsOnComplete(j)), Proceeds(j, Told(j, n, w)),
         UNCHANGED <<pool, placed, displaced, faults>>
  PROVE  Peace'
<1>1. Typed /\ Rest /\ row[j] \in Job /\ Phased(row[j]) /\ JobCalm(j) /\ Mine(j) /\ faults <= faults'
      /\ j \notin displaced
  <2>1. Typed /\ Rest /\ row[j] \in Job /\ faults \in 0 .. MaxFaults
    BY DEF SlaveInv, Typed, Recorded, Flags
  <2>2. faults <= faults'
    BY <2>1, SlaveAssumption DEF SlaveAssumption
  <2>. QED  BY <2>1, <2>2 DEF Rest, Shaped, Peace
<1>2. Asked(j, n) /\ OwnOnly(j) /\ work' = work /\ Works' = Works
  <2>1. PICK clear : clear = ClearsOnComplete(j)
    OBVIOUS
  <2>2. Telling(n, row[j].task, clear)
    BY <2>1
  <2>3. Asked(j, n)
    BY <2>2 DEF Asked
  <2>4. OwnOnly(j)
    BY <1>1, <2>2, TellsOwn
  <2>. QED  BY <2>2, <2>3, <2>4 DEF Telling, Works
<1>3. row[j].node \in Nodes /\ row[j].task \in Ids /\ w # 0
  BY <1>1, Numbers DEF Phased, Awaits, Job
<1>4. work[w].job = j /\ work[w].kind = Kind(j) /\ work[w].node = n /\ work[w].id = row[j].task
  BY <1>1, <1>3 DEF Mine, Rest, Registered, Current
<1>5. PICK r : r = Told(j, n, w)
  OBVIOUS
<1>6. /\ r \in Job /\ r.node = n /\ r.phase = row[j].phase /\ r.task = row[j].task
      /\ r.status = "active" /\ r.tries = row[j].tries
      /\ r.zip = IF Compressing(j) THEN Archive(w) ELSE row[j].zip
  BY <1>5, ToldEffect DEF Awaits, Active
<1>7. row[j].phase = "working" \/ row[j].phase = "uploading"
  BY DEF Awaits
<1>8. \A v \in Works : work[v].job = j => v = w \/ Kept(v) \/ Over(v)
  BY DEF Peace, Settled, Busy
<1>9. \A v \in Works : v # 0 /\ (Over(v) => \A m \in Nodes, i \in Ids :
                           work[v].kind # "compress" => registry'[m][i] # v)
  BY <1>1, Numbers DEF Over, Telling
<1>10. ASSUME ClearsOnComplete(j), work[w].kind # "compress", files' = files
       PROVE  Over(w)'
  <2>1. w \notin files
    BY <1>10 DEF Peace, Compressed
  <2>2. ASSUME NEW m \in Nodes, NEW i \in Ids, registry'[m][i] = w PROVE FALSE
    <3>1. registry[m][i] = w
      BY <1>3, <2>2 DEF Telling
    <3>2. m = n /\ i = row[j].task
      BY <1>1, <1>3, <1>4, <3>1 DEF Rest, Registered
    <3>. QED  BY <1>3, <1>10, <2>2, <3>1, <3>2 DEF Telling, Clears
  <2>. QED  BY <1>2, <1>10, <2>1, <2>2 DEF Over
<1>11. CASE row[j].phase = "uploading"
  <2>1. PICK t : t = [r EXCEPT !.phase = "complete"]
    OBVIOUS
  <2>2. /\ t.phase = "complete" /\ t.status = "active" /\ t.zip = row[j].zip /\ t.node = row[j].node
        /\ t.tries = row[j].tries
    BY <1>6, <1>11, <2>1 DEF Job, Compressing
  <2>3. row' = [row EXCEPT ![j] = t] /\ files' = files
    BY <1>5, <1>6, <1>11, <2>1 DEF Proceeds, Keep
  <2>4. row'[j] = t /\ \A k \in Jobs \ {j} : row'[k] = row[k]
    BY <1>1, <2>3 DEF Typed, Recorded
  <2>5. Active(j)' /\ Active(j) /\ ~Awaits(j)'
    BY <2>2, <2>4 DEF Awaits, Active
  <2>6. JobCalm(j)'
    BY <1>1, <1>2, <2>2, <2>3, <2>4, <2>5 DEF JobCalm
  <2>7. ASSUME NEW v \in Works', work'[v].job = j
        PROVE  Settled(v)'
    <3>1. Kind(j) = "upload" /\ ClearsOnComplete(j)
      BY <1>11 DEF Kind, ClearsOnComplete
    <3>2. Over(w)'
      BY <1>4, <1>10, <2>3, <3>1
    <3>3. Kept(v) => Kept(v)'
      BY <1>2, <2>2, <2>4, <2>5, <2>7 DEF Kept
    <3>4. Over(v) => Over(v)'
      BY <1>2, <1>9, <2>3, <2>7 DEF Over
    <3>. QED  BY <1>2, <1>8, <2>7, <3>2, <3>3, <3>4 DEF Settled
  <2>. QED  BY <1>1, <1>2, <2>3, <2>4, <2>6, <2>7, CalmJob
<1>12. CASE row[j].phase = "working" /\ j \in Archives
  <2>1. PICK t : t = [r EXCEPT !.phase = "uploading", !.task = 0]
    OBVIOUS
  <2>2. /\ t.phase = "uploading" /\ t.status = "active" /\ t.task = 0 /\ t.zip = Archive(w)
        /\ t.node = row[j].node /\ t.tries = row[j].tries
    BY <1>6, <1>12, <2>1 DEF Job, Compressing
  <2>3. row' = [row EXCEPT ![j] = t] /\ files' = files
    BY <1>5, <1>6, <1>12, <2>1 DEF Proceeds, Keep
  <2>4. row'[j] = t /\ \A k \in Jobs \ {j} : row'[k] = row[k]
    BY <1>1, <2>3 DEF Typed, Recorded
  <2>5. Active(j)' /\ ~Awaits(j)'
    BY <2>2, <2>4 DEF Awaits, Active
  <2>6. work[w].kind = "compress" /\ Archive(w) = w
    BY <1>4, <1>12 DEF Kind, Archive
  <2>7. w \in files
    BY <1>1, <2>6 DEF JobCalm, Waits
  <2>8. JobCalm(j)'
    BY <1>1, <1>2, <1>4, <2>2, <2>3, <2>4, <2>5, <2>6, <2>7 DEF JobCalm
  <2>9. ASSUME NEW v \in Works', work'[v].job = j
        PROVE  Settled(v)'
    <3>1. Kept(w)'
      BY <1>2, <1>4, <2>2, <2>4, <2>5, <2>6 DEF Kept
    <3>2. ~Kept(v)
      BY <1>1, <1>2, <1>9, <1>12, <2>9 DEF Kept, Phased, Active
    <3>3. Over(v) => Over(v)'
      BY <1>2, <1>9, <2>3, <2>9 DEF Over
    <3>. QED  BY <1>2, <1>8, <2>9, <3>1, <3>2, <3>3 DEF Settled
  <2>. QED  BY <1>1, <1>2, <2>3, <2>4, <2>8, <2>9, CalmJob
<1>13. CASE row[j].phase = "working" /\ j \notin Archives
  <2>1. PICK t : t = [r EXCEPT !.status = "completed"]
    OBVIOUS
  <2>2. work[w].kind = "extract" /\ r.zip = 0 /\ ClearsOnComplete(j)
    BY <1>1, <1>4, <1>6, <1>13 DEF Kind, Compressing, ClearsOnComplete, Phased, Awaits, Active
  <2>3. t.status = "completed" /\ t.zip = 0 /\ t.tries = row[j].tries
    BY <1>6, <1>13, <2>1, <2>2 DEF Job
  <2>4. End(j, r, "completed") /\ Folder(r) = {}
    BY <1>5, <1>6, <1>13, <2>2 DEF Proceeds, Folder
  <2>5. row' = [row EXCEPT ![j] = t] /\ files' = files
    BY <2>1, <2>4 DEF End
  <2>6. row'[j] = t /\ \A k \in Jobs \ {j} : row'[k] = row[k]
    BY <1>1, <2>5 DEF Typed, Recorded
  <2>7. ~Active(j)' /\ ~Awaits(j)'
    BY <2>3, <2>6 DEF Awaits, Active
  <2>8. JobCalm(j)'
    BY <1>1, <2>3, <2>6, <2>7 DEF JobCalm
  <2>9. ASSUME NEW v \in Works', work'[v].job = j
        PROVE  Settled(v)'
    <3>1. Over(w)'
      BY <1>10, <2>2, <2>5
    <3>2. ~Kept(v)
      BY <1>1, <1>2, <1>9, <1>13, <2>9 DEF Kept, Phased, Active
    <3>3. Over(v) => Over(v)'
      BY <1>2, <1>9, <2>5, <2>9 DEF Over
    <3>. QED  BY <1>2, <1>8, <2>9, <3>1, <3>2, <3>3 DEF Settled
  <2>. QED  BY <1>1, <1>2, <2>5, <2>6, <2>8, <2>9, CalmJob
<1>. QED  BY <1>7, <1>11, <1>12, <1>13

(***************************************************************************)
(* The iterations of a job.                                                *)
(***************************************************************************)
LEMMA CalmRequest ==
  ASSUME SlaveInv, SlaveInv', Peace, NEW j \in Jobs, Request(j)
  PROVE  Peace'
<1>1. PICK n \in Nodes : /\ Asking(j, n) /\ Asks(j, n) /\ Uses(j, n)
                         /\ UNCHANGED <<pool, placed>> /\ NoFault
  BY DEF Request
<1>2. Typed /\ Rest /\ row[j] \in Job /\ Phased(row[j]) /\ JobCalm(j)
      /\ Active(j) /\ row[j].phase # "complete" /\ UNCHANGED faults /\ faults <= faults'
  <2>1. Typed /\ Rest /\ row[j] \in Job /\ faults \in 0 .. MaxFaults
    BY DEF SlaveInv, Typed, Recorded, Flags
  <2>2. faults <= faults'
    BY <1>1, <2>1, SlaveAssumption DEF SlaveAssumption, NoFault
  <2>. QED  BY <1>1, <2>1, <2>2 DEF Rest, Shaped, Asking, NoFault, Peace
<1>3. UNCHANGED displaced /\ (row[j].phase # "start" => n = row[j].node)
  BY <1>1, NobodyMoves
<1>4. CASE Creates(j)
  <2>1. Kind(j) \in Kinds
    BY DEF Kind, Kinds
  <2>2. Creation(j, n, Kind(j)) /\ Keep(j, Created(j, n))
    BY <1>1, <1>2, <1>4, <2>1, CreateEffect DEF Asks, Uses
  <2>. QED  BY <1>1, <1>2, <1>3, <1>4, <2>2, CalmCreated
<1>5. CASE ~Creates(j)
  <2>1. row[j].task \in Ids /\ Awaits(j) /\ n = row[j].node
    BY <1>2, <1>3, <1>5, Numbers DEF Creates, Phased, Job, Awaits
  <2>2. Telling(n, row[j].task, ClearsOnComplete(j))
    BY <1>1, <1>2, <1>5, <2>1, TellEffect DEF Asks
  <2>3. PICK w \in Works : w = Current(j) /\ w # 0
    BY <1>2, <2>1, Numbers DEF JobCalm, Waits, Current
  <2>4. registry[n][row[j].task] = w
    BY <2>1, <2>3 DEF Current
  <2>5. work[w].status \notin {"error", "gone"}
    BY DEF Peace, Sound
  <2>6. CASE work[w].status = "completed"
    <3>1. Proceeds(j, Told(j, n, w))
      BY <1>1, <1>5, <2>3, <2>4, <2>6 DEF Uses
    <3>. QED  BY <1>1, <1>2, <1>3, <2>1, <2>2, <2>3, <2>6, <3>1, CalmProceed
  <2>7. CASE work[w].status # "completed"
    <3>1. PICK t : t = Told(j, n, w)
      OBVIOUS
    <3>2. Keep(j, t)
      BY <1>1, <1>5, <2>3, <2>4, <2>5, <2>7, <3>1 DEF Uses
    <3>3. Archive(w) = 0
      BY <2>7 DEF Archive
    <3>4. /\ t.node = n /\ t.phase = row[j].phase /\ t.task = row[j].task /\ t.status = row[j].status
          /\ t.tries = row[j].tries
          /\ t.zip = IF Compressing(j) THEN Archive(w) ELSE row[j].zip
      BY <3>1, ToldEffect
    <3>5. t.zip = row[j].zip
      BY <1>2, <3>3, <3>4 DEF Phased, Active, Compressing
    <3>6. row' = [row EXCEPT ![j] = t] /\ files' = files
      BY <3>2 DEF Keep
    <3>7. ~Clears(work[w].status, ClearsOnComplete(j))
      BY <2>5, <2>7 DEF Clears
    <3>8. UNCHANGED <<nextId, work, registry>>
      BY <1>1, <1>5, <2>4, <3>7 DEF Asks, GetTask
    <3>9. t.tries <= faults'
      BY <1>2, <3>4 DEF JobCalm
    <3>. QED  BY <1>1, <1>2, <1>3, <3>4, <3>5, <3>6, <3>8, <3>9, CalmStay
  <2>. QED  BY <2>6, <2>7
<1>. QED  BY <1>4, <1>5

LEMMA CalmComplete ==
  ASSUME SlaveInv, SlaveInv', Peace, NEW j \in Jobs, Complete(j), Calm'
  PROVE  Peace'
<1>1. Typed /\ Rest /\ row[j] \in Job /\ JobCalm(j) /\ Active(j) /\ row[j].phase = "complete"
  BY DEF SlaveInv, Typed, Recorded, Rest, Shaped, Complete, Peace
<1>2. PICK n \in Allocated(j) : End(j, At(j, n), "completed") /\ NoFault
  BY DEF Complete, Calm, Fault
<1>3. n \in Nodes /\ n = row[j].node
  BY <1>1, Nodesof, SameNode
<1>4. PICK r : r = At(j, n)
  OBVIOUS
<1>5. r \in Job /\ r.node = n /\ r.zip = row[j].zip /\ r.tries = row[j].tries
  BY <1>1, <1>3, <1>4, AtNode
<1>6. PICK t : t = [r EXCEPT !.status = "completed"]
  OBVIOUS
<1>7. t.status = "completed" /\ t.tries = row[j].tries
  BY <1>5, <1>6 DEF Job
<1>8. row' = [row EXCEPT ![j] = t] /\ files' = files \ Folder(r)
  BY <1>2, <1>4, <1>6 DEF End
<1>9. row'[j] = t /\ \A k \in Jobs \ {j} : row'[k] = row[k]
  BY <1>1, <1>8 DEF Typed, Recorded
<1>10. Folder(r) = IF row[j].zip = 0 THEN {} ELSE {row[j].zip}
  <2>1. CASE row[j].zip = 0
    BY <1>5, <2>1 DEF Folder
  <2>2. CASE row[j].zip # 0
    <3>1. row[j].zip \in files /\ work[row[j].zip].node = n /\ files \subseteq Works
      BY <1>1, <1>3, <2>2 DEF JobCalm, Typed, Flags
    <3>2. \A f \in files : work[f].node = n /\ work[f].id = work[row[j].zip].id => f = row[j].zip
      BY <3>1 DEF Peace, Apart
    <3>3. Folder(r) = {f \in files : work[f].node = n /\ work[f].id = work[row[j].zip].id}
      BY <1>5, <2>2 DEF Folder
    <3>. QED  BY <2>2, <3>1, <3>2, <3>3
  <2>. QED  BY <2>1, <2>2
<1>11. UNCHANGED <<pool, nextId, registry, work, placed, displaced>> /\ faults' = faults
  BY <1>2 DEF Complete, NoFault
<1>12. faults <= faults'
  BY <1>1, <1>11, SlaveAssumption DEF SlaveAssumption, Typed, Flags
<1>13. Asked(j, n) /\ OwnOnly(j) /\ Works' = Works
  BY <1>11 DEF Asked, OwnOnly, Works
<1>14. files' \subseteq files /\ \A f \in files : f \notin files' => work[f].job = j
  BY <1>1, <1>8, <1>10 DEF JobCalm
<1>15. ~Active(j)' /\ ~Awaits(j) /\ ~Awaits(j)'
  BY <1>1, <1>7, <1>9 DEF Active, Awaits
<1>16. JobCalm(j)'
  BY <1>1, <1>7, <1>9, <1>11, <1>15 DEF JobCalm
<1>17. ASSUME NEW w \in Works', work'[w].job = j
       PROVE  Settled(w)'
  <2>1. Settled(w) /\ ~Busy(w) /\ work[w].job = j /\ w # 0
    BY <1>1, <1>11, <1>13, <1>15, <1>17, Numbers DEF Peace, Busy
  <2>2. CASE Kept(w)
    <3>1. w \notin files'
      BY <1>8, <1>10, <2>1, <2>2 DEF Kept
    <3>. QED  BY <1>11, <2>2, <3>1 DEF Settled, Kept, Over
  <2>3. CASE Over(w)
    BY <1>11, <1>14, <2>3 DEF Settled, Over
  <2>. QED  BY <2>1, <2>2, <2>3 DEF Settled
<1>. QED  BY <1>3, <1>9, <1>11, <1>12, <1>13, <1>14, <1>16, <1>17, CalmJob

LEMMA CalmUnreachable ==
  ASSUME SlaveInv, SlaveInv', Peace, NEW j \in Jobs, Unreachable(j), Calm'
  PROVE  Peace'
<1>1. PICK n \in Nodes : /\ Asking(j, n)
                         /\ Fault("unreachable") /\ Retry(j, At(j, n))
                         /\ UNCHANGED <<pool, nextId, registry, work, placed>>
  BY DEF Unreachable
<1>2. Typed /\ row[j] \in Job /\ JobCalm(j) /\ row[j].tries \in Nat /\ faults \in Nat
      /\ faults' = faults + 1 /\ faults' <= MaxRetry
  <2>1. Typed /\ row[j] \in Job /\ JobCalm(j)
    BY DEF SlaveInv, Typed, Recorded, Peace
  <2>2. row[j].tries \in Nat /\ faults \in Nat
    BY <2>1, SlaveAssumption DEF SlaveAssumption, Typed, Flags, Job
  <2>. QED  BY <1>1, <2>1, <2>2 DEF Fault, Calm
<1>3. UNCHANGED displaced /\ (row[j].phase # "start" => n = row[j].node)
  BY <1>1, NobodyMoves
<1>4. PICK r : r = At(j, n)
  OBVIOUS
<1>5. /\ r \in Job /\ r.node = n /\ r.phase = row[j].phase /\ r.task = row[j].task
      /\ r.zip = row[j].zip /\ r.status = row[j].status /\ r.tries = row[j].tries
  BY <1>2, <1>4, AtNode
<1>6. r.tries < MaxRetry /\ r.tries + 1 <= faults' /\ faults <= faults'
  BY <1>2, <1>5, SlaveAssumption DEF SlaveAssumption, JobCalm
<1>7. PICK t : t = [r EXCEPT !.tries = @ + 1]
  OBVIOUS
<1>8. /\ t.node = n /\ t.phase = row[j].phase /\ t.task = row[j].task
      /\ t.zip = row[j].zip /\ t.status = row[j].status /\ t.tries = r.tries + 1
  BY <1>5, <1>7 DEF Job
<1>9. row' = [row EXCEPT ![j] = t] /\ files' = files
  BY <1>1, <1>4, <1>6, <1>7 DEF Retry, Keep
<1>. QED  BY <1>1, <1>3, <1>6, <1>8, <1>9, CalmStay

(***************************************************************************)
(* The slave goes on with a task.                                          *)
(***************************************************************************)
LEMMA CalmSlave ==
  ASSUME SlaveInv, Peace, NEW w \in Works, Busy(w), NEW st \in {"processing", "completed"},
         work' = [work EXCEPT ![w].status = st], placed \subseteq placed',
         UNCHANGED <<row, pool, nextId, registry, displaced, faults>>,
         files' = IF work[w].kind = "compress" /\ st = "processing" THEN files \cup {w} ELSE files,
         st = "completed" => work[w].status # "queued"
  PROVE  Peace'
<1>1. Typed /\ Rest
  BY DEF SlaveInv
<1>2. /\ Onward /\ Len(work') = Len(work)
      /\ \A v \in Works : work'[v].status = IF v = w THEN st ELSE work[v].status
  <2>1. st \in {"queued", "processing", "completed", "error", "gone"} /\ displaced' = displaced
    OBVIOUS
  <2>. QED  BY <1>1, <2>1, StatusEffect
<1>3. /\ Works' = Works /\ files \subseteq files' /\ files' \subseteq Works
      /\ \A f \in files' : f \in files \/ (f = w /\ work[w].kind = "compress")
  BY <1>1, <1>2 DEF Works, Typed, Flags
<1>4. /\ \A v \in Works : /\ work'[v].job = work[v].job /\ work'[v].kind = work[v].kind
                          /\ work'[v].node = work[v].node /\ work'[v].id = work[v].id
                          /\ work'[v].zip = work[v].zip
      /\ \A j \in Jobs : Awaits(j)' = Awaits(j) /\ Current(j)' = Current(j) /\ Active(j)' = Active(j)
  BY <1>2 DEF Onward, Awaits, Active, Current
<1>5. ASSUME NEW j \in Jobs
      PROVE  JobCalm(j)'
  <2>1. JobCalm(j) /\ (row[j].zip # 0 => row[j].zip \in Works)
    BY <1>1, Numbers DEF Peace
  <2>2. ASSUME Awaits(j) PROVE Waits(j)'
    <3>1. Waits(j) /\ Current(j) \in Works
      <4>1. row[j].node \in Nodes /\ row[j].task \in Ids
        BY <1>1, <2>2, Numbers DEF Rest, Shaped, Phased, Awaits, Typed, Recorded, Job
      <4>. QED  BY <1>1, <2>1, <2>2, <4>1, Numbers DEF JobCalm, Waits, Current
    <3>2. CASE Current(j) = w
      <4>1. work[w].kind = "compress" => w \in files'
        BY <3>1, <3>2 DEF Waits
      <4>. QED  BY <1>4, <3>1, <3>2, <4>1 DEF Waits
    <3>3. CASE Current(j) # w
      BY <1>2, <1>3, <1>4, <3>1, <3>3 DEF Waits
    <3>. QED  BY <3>2, <3>3
  <2>. QED  BY <1>3, <1>4, <2>1, <2>2 DEF JobCalm
<1>6. ASSUME NEW v \in Works
      PROVE  Sound(v)' /\ Settled(v)'
  <2>1. Sound(v) /\ Settled(v) /\ work[v].job \in Jobs
    BY <1>1, Numbers DEF Peace, Work
  <2>2. Sound(v)'
    BY <1>2, <1>4, <2>1 DEF Sound
  <2>3. CASE v = w \/ Busy(v)
    BY <1>4, <2>1, <2>2, <2>3 DEF Settled, Busy
  <2>4. CASE v # w /\ Kept(v)
    BY <1>2, <1>4, <2>1, <2>2, <2>4 DEF Settled, Kept
  <2>5. CASE v # w /\ Over(v)
    BY <1>2, <1>3, <1>4, <2>2, <2>5 DEF Settled, Over
  <2>. QED  BY <2>1, <2>2, <2>3, <2>4, <2>5 DEF Settled
<1>7. Apart' /\ Compressed'
  BY <1>1, <1>3, <1>4 DEF Peace, Apart, Compressed, Typed, Flags
<1>. QED  BY <1>3, <1>5, <1>6, <1>7 DEF Peace

LEMMA CalmBegins ==
  ASSUME SlaveInv, Peace, NEW w \in Works, SlaveBegins(w)
  PROVE  Peace'
<1>1. Busy(w)
  BY DEF SlaveBegins, Peace, Settled, Kept, Over
<1>. QED  BY <1>1, CalmSlave DEF SlaveBegins

LEMMA CalmEnds ==
  ASSUME SlaveInv, Peace, NEW w \in Works, SlaveEnds(w)
  PROVE  Peace'
<1>1. Busy(w)
  BY DEF SlaveEnds, Peace, Settled, Kept, Over
<1>2. Typed /\ Rest
  BY DEF SlaveInv
<1>3. work[w].kind = "upload" => CanOpen(w)
  <2>. SUFFICES ASSUME work[w].kind = "upload" PROVE CanOpen(w)
    OBVIOUS
  <2>1. PICK j \in Jobs : j = work[w].job /\ Awaits(j) /\ Current(j) = w
    BY <1>1, <1>2, Numbers DEF Busy, Work
  <2>2. JobCalm(j) /\ Mine(j) /\ w # 0
    BY <1>2, <2>1, Numbers DEF Peace, Rest
  <2>3. row[j].zip # 0 /\ work[w].zip = row[j].zip
    BY <2>1, <2>2 DEF Mine, Kind, JobCalm, Waits
  <2>4. work[w].zip \in files /\ work[work[w].zip].node = row[j].node
    BY <2>1, <2>2, <2>3 DEF JobCalm, Awaits
  <2>5. row[j].node \in Nodes /\ row[j].task \in Ids
    BY <1>2, <2>1, Numbers DEF Rest, Shaped, Phased, Awaits, Typed, Recorded, Job
  <2>6. work[w].node = row[j].node
    BY <1>2, <2>1, <2>2, <2>5 DEF Rest, Registered, Current
  <2>. QED  BY <2>4, <2>6 DEF CanOpen
<1>4. /\ work' = [work EXCEPT ![w].status = "completed"] /\ placed \subseteq placed' /\ files' = files
      /\ work[w].status = "processing"
      /\ UNCHANGED <<row, pool, nextId, registry, displaced, faults>>
  BY <1>3 DEF SlaveEnds
<1>5. PICK st : st = "completed"
  OBVIOUS
<1>. QED  BY <1>1, <1>4, CalmSlave

(***************************************************************************)
(* What has gone wrong stays so.                                           *)
(***************************************************************************)
LEMMA MishapsStay ==
  ASSUME Next
  PROVE  \/ mishaps' = mishaps /\ faults' = faults
         \/ mishaps \subseteq mishaps' /\ mishaps' # {} /\ faults' = faults + 1
<1>1. ASSUME NEW what, Fault(what)
      PROVE  mishaps \subseteq mishaps' /\ mishaps' # {} /\ faults' = faults + 1
  BY <1>1 DEF Fault
<1>2. NoFault => mishaps' = mishaps /\ faults' = faults
  BY DEF NoFault
<1>3. ASSUME NEW j \in Jobs, Iteration(j) \/ Unreachable(j) \/ AnswerLost(j)
      PROVE  NoFault \/ \E what : Fault(what)
  BY <1>3 DEF Iteration, Request, Complete, NoneAvailable, MasterRefuses, Unreachable,
               AnswerLost
<1>4. ASSUME NEW w, SlaveWorks(w)
      PROVE  NoFault
  BY <1>4 DEF SlaveWorks, SlaveBegins, SlaveEnds, NoFault
<1>5. ASSUME NEW w, SlaveFails(w)
      PROVE  \E what : Fault(what)
  BY <1>5 DEF SlaveFails
<1>6. ASSUME NEW n, SlaveRestarts(n) \/ Upsert(n)
      PROVE  \E what : Fault(what)
  BY <1>6 DEF SlaveRestarts, Upsert
<1>. QED  BY <1>1, <1>2, <1>3, <1>4, <1>5, <1>6 DEF Next

LEMMA OnceCalm ==
  ASSUME Typed, Next, Calm'
  PROVE  Calm
<1>1. faults \in Nat
  BY SlaveAssumption DEF SlaveAssumption, Typed, Flags
<1>2. mishaps \subseteq mishaps' /\ (faults' = faults \/ faults' = faults + 1)
  BY MishapsStay
<1>3. mishaps' \subseteq {"unreachable"} /\ faults' <= MaxRetry
  BY DEF Calm
<1>4. faults <= MaxRetry
  BY <1>1, <1>2, <1>3, SlaveAssumption DEF SlaveAssumption
<1>. QED  BY <1>2, <1>3, <1>4 DEF Calm

LEMMA CalmNext ==
  ASSUME SlaveInv, SlaveInv', CalmInv, Next
  PROVE  CalmInv'
<1>. SUFFICES ASSUME Calm' PROVE Peace'
  BY DEF CalmInv
<1>1. Peace
  BY OnceCalm DEF CalmInv, SlaveInv
<1>2. ASSUME NEW what, Fault(what) PROVE what = "unreachable"
  BY <1>2 DEF Fault, Calm
<1>3. CASE \E j \in Jobs : Request(j)
  BY <1>1, <1>3, CalmRequest
<1>4. CASE \E j \in Jobs : Complete(j)
  BY <1>1, <1>4, CalmComplete
<1>5. CASE \E j \in Jobs : NoneAvailable(j)
  BY <1>1, <1>5, SlaveAssumption DEF SlaveAssumption, Peace, NoneAvailable
<1>6. CASE \E j \in Jobs : Unreachable(j)
  BY <1>1, <1>6, CalmUnreachable
<1>7. CASE \E j \in Jobs : AnswerLost(j)
  BY <1>2, <1>7 DEF AnswerLost
<1>8. CASE \E w \in Ids : SlaveWorks(w)
  BY <1>1, <1>8, CalmBegins, CalmEnds DEF SlaveWorks
<1>9. CASE \E w \in Works : SlaveFails(w)
  BY <1>2, <1>9 DEF SlaveFails
<1>10. CASE \E n \in Nodes : SlaveRestarts(n) \/ Upsert(n)
  BY <1>2, <1>10 DEF SlaveRestarts, Upsert
<1>11. CASE \E j \in Jobs : MasterRefuses(j)
  BY <1>1, <1>11 DEF MasterRefuses, Peace, SlaveInv, Rest, Shaped, Phased
<1>. QED  BY <1>3, <1>4, <1>5, <1>6, <1>7, <1>8, <1>9, <1>10, <1>11 DEF Next, Iteration

NoneYet == mishaps = {} => faults = 0

LEMMA CalmInvariant == Spec => [](SlaveInv /\ CalmInv /\ NoneYet)
<1>1. Init => CalmInv /\ NoneYet
  BY InitCalm DEF Init, NoneYet
<1>2. ASSUME SlaveInv, SlaveInv', CalmInv, NoneYet, [Next]_vars
      PROVE  CalmInv' /\ NoneYet'
  <2>1. CASE UNCHANGED vars
    <3>1. UNCHANGED <<row, pool, nextId, registry, work, files, placed, displaced, mishaps, faults>>
      BY <2>1 DEF vars
    <3>2. Works' = Works
      BY <3>1 DEF Works
    <3>3. \A j \in Jobs : JobCalm(j) => JobCalm(j)'
      BY <3>1 DEF JobCalm, Waits, Awaits, Active, Current
    <3>4. \A w \in Works : (Sound(w) => Sound(w)') /\ (Settled(w) => Settled(w)')
      BY <3>1 DEF Sound, Settled, Busy, Kept, Over, Awaits, Active, Current
    <3>5. (Apart => Apart') /\ (Compressed => Compressed')
      BY <3>1, <3>2 DEF Apart, Compressed
    <3>6. Peace => Peace'
      BY <3>1, <3>2, <3>3, <3>4, <3>5 DEF Peace
    <3>. QED  BY <1>2, <3>1, <3>6 DEF CalmInv, Calm, NoneYet
  <2>2. CASE Next
    BY <1>2, <2>2, CalmNext, MishapsStay DEF NoneYet
  <2>. QED  BY <1>2, <2>1, <2>2
<1>. QED  BY <1>1, <1>2, SlaveInvariant, PTL DEF Spec

(***************************************************************************)
(* Jobs that share slaves do one another no harm: as long as slaves are at *)
(* worst out of reach, and not more often than a job is retried, no job    *)
(* fails; and when all have ended after nothing went wrong at all, the     *)
(* slaves hold no archive and no task but compressions.                    *)
(***************************************************************************)
THEOREM JobsDoNoHarm == Spec => []HarmlessWithoutFaults
<1>1. ASSUME SlaveInv, CalmInv, NoneYet
      PROVE  HarmlessWithoutFaults
  <2>1. FailureHasCause
    BY <1>1 DEF CalmInv, Calm, Peace, JobCalm, FailureHasCause
  <2>2. ASSUME mishaps = {}, \A j \in Jobs : ~Active(j)
        PROVE  /\ files = {}
               /\ \A n \in Nodes, i \in Ids :
                     registry[n][i] # 0 => work[registry[n][i]].kind = "compress"
    <3>1. Peace /\ Typed
      BY <1>1, <2>2, SlaveAssumption DEF SlaveAssumption, CalmInv, Calm, NoneYet, SlaveInv
    <3>2. \A w \in Works : work[w].job \in Jobs
      BY <3>1, Numbers DEF Work
    <3>3. \A w \in Works : Over(w)
      BY <2>2, <3>1, <3>2 DEF Peace, Settled, Busy, Kept, Awaits
    <3>4. files = {}
      BY <3>1, <3>3 DEF Over, Typed, Flags
    <3>5. \A n \in Nodes, i \in Ids : registry[n][i] # 0 => registry[n][i] \in Works
      BY <3>1, Numbers
    <3>. QED  BY <3>3, <3>4, <3>5 DEF Over
  <2>. QED  BY <2>1, <2>2 DEF HarmlessWithoutFaults, EndedLeavesNothing
<1>. QED  BY <1>1, CalmInvariant, PTL

====
