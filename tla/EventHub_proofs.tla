-------------------------- MODULE EventHub_proofs --------------------------
(***************************************************************************)
(* Proofs about the event feed, for any files, folders, clients, streams,  *)
(* connections and bounds.                                                 *)
(***************************************************************************)
EXTENDS EventHub, FiniteSetTheorems, SequenceTheorems, TLAPS

(***************************************************************************)
(* A set of numbers that is not empty has a least one, and a greatest one  *)
(* if it is finite.                                                        *)
(***************************************************************************)
LEMMA SmallestSet ==
  ASSUME NEW S, IsFiniteSet(S), NEW K, K \subseteq SUBSET S, K # {}
  PROVE  \E T \in K : \A U \in K : U \subseteq T => U = T
<1>1. IsWellFoundedOn(StrictSubsetOrdering(S), FiniteSubsetsOf(S)) /\ FiniteSubsetsOf(S) = SUBSET S
  BY FS_StrictSubsetOrderingWellFounded, FS_FiniteSubsetsOfFinite
<1>2. PICK T \in K : \A U \in K : ~ (<<U, T>> \in StrictSubsetOrdering(S))
  BY <1>1, WFMin
<1>. QED  BY <1>2 DEF StrictSubsetOrdering

LEMMA GreatestExists ==
  ASSUME NEW S, IsFiniteSet(S), S \subseteq Nat, S # {}
  PROVE  Max(S) \in S /\ \A y \in S : Max(S) >= y
<1>1. PICK Bad : Bad = {T \in SUBSET S : T # {} /\ ~\E x \in T : \A y \in T : x >= y}
  OBVIOUS
<1>2. ASSUME Bad # {} PROVE FALSE
  <2>1. Bad \subseteq SUBSET S /\ IsFiniteSet(S)
    BY <1>1
  <2>2. PICK T \in Bad : \A U \in Bad : U \subseteq T => U = T
    BY ONLY <1>2, <2>1, SmallestSet
  <2>3. PICK x \in T : TRUE
    BY <1>1
  <2>4. T \ {x} \notin Bad /\ T \ {x} \in SUBSET S
    BY <1>1, <2>2, <2>3
  <2>5. CASE T \ {x} = {}
    BY <1>1, <2>3, <2>5
  <2>6. CASE T \ {x} # {}
    <3>1. PICK z \in T \ {x} : \A y \in T \ {x} : z >= y
      BY <1>1, <2>4, <2>6
    <3>2. x \in Nat /\ z \in Nat /\ \A y \in T : y \in Nat
      BY <1>1
    <3>3. (\A y \in T : z >= y) \/ (\A y \in T : x >= y)
      BY <3>1, <3>2
    <3>. QED  BY <1>1, <2>3, <3>1, <3>3
  <2>. QED  BY <2>5, <2>6
<1>3. S \notin Bad
  BY <1>2
<1>4. \E x \in S : \A y \in S : x >= y
  BY <1>1, <1>3
<1>. QED  BY <1>4, Zenon DEF Max

LEMMA LeastExists ==
  ASSUME NEW n \in Nat, NEW S, S \subseteq 0 .. n, S # {}
  PROVE  \E x \in S : \A y \in S : x <= y
<1>1. PICK T : T = {n - x : x \in S}
  OBVIOUS
<1>2. T \subseteq 0 .. n /\ T # {}
  <2>1. \A x \in 0 .. n : n - x \in 0 .. n
    OBVIOUS
  <2>2. \A x \in S : n - x \in 0 .. n
    BY <2>1
  <2>. QED  BY <1>1, <2>2
<1>3. IsFiniteSet(T)
  <2>1. IsFiniteSet(0 .. n)
    BY FS_Interval
  <2>. QED  BY <1>2, <2>1, FS_Subset
<1>4. T \subseteq Nat
  BY <1>2
<1>5. PICK m \in T : \A y \in T : m >= y
  BY <1>2, <1>3, <1>4, GreatestExists
<1>6. PICK x \in S : m = n - x
  BY <1>1
<1>7. \A y \in S : n - x >= n - y
  BY <1>1, <1>5, <1>6
<1>. QED  BY <1>7

-----------------------------------------------------------------------------
(***************************************************************************)
(* Events, and the merging of a list of them.                              *)
(***************************************************************************)
Proper == {e \in Event : e.type = "rename" => e.to \in Names}

LEMMA FoldProper ==
  ASSUME NEW state \in Proper, NEW e \in Proper
  PROVE  Fold(state, e) \in Proper \cup {None}
<1>1. [state EXCEPT !.from = e.to, !.to = None] \in Proper
      \/ ~(e.type = "rename" /\ state.type = "create")
  BY DEF Proper, Event
<1>2. [state EXCEPT !.to = e.to] \in Proper \/ ~(e.type = "rename" /\ state.type = "rename")
  BY DEF Proper, Event
<1>. QED  BY <1>1, <1>2 DEF Fold

LEMMA RemoveProper ==
  ASSUME NEW S, NEW s \in Seq(S), NEW i \in 1 .. Len(s)
  PROVE  /\ RemoveAt(s, i) \in Seq(S)
         /\ Len(RemoveAt(s, i)) = Len(s) - 1
         /\ \A j \in 1 .. Len(s) - 1 : RemoveAt(s, i)[j] = IF j < i THEN s[j] ELSE s[j + 1]
<1>0. Len(s) \in Nat /\ \A j \in 1 .. Len(s) : s[j] \in S
  BY LenProperties
<1>1. /\ SubSeq(s, 1, i - 1) \in Seq(S) /\ Len(SubSeq(s, 1, i - 1)) = i - 1
      /\ \A j \in 1 .. i - 1 : SubSeq(s, 1, i - 1)[j] = s[j]
  <2>1. i - 1 \in Int /\ 1 \in Int /\ \A j \in 1 .. i - 1 : s[j] \in S
    BY <1>0
  <2>2. /\ SubSeq(s, 1, i - 1) \in Seq(S)
        /\ Len(SubSeq(s, 1, i - 1)) = IF 1 <= i - 1 THEN (i - 1) - 1 + 1 ELSE 0
        /\ \A j \in 1 .. (i - 1) - 1 + 1 : SubSeq(s, 1, i - 1)[j] = s[1 + j - 1]
    BY ONLY <2>1, SubSeqProperties
  <2>3. \A j \in 1 .. i - 1 : 1 + j - 1 = j
    OBVIOUS
  <2>. QED  BY <1>0, <2>2, <2>3
<1>2. /\ SubSeq(s, i + 1, Len(s)) \in Seq(S) /\ Len(SubSeq(s, i + 1, Len(s))) = Len(s) - i
      /\ \A j \in 1 .. Len(s) - i : SubSeq(s, i + 1, Len(s))[j] = s[i + j]
  <2>1. i + 1 \in Int /\ Len(s) \in Int /\ \A j \in i + 1 .. Len(s) : s[j] \in S
    BY <1>0
  <2>2. /\ SubSeq(s, i + 1, Len(s)) \in Seq(S)
        /\ Len(SubSeq(s, i + 1, Len(s))) = IF i + 1 <= Len(s) THEN Len(s) - (i + 1) + 1 ELSE 0
        /\ \A j \in 1 .. Len(s) - (i + 1) + 1 : SubSeq(s, i + 1, Len(s))[j] = s[i + 1 + j - 1]
    BY ONLY <2>1, SubSeqProperties
  <2>3. \A j \in Int : i + 1 + j - 1 = i + j
    OBVIOUS
  <2>. QED  BY <1>0, <2>2, <2>3
<1>3. PICK a \in Seq(S), b \in Seq(S) : a = SubSeq(s, 1, i - 1) /\ b = SubSeq(s, i + 1, Len(s))
  BY <1>1, <1>2
<1>4. RemoveAt(s, i) = a \o b
  BY <1>3 DEF RemoveAt
<1>5. /\ a \o b \in Seq(S) /\ Len(a \o b) = Len(a) + Len(b)
      /\ \A j \in 1 .. Len(a) + Len(b) : (a \o b)[j] = IF j <= Len(a) THEN a[j] ELSE b[j - Len(a)]
  BY ConcatProperties
<1>6. Len(a) = i - 1 /\ Len(b) = Len(s) - i
  BY <1>1, <1>2, <1>3
<1>7. ASSUME NEW j \in 1 .. Len(s) - 1 PROVE (a \o b)[j] = IF j < i THEN s[j] ELSE s[j + 1]
  <2>1. CASE j < i
    <3>1. j <= Len(a) /\ j \in 1 .. i - 1 /\ j \in 1 .. Len(a) + Len(b)
      BY <1>0, <1>6, <2>1
    <3>2. a[j] = s[j]
      BY <1>1, <1>3, <3>1
    <3>3. (a \o b)[j] = a[j]
      BY <1>5, <3>1
    <3>. QED  BY <2>1, <3>2, <3>3
  <2>2. CASE ~(j < i)
    <3>0. j \in 1 .. Len(a) + Len(b) /\ ~(j <= Len(a)) /\ j - Len(a) = j - (i - 1)
      BY <1>0, <1>6, <2>2
    <3>1. (a \o b)[j] = b[j - (i - 1)]
      BY <1>5, <3>0
    <3>2. j - (i - 1) \in 1 .. Len(s) - i /\ i + (j - (i - 1)) = j + 1
      BY <1>0, <2>2
    <3>3. b[j - (i - 1)] = s[j + 1]
      BY <1>2, <1>3, <3>2
    <3>. QED  BY <2>2, <3>1, <3>3
  <2>. QED  BY <2>1, <2>2
<1>. QED  BY <1>0, <1>4, <1>5, <1>6, <1>7

LEMMA MergeProper ==
  ASSUME NEW states \in Seq(Proper), NEW e \in Proper
  PROVE  Merge(states, e) \in Seq(Proper)
<1>1. PICK known : known = {i \in DOMAIN states : states[i].file = e.file}
  OBVIOUS
<1>2. CASE known = {}
  BY <1>1, <1>2, AppendProperties DEF Merge
<1>3. CASE known # {}
  <2>1. PICK i : i = CHOOSE j \in known : TRUE
    OBVIOUS
  <2>2. i \in 1 .. Len(states) /\ states[i] \in Proper
    BY <1>1, <1>3, <2>1, LenProperties
  <2>3. Merge(states, e) = IF Fold(states[i], e) = None THEN RemoveAt(states, i)
                           ELSE [states EXCEPT ![i] = Fold(states[i], e)]
    BY <1>1, <1>3, <2>1 DEF Merge
  <2>4. RemoveAt(states, i) \in Seq(Proper)
    BY <2>2, RemoveProper
  <2>5. Fold(states[i], e) # None => [states EXCEPT ![i] = Fold(states[i], e)] \in Seq(Proper)
    <3>1. Fold(states[i], e) \in Proper \cup {None}
      BY <2>2, FoldProper
    <3>. QED  BY <2>2, <3>1, ExceptSeq
  <2>. QED  BY <2>3, <2>4, <2>5
<1>. QED  BY <1>2, <1>3

(***************************************************************************)
(* The fold of the events, one by one.                                     *)
(***************************************************************************)
MergeStep(g, in, s) == IF s = {} THEN <<>> ELSE Merge(g[s \ {Max(s)}], in[Max(s)])
Folds(g, in) == g = [s \in SUBSET DOMAIN in |-> MergeStep(g, in, s)]

LEMMA DebounceDef ==
  ASSUME NEW in
  PROVE  DebounceEvents(in) = (CHOOSE g : Folds(g, in))[DOMAIN in]
BY Zenon DEF DebounceEvents, FoldLeft, MapThenFoldSet, Folds, MergeStep

LEMMA FoldsExists ==
  ASSUME NEW in \in Seq(Proper)
  PROVE  \E g : Folds(g, in)
<1>0. PICK n \in Nat : n = Len(in) /\ DOMAIN in = 1 .. n
  BY LenProperties
<1>1. \A s \in SUBSET (1 .. n) : s # {} => Max(s) \in s /\ Max(s) \in 1 .. n /\ \A y \in s : Max(s) >= y
  <2>. SUFFICES ASSUME NEW s \in SUBSET (1 .. n), s # {}
       PROVE  Max(s) \in s /\ \A y \in s : Max(s) >= y
    OBVIOUS
  <2>1. IsFiniteSet(1 .. n)
    BY FS_Interval
  <2>2. IsFiniteSet(s)
    BY <2>1, FS_Subset
  <2>3. s \subseteq Nat
    OBVIOUS
  <2>. QED  BY <2>2, <2>3, GreatestExists
<1>2. PICK Good : Good = {m \in 0 .. n :
         \E g : /\ g \in [SUBSET (1 .. n) -> Seq(Proper)]
                /\ \A s \in SUBSET (1 .. m) : g[s] = MergeStep(g, in, s)}
  OBVIOUS
<1>3. 0 \in Good
  <2>1. PICK g : g = [s \in SUBSET (1 .. n) |-> <<>>]
    OBVIOUS
  <2>2. g \in [SUBSET (1 .. n) -> Seq(Proper)]
    BY <2>1, EmptySeq
  <2>3. \A s \in SUBSET (1 .. 0) : s = {} /\ s \in SUBSET (1 .. n)
    OBVIOUS
  <2>4. \A s \in SUBSET (1 .. 0) : g[s] = MergeStep(g, in, s)
    BY <2>1, <2>3 DEF MergeStep
  <2>5. 0 \in 0 .. n
    OBVIOUS
  <2>. QED  BY <1>2, <2>2, <2>4, <2>5
<1>4. ASSUME NEW m \in Good, m < n
      PROVE  m + 1 \in Good
  <2>0. m \in 0 .. n /\ m \in Nat /\ m + 1 \in 0 .. n
    BY <1>2, <1>4
  <2>1. PICK g : /\ g \in [SUBSET (1 .. n) -> Seq(Proper)]
                 /\ \A s \in SUBSET (1 .. m) : g[s] = MergeStep(g, in, s)
    BY <1>2
  <2>2. PICK h : h = [s \in SUBSET (1 .. n) |-> MergeStep(g, in, s)]
    OBVIOUS
  <2>3. \A s \in SUBSET (1 .. n) : MergeStep(g, in, s) \in Seq(Proper)
    <3>. SUFFICES ASSUME NEW s \in SUBSET (1 .. n), s # {}
         PROVE  Merge(g[s \ {Max(s)}], in[Max(s)]) \in Seq(Proper)
      BY EmptySeq DEF MergeStep
    <3>1. in[Max(s)] \in Proper
      BY <1>0, <1>1, LenProperties
    <3>2. g[s \ {Max(s)}] \in Seq(Proper)
      BY <2>1
    <3>. QED  BY <3>1, <3>2, MergeProper
  <2>4. h \in [SUBSET (1 .. n) -> Seq(Proper)]
    BY <2>2, <2>3
  <2>5. ASSUME NEW s \in SUBSET (1 .. m + 1)
        PROVE  h[s] = MergeStep(h, in, s)
    <3>1. s \in SUBSET (1 .. n)
      BY <2>0
    <3>2. h[s] = MergeStep(g, in, s)
      BY <2>2, <3>1
    <3>3. CASE s = {}
      BY <3>2, <3>3 DEF MergeStep
    <3>4. CASE s # {}
      <4>1. PICK x \in s : x = Max(s) /\ \A y \in s : x >= y
        BY <1>1, <3>1, <3>4
      <4>2. s \ {x} \in SUBSET (1 .. m) /\ s \ {x} \in SUBSET (1 .. n)
        <5>1. \A y \in s \ {x} : y \in 1 .. m
          BY <2>0, <2>5, <4>1
        <5>. QED  BY <3>1, <5>1
      <4>3. h[s \ {x}] = g[s \ {x}]
        BY <2>1, <2>2, <4>2
      <4>. QED  BY <3>2, <3>4, <4>1, <4>3 DEF MergeStep
    <3>. QED  BY <3>3, <3>4
  <2>. QED  BY <1>2, <2>0, <2>4, <2>5
<1>5. n \in Good
  <2>. SUFFICES ASSUME n \notin Good PROVE FALSE
    OBVIOUS
  <2>1. PICK Bad : Bad = (0 .. n) \ Good
    OBVIOUS
  <2>2. PICK m \in Bad : \A y \in Bad : m <= y
    <3>1. Bad \subseteq 0 .. n /\ Bad # {} /\ n \in Nat
      BY <2>1
    <3>. QED  BY ONLY <3>1, LeastExists
  <2>3. m \in 0 .. n /\ m # 0 /\ m - 1 \in 0 .. n /\ m - 1 < n
    BY <1>3, <2>1, <2>2
  <2>4. m - 1 \notin Bad
    BY <2>2, <2>3
  <2>5. m - 1 \in Good
    BY <2>1, <2>3, <2>4
  <2>6. (m - 1) + 1 \in Good
    BY <1>4, <2>3, <2>5
  <2>7. (m - 1) + 1 = m
    BY <2>3
  <2>. QED  BY <2>1, <2>2, <2>6, <2>7
<1>6. PICK g : /\ g \in [SUBSET (1 .. n) -> Seq(Proper)]
               /\ \A s \in SUBSET (1 .. n) : g[s] = MergeStep(g, in, s)
  BY <1>2, <1>5
<1>. QED  BY <1>0, <1>6 DEF Folds

(***************************************************************************)
(* What has been merged after each event of a list.                        *)
(***************************************************************************)
Merges(in, p) ==
  /\ p \in [0 .. Len(in) -> Seq(Proper)]
  /\ p[0] = <<>> /\ p[Len(in)] = DebounceEvents(in)
  /\ \A n \in 1 .. Len(in) : p[n] = Merge(p[n - 1], in[n])

LEMMA DebounceMerges ==
  ASSUME NEW in \in Seq(Proper)
  PROVE  \E p : Merges(in, p)
<1>0. PICK n \in Nat : n = Len(in) /\ DOMAIN in = 1 .. n /\ \A i \in 1 .. n : in[i] \in Proper
  BY LenProperties
<1>1. PICK g : g = CHOOSE h : Folds(h, in)
  OBVIOUS
<1>2. Folds(g, in) /\ DebounceEvents(in) = g[1 .. n]
  BY <1>0, <1>1, FoldsExists, DebounceDef, Zenon
<1>3. \A s \in SUBSET (1 .. n) : g[s] = MergeStep(g, in, s)
  BY <1>0, <1>2 DEF Folds
<1>4. PICK p : p = [m \in 0 .. n |-> g[1 .. m]]
  OBVIOUS
<1>5. p[0] = <<>> /\ p[n] = DebounceEvents(in)
  <2>1. 1 .. 0 = {} /\ 0 \in 0 .. n /\ n \in 0 .. n
    OBVIOUS
  <2>2. g[{}] = <<>>
    BY <1>3 DEF MergeStep
  <2>. QED  BY <1>2, <1>4, <2>1, <2>2
<1>6. ASSUME NEW m \in 1 .. n PROVE p[m] = Merge(p[m - 1], in[m])
  <2>0. m \in Nat /\ 1 <= m /\ m <= n
    OBVIOUS
  <2>7. m \in 0 .. n /\ m - 1 \in 0 .. n
    BY <2>0
  <2>8. \A x \in 1 .. m : x \in 1 .. n
    BY <2>0
  <2>9. m \in 1 .. m
    BY <2>0
  <2>1. m \in 0 .. n /\ m - 1 \in 0 .. n /\ 1 .. m \in SUBSET (1 .. n) /\ 1 .. m # {}
    BY <2>7, <2>8, <2>9
  <2>2. Max(1 .. m) = m
    <3>1. IsFiniteSet(1 .. m) /\ 1 .. m \subseteq Nat /\ 1 .. m # {}
      BY <2>1, FS_Interval
    <3>2. Max(1 .. m) \in 1 .. m /\ \A y \in 1 .. m : Max(1 .. m) >= y
      BY ONLY <3>1, GreatestExists
    <3>3. m \in 1 .. m
      OBVIOUS
    <3>. QED  BY <3>2, <3>3
  <2>3. (1 .. m) \ {m} = 1 .. m - 1
    OBVIOUS
  <2>4. g[1 .. m] = Merge(g[1 .. m - 1], in[m])
    BY <1>3, <2>1, <2>2, <2>3 DEF MergeStep
  <2>. QED  BY <1>4, <2>1, <2>4
<1>7. \A m \in 0 .. n : p[m] \in Seq(Proper)
  <2>1. PICK Bad : Bad = {m \in 0 .. n : p[m] \notin Seq(Proper)}
    OBVIOUS
  <2>. SUFFICES ASSUME Bad # {} PROVE FALSE
    BY <2>1
  <2>2. PICK m \in Bad : \A y \in Bad : m <= y
    <3>1. Bad \subseteq 0 .. n /\ Bad # {} /\ n \in Nat
      BY <2>1
    <3>. QED  BY ONLY <3>1, LeastExists
  <2>3. m # 0
    BY <1>5, <2>1, <2>2, EmptySeq
  <2>4. m \in 1 .. n /\ m - 1 \in 0 .. n /\ m - 1 \notin Bad
    BY <2>1, <2>2, <2>3
  <2>5. p[m - 1] \in Seq(Proper) /\ in[m] \in Proper
    BY <1>0, <2>1, <2>4
  <2>. QED  BY <1>6, <2>1, <2>2, <2>4, <2>5, MergeProper
<1>. QED  BY <1>0, <1>4, <1>5, <1>6, <1>7 DEF Merges

LEMMA DebounceProper ==
  ASSUME NEW in \in Seq(Proper)
  PROVE  DebounceEvents(in) \in Seq(Proper)
<1>1. PICK p : Merges(in, p)
  BY DebounceMerges
<1>2. Len(in) \in 0 .. Len(in)
  BY LenProperties
<1>. QED  BY <1>1, <1>2 DEF Merges

-----------------------------------------------------------------------------
(***************************************************************************)
(* Types, and what one subscriber is like.                                 *)
(***************************************************************************)
Emissions == {"none", "create", "modify", "rename", "delete", "move", "publish"}
SubRecord == [stream : Streams \cup {None}, online : BOOLEAN, closed : BOOLEAN,
              buffer : Seq(Proper), timer : BOOLEAN, flushes : 0 .. MaxFlushes, ch : Seq(Proper)]
Message == [sub : Subs, event : Proper]
EmissionRecord == [op : Emissions, old : Places \cup {None}, new : Places \cup {None},
                   to : SUBSET Message]
RowRecord == [event : Proper, stream : Streams]
ConnRecord == [pc : {"idle", "subscribed", "resumed", "left", "stopping"},
               stream : Streams \cup {None}, ch : {NoSub} \cup Subs]
View == [Files -> Names \cup {None}]

Typed ==
  /\ server \in [Files -> Places \cup {None}]
  /\ emitting \in [Files -> EmissionRecord]
  /\ hub \in [Streams -> {NoSub} \cup Subs]
  /\ up \in BOOLEAN
  /\ sub \in [Subs -> SubRecord]
  /\ rows \in [Clients -> Seq(RowRecord)]
  /\ conn \in [Conns -> ConnRecord]
  /\ view \in [Streams -> View \cup {Unknown}]
  /\ ops \in 0 .. MaxOps /\ faults \in 0 .. MaxFaults

\* its channel has no more than fits; who is closed has nothing buffered
Fit(x) ==
  /\ Len(x.ch) <= ChanSize
  /\ ~x.closed => x.stream \in Streams
  /\ x.closed => x.buffer = <<>>

\* what an operation has still to publish is of the places it is about
Placed(e) ==
  /\ e.op \in {"create", "rename", "move"} => e.new \in Places
  /\ e.op \in {"modify", "rename", "delete", "move"} => e.old \in Places

\* the hub has open subscribers only, and one that is being stopped stays
Served ==
  /\ \A st \in Streams : hub[st] # NoSub => ~sub[hub[st]].closed /\ sub[hub[st]].stream = st
  /\ \A k \in Conns : conn[k].pc # "idle" => conn[k].stream \in Streams /\ conn[k].ch \in Subs
  /\ \A k \in Conns : conn[k].pc = "stopping" => hub[conn[k].stream] # NoSub

HubInv ==
  /\ Typed /\ Served
  /\ \A i \in Subs : Fit(sub[i])
  /\ \A f \in Files : Placed(emitting[f])

(***************************************************************************)
(* A buffer that nobody will flush takes a failure of the database, and    *)
(* is that of an offline subscriber until there is another.                *)
(***************************************************************************)
Armed(x) == x.buffer # <<>> => x.timer \/ x.flushes > 0
Timed ==
  \A i \in Subs : ~sub[i].closed /\ (faults = 0 \/ (faults = 1 /\ sub[i].online)) => Armed(sub[i])

-----------------------------------------------------------------------------
(***************************************************************************)
(* What a flush does: it empties the buffer, or could not store it while   *)
(* nobody was online.                                                      *)
(***************************************************************************)
Changed(i, x) ==
  /\ x \in SubRecord /\ sub' = [sub EXCEPT ![i] = x] /\ Fit(x)
  /\ x.closed = sub[i].closed /\ x.stream = sub[i].stream
  /\ x.closed => Len(x.ch) <= Len(sub[i].ch)
  /\ faults' \in 0 .. MaxFaults /\ faults <= faults'
  /\ Timed /\ ~x.closed /\ (faults' = 0 \/ (faults' = 1 /\ x.online)) => Armed(x)

LEMMA SentProper ==
  ASSUME NEW ch \in Seq(Proper), NEW events \in Seq(Proper), Len(ch) <= ChanSize
  PROVE  Sent(ch, events) \in Seq(Proper) /\ Len(Sent(ch, events)) <= ChanSize
<1>1. PICK n : n = IF Len(events) < ChanSize - Len(ch) THEN Len(events) ELSE ChanSize - Len(ch)
  OBVIOUS
<1>2. ChanSize \in Nat /\ Len(ch) \in Nat /\ Len(events) \in Nat /\ \A i \in 1 .. Len(events) : events[i] \in Proper
  BY BoundsAssumption, LenProperties
<1>3. n \in Nat /\ n <= Len(events) /\ Len(ch) + n <= ChanSize
  BY <1>1, <1>2
<1>4. SubSeq(events, 1, n) \in Seq(Proper) /\ Len(SubSeq(events, 1, n)) = n
  <2>1. 1 \in Int /\ n \in Int /\ \A i \in 1 .. n : events[i] \in Proper
    BY <1>2, <1>3
  <2>2. /\ SubSeq(events, 1, n) \in Seq(Proper)
        /\ Len(SubSeq(events, 1, n)) = IF 1 <= n THEN n - 1 + 1 ELSE 0
    BY ONLY <2>1, SubSeqProperties
  <2>. QED  BY <1>3, <2>2
<1>5. PICK sent \in Seq(Proper) : sent = SubSeq(events, 1, n)
  BY <1>4
<1>6. ch \o sent \in Seq(Proper) /\ Len(ch \o sent) = Len(ch) + Len(sent)
  BY ConcatProperties
<1>7. Sent(ch, events) = ch \o sent
  BY <1>1, <1>5 DEF Sent
<1>. QED  BY <1>2, <1>3, <1>4, <1>5, <1>6, <1>7

LEMMA ClearedTyped ==
  ASSUME NEW s \in SubRecord, s.timer => s.flushes < MaxFlushes
  PROVE  /\ Cleared(s) \in SubRecord
         /\ Cleared(s).stream = s.stream /\ Cleared(s).closed = s.closed
         /\ Cleared(s).online = s.online /\ Cleared(s).ch = s.ch /\ Cleared(s).buffer = <<>>
<1>1. PICK n : n = IF s.timer THEN s.flushes + 1 ELSE s.flushes
  OBVIOUS
<1>2. n \in 0 .. MaxFlushes
  BY <1>1, BoundsAssumption DEF SubRecord
<1>3. Cleared(s) = [stream |-> s.stream, online |-> s.online, closed |-> s.closed, buffer |-> <<>>,
                    timer |-> FALSE, flushes |-> n, ch |-> s.ch]
  <2>1. s = [stream |-> s.stream, online |-> s.online, closed |-> s.closed, buffer |-> s.buffer,
             timer |-> s.timer, flushes |-> s.flushes, ch |-> s.ch]
    BY DEF SubRecord
  <2>2. CASE s.timer
    <3>1. n = s.flushes + 1
      BY <1>1, <2>2
    <3>2. Cleared(s) = [s EXCEPT !.buffer = <<>>, !.timer = FALSE, !.flushes = s.flushes + 1]
      BY <2>2 DEF Cleared
    <3>. QED  BY <2>1, <3>1, <3>2
  <2>3. CASE ~s.timer
    <3>1. n = s.flushes
      BY <1>1, <2>3
    <3>2. Cleared(s) = [s EXCEPT !.buffer = <<>>, !.timer = FALSE, !.flushes = s.flushes]
      BY <2>3 DEF Cleared
    <3>. QED  BY <2>1, <3>1, <3>2
  <2>. QED  BY <2>2, <2>3
<1>. QED  BY <1>2, <1>3, EmptySeq DEF SubRecord

LEMMA FlushChanged ==
  ASSUME HubInv, NEW i \in Subs, NEW s \in SubRecord,
         s.closed = sub[i].closed, s.stream = sub[i].stream, s.ch = sub[i].ch, s.buffer = sub[i].buffer,
         s.timer => s.flushes < MaxFlushes, FlushLocked(i, s)
  PROVE  /\ \E x : Changed(i, x)
         /\ rows' \in [Clients -> Seq(RowRecord)]
         /\ view' \in [Streams -> View \cup {Unknown}]
         /\ faults' \in 0 .. MaxFaults
<1>0. /\ Fit(s) /\ faults \in 0 .. MaxFaults /\ faults + 1 \in Int
      /\ rows \in [Clients -> Seq(RowRecord)] /\ view \in [Streams -> View \cup {Unknown}]
  BY BoundsAssumption DEF HubInv, Typed, Fit
<1>1. s.buffer \in Seq(Proper) /\ s.ch \in Seq(Proper) /\ Len(s.ch) \in Nat
  BY LenProperties DEF SubRecord
<1>2. \A st \in Streams : [view EXCEPT ![st] = Unknown] \in [Streams -> View \cup {Unknown}]
  BY <1>0
<1>3. CASE s.buffer = <<>> \/ s.closed
  <2>1. sub' = [sub EXCEPT ![i] = s] /\ UNCHANGED <<rows, view, faults>>
    BY <1>3 DEF FlushLocked
  <2>2. s.buffer = <<>>
    BY <1>0, <1>3 DEF Fit
  <2>3. Changed(i, s)
    BY <1>0, <1>1, <2>1, <2>2 DEF Changed, Armed
  <2>. QED  BY <1>0, <2>1, <2>3
<1>4. CASE s.buffer # <<>> /\ ~s.closed
  <2>0. s.stream \in Streams /\ Client(s.stream) \in Clients
    BY <1>0, <1>4, StreamsAssumption DEF Fit, Client
  <2>1. CASE s.online
    <3>1. FlushOnline(i, s)
      BY <1>4, <2>1 DEF FlushLocked
    <3>2. PICK merged \in Seq(Proper) : merged = DebounceEvents(s.buffer)
      BY <1>1, DebounceProper
    <3>3. PICK ch \in Seq(Proper) : ch = Sent(s.ch, merged) /\ Len(ch) <= ChanSize
      BY <1>0, <1>1, SentProper DEF Fit
    <3>4. PICK c \in SubRecord : /\ c = Cleared(s) /\ c.stream = s.stream /\ c.closed = s.closed
                                 /\ c.online = s.online /\ c.buffer = <<>>
      BY ClearedTyped
    <3>5. PICK x : x = [c EXCEPT !.ch = ch]
      OBVIOUS
    <3>6. /\ x \in SubRecord /\ x.stream = s.stream /\ x.closed = s.closed
          /\ x.buffer = <<>> /\ x.ch = ch
      BY <3>4, <3>5 DEF SubRecord
    <3>7. sub' = [sub EXCEPT ![i] = x] /\ UNCHANGED <<rows, faults>>
      BY <3>1, <3>2, <3>3, <3>4, <3>5 DEF FlushOnline
    <3>8. Changed(i, x)
      BY <1>0, <1>4, <2>0, <3>3, <3>6, <3>7 DEF Changed, Fit, Armed
    <3>9. view' \in [Streams -> View \cup {Unknown}]
      BY <1>0, <1>2, <2>0, <3>1 DEF FlushOnline, MissedIf, Missed
    <3>. QED  BY <1>0, <3>7, <3>8, <3>9
  <2>2. CASE ~s.online
    <3>1. PICK c \in SubRecord : /\ c = Cleared(s) /\ c.stream = s.stream /\ c.closed = s.closed
                                 /\ c.online = s.online /\ c.buffer = <<>> /\ c.ch = s.ch
      BY ClearedTyped
    <3>2. sub' = [sub EXCEPT ![i] = c] /\ faults' \in 0 .. MaxFaults /\ faults <= faults' => Changed(i, c)
      BY <1>0, <1>1, <3>1 DEF Changed, Fit, Armed
    <3>3. CASE StoreRows(i, s)
      <4>1. sub' = [sub EXCEPT ![i] = c] /\ UNCHANGED <<view, faults>>
        BY <3>1, <3>3 DEF StoreRows
      <4>2. PICK new : new = [j \in DOMAIN s.buffer |-> [event |-> s.buffer[j], stream |-> s.stream]]
        OBVIOUS
      <4>3. new \in Seq(RowRecord)
        <5>1. Len(s.buffer) \in Nat /\ DOMAIN s.buffer = 1 .. Len(s.buffer) /\ \A j \in 1 .. Len(s.buffer) : s.buffer[j] \in Proper
          BY <1>1, LenProperties
        <5>2. \A j \in 1 .. Len(s.buffer) : [event |-> s.buffer[j], stream |-> s.stream] \in RowRecord
          BY <2>0, <5>1 DEF RowRecord
        <5>3. new \in [1 .. Len(s.buffer) -> RowRecord]
          BY <4>2, <5>1, <5>2
        <5>. QED  BY <5>1, <5>3, SeqDef
      <4>4. rows[Client(s.stream)] \o new \in Seq(RowRecord)
        BY <1>0, <2>0, <4>3, ConcatProperties
      <4>5. rows' = [rows EXCEPT ![Client(s.stream)] = rows[Client(s.stream)] \o new]
        BY <3>3, <4>2 DEF StoreRows
      <4>6. rows' \in [Clients -> Seq(RowRecord)]
        BY <1>0, <4>4, <4>5
      <4>7. faults' \in 0 .. MaxFaults /\ faults <= faults'
        BY <1>0, <4>1
      <4>. QED  BY <1>0, <3>2, <4>1, <4>6, <4>7
    <3>4. CASE RowsLost(i, s)
      <4>1. sub' = [sub EXCEPT ![i] = c] /\ rows' = rows
        BY <3>1, <3>4 DEF RowsLost
      <4>2. faults' \in 0 .. MaxFaults /\ faults <= faults'
        BY <1>0, <3>4, BoundsAssumption DEF RowsLost, Fault
      <4>3. view' \in [Streams -> View \cup {Unknown}]
        BY <1>2, <2>0, <3>4 DEF RowsLost, Missed
      <4>. QED  BY <1>0, <3>2, <4>1, <4>2, <4>3
    <3>5. CASE OwnerUnknown(i, s)
      <4>1. sub' = [sub EXCEPT ![i] = s] /\ rows' = rows /\ view' = view
        BY <3>5 DEF OwnerUnknown
      <4>2. faults' \in 0 .. MaxFaults /\ faults <= faults' /\ faults' # 0
        BY <1>0, <3>5, BoundsAssumption DEF OwnerUnknown, Fault
      <4>3. Changed(i, s)
        BY <1>0, <1>1, <2>2, <4>1, <4>2 DEF Changed
      <4>. QED  BY <1>0, <4>1, <4>2, <4>3
    <3>. QED  BY <1>4, <2>2, <3>3, <3>4, <3>5 DEF FlushLocked
  <2>. QED  BY <2>1, <2>2
<1>. QED  BY <1>3, <1>4

(***************************************************************************)
(* A step that changes one subscriber in this way.                         *)
(***************************************************************************)
Fits == \A i \in Subs : Fit(sub[i])
OpenServed ==
  \A st \in Streams : hub[st] # NoSub => ~sub[hub[st]].closed /\ sub[hub[st]].stream = st

\* who is closed stays silent, in this step
Silent ==
  \A i \in Subs : sub[i].closed /\ sub[i].stream # None /\ sub'[i] # Unused =>
    /\ Len(sub'[i].ch) <= Len(sub[i].ch)
    /\ sub'[i].buffer = <<>>
    /\ sub'[i].closed

LEMMA ChangedKeeps ==
  ASSUME HubInv, NEW i \in Subs, NEW x, Changed(i, x)
  PROVE  /\ sub' \in [Subs -> SubRecord] /\ Fits'
         /\ hub' = hub => OpenServed'
         /\ Timed => Timed'
         /\ Silent
<1>1. sub \in [Subs -> SubRecord] /\ Fits /\ faults \in 0 .. MaxFaults
  BY DEF HubInv, Typed, Fits
<1>2. \A j \in Subs : sub'[j] = IF j = i THEN x ELSE sub[j]
  BY <1>1 DEF Changed
<1>3. sub' \in [Subs -> SubRecord]
  BY <1>1 DEF Changed
<1>4. Fits'
  BY <1>1, <1>2 DEF Fits, Changed
<1>5. hub' = hub => OpenServed'
  <2>. SUFFICES ASSUME hub' = hub, NEW st \in Streams, hub[st] # NoSub
       PROVE  ~sub'[hub[st]].closed /\ sub'[hub[st]].stream = st
    BY DEF OpenServed
  <2>1. hub[st] \in Subs /\ ~sub[hub[st]].closed /\ sub[hub[st]].stream = st
    BY DEF HubInv, Served, Typed
  <2>. QED  BY <1>2, <2>1 DEF Changed
<1>6. Timed => Timed'
  <2>. SUFFICES ASSUME Timed, NEW j \in Subs, ~sub'[j].closed, faults' = 0 \/ (faults' = 1 /\ sub'[j].online)
       PROVE  Armed(sub'[j])
    BY DEF Timed, Armed
  <2>1. faults = 0 \/ (faults = 1 /\ faults' = 1)
    BY <1>1, BoundsAssumption DEF Changed
  <2>2. CASE j = i
    BY <1>2, <2>2 DEF Changed
  <2>3. CASE j # i
    <3>1. sub'[j] = sub[j]
      BY <1>2, <2>3
    <3>. QED  BY <2>1, <3>1 DEF Timed
  <2>. QED  BY <2>2, <2>3
<1>7. Silent
  <2>. SUFFICES ASSUME NEW j \in Subs, sub[j].closed
       PROVE  Len(sub'[j].ch) <= Len(sub[j].ch) /\ sub'[j].buffer = <<>> /\ sub'[j].closed
    BY DEF Silent
  <2>1. CASE j = i
    BY <1>2, <2>1 DEF Changed, Fit
  <2>2. CASE j # i
    <3>1. sub'[j] = sub[j] /\ Len(sub[j].ch) \in Nat
      BY <1>1, <1>2, <2>2, LenProperties DEF SubRecord
    <3>. QED  BY <1>1, <3>1 DEF Fits, Fit
  <2>. QED  BY <2>1, <2>2
<1>. QED  BY <1>3, <1>4, <1>5, <1>6, <1>7

LEMMA UnchangedKeeps ==
  ASSUME HubInv, sub' = sub, faults' = faults
  PROVE  /\ sub' \in [Subs -> SubRecord] /\ Fits'
         /\ hub' = hub => OpenServed'
         /\ Timed => Timed'
         /\ Silent
<1>1. sub \in [Subs -> SubRecord] /\ Fits /\ OpenServed
  BY DEF HubInv, Typed, Fits, Served, OpenServed
<1>2. \A i \in Subs : Len(sub[i].ch) \in Nat
  BY <1>1, LenProperties DEF SubRecord
<1>3. Fits' /\ (hub' = hub => OpenServed')
  BY <1>1 DEF Fits, OpenServed
<1>4. Timed => Timed'
  BY DEF Timed
<1>5. Silent
  BY <1>1, <1>2 DEF Silent, Fits, Fit
<1>. QED  BY <1>1, <1>3, <1>4, <1>5

-----------------------------------------------------------------------------
(***************************************************************************)
(* The steps, each by what it does to subscribers and to everything else.  *)
(***************************************************************************)
FilesFine ==
  /\ server \in [Files -> Places \cup {None}]
  /\ emitting \in [Files -> EmissionRecord]
  /\ ops \in 0 .. MaxOps
  /\ \A f \in Files : Placed(emitting[f])
HandlersFine ==
  /\ hub \in [Streams -> {NoSub} \cup Subs] /\ up \in BOOLEAN
  /\ conn \in [Conns -> ConnRecord]
  /\ \A k \in Conns : conn[k].pc # "idle" => conn[k].stream \in Streams /\ conn[k].ch \in Subs
  /\ \A k \in Conns : conn[k].pc = "stopping" => hub[conn[k].stream] # NoSub
ListingsFine ==
  /\ rows \in [Clients -> Seq(RowRecord)]
  /\ view \in [Streams -> View \cup {Unknown}]
  /\ faults \in 0 .. MaxFaults
SubsFine == sub \in [Subs -> SubRecord] /\ Fits /\ OpenServed

LEMMA Parts ==
  /\ HubInv <=> FilesFine /\ HandlersFine /\ ListingsFine /\ SubsFine
  /\ HubInv' <=> FilesFine' /\ HandlersFine' /\ ListingsFine' /\ SubsFine'
BY DEF HubInv, Typed, Served, FilesFine, HandlersFine, ListingsFine, SubsFine, Fits, OpenServed

Good == HubInv' /\ (Timed => Timed') /\ Silent

LEMMA GoodUnchanged ==
  ASSUME HubInv, UNCHANGED <<sub, hub, faults>>, FilesFine', HandlersFine', ListingsFine'
  PROVE  Good
BY UnchangedKeeps, Parts DEF Good, SubsFine

LEMMA GoodChanged ==
  ASSUME HubInv, NEW i \in Subs, NEW x, Changed(i, x), hub' = hub,
         FilesFine', HandlersFine', ListingsFine'
  PROVE  Good
BY ChangedKeeps, Parts DEF Good, SubsFine

LEMMA FilesSame ==
  ASSUME HubInv, UNCHANGED <<server, emitting, ops>>
  PROVE  FilesFine'
BY Parts DEF FilesFine

LEMMA HandlersSame ==
  ASSUME HubInv, UNCHANGED <<hub, up, conn>>
  PROVE  HandlersFine'
BY Parts DEF HandlersFine

LEMMA ListingsSame ==
  ASSUME HubInv, UNCHANGED <<rows, view, faults>>
  PROVE  ListingsFine'
BY Parts DEF ListingsFine

LEMMA CommitGood ==
  ASSUME HubInv, NEW f \in Files, NEW o \in Emissions, NEW new \in Places \cup {None}, Commit(f, o, new),
         o \in {"create", "rename", "move"} => new \in Places,
         o \in {"modify", "rename", "delete", "move"} => server[f] \in Places
  PROVE  Good
<1>1. UNCHANGED <<hub, up, sub, rows, conn, view, faults>>
  BY DEF Commit
<1>2. PICK e : e = [op |-> o, old |-> server[f], new |-> new, to |-> {}]
  OBVIOUS
<1>3. e \in EmissionRecord /\ Placed(e)
  BY <1>2, Parts DEF EmissionRecord, Placed, FilesFine
<1>4. emitting' = [emitting EXCEPT ![f] = e] /\ server' = [server EXCEPT ![f] = new] /\ ops' \in 0 .. MaxOps
  BY <1>2, Parts, BoundsAssumption DEF Commit, FilesFine
<1>5. emitting' \in [Files -> EmissionRecord] /\ \A g \in Files : Placed(emitting'[g])
  BY <1>3, <1>4, Parts DEF FilesFine
<1>6. FilesFine'
  BY <1>4, <1>5, Parts DEF FilesFine, Placed
<1>. QED  BY <1>1, <1>6, GoodUnchanged, HandlersSame, ListingsSame

LEMMA FileOperationGood ==
  ASSUME HubInv, FileOperation
  PROVE  Good
<1>1. \A f \in Files : server[f] # None => server[f] \in Places /\ server[f][1] \in Topics /\ server[f][2] \in Names
  BY Parts DEF FilesFine, Places
<1>2. PICK f \in Files :
        \/ \E t \in Topics, n \in Names : FileCreated(f, t, n)
        \/ FileModified(f) \/ FileDeleted(f)
        \/ \E n \in Names : FileRenamed(f, n)
        \/ \E t \in Topics : FileMoved(f, t)
  BY DEF FileOperation
<1>3. ASSUME NEW t \in Topics, NEW n \in Names, FileCreated(f, t, n) PROVE Good
  <2>1. Commit(f, "create", <<t, n>>) /\ <<t, n>> \in Places
    BY <1>3 DEF FileCreated, Places
  <2>. QED  BY <2>1, CommitGood DEF Emissions
<1>4. CASE FileModified(f)
  <2>1. Commit(f, "modify", server[f]) /\ server[f] \in Places
    BY <1>1, <1>4 DEF FileModified
  <2>. QED  BY <2>1, CommitGood DEF Emissions
<1>5. CASE FileDeleted(f)
  <2>1. Commit(f, "delete", None) /\ server[f] \in Places
    BY <1>1, <1>5 DEF FileDeleted
  <2>. QED  BY <2>1, CommitGood DEF Emissions
<1>6. ASSUME NEW n \in Names, FileRenamed(f, n) PROVE Good
  <2>1. Commit(f, "rename", <<server[f][1], n>>) /\ server[f] \in Places /\ <<server[f][1], n>> \in Places
    BY <1>1, <1>6 DEF FileRenamed, Places
  <2>. QED  BY <2>1, CommitGood DEF Emissions
<1>7. ASSUME NEW t \in Topics, FileMoved(f, t) PROVE Good
  <2>1. Commit(f, "move", <<t, server[f][2]>>) /\ server[f] \in Places /\ <<t, server[f][2]>> \in Places
    BY <1>1, <1>7 DEF FileMoved, Places
  <2>. QED  BY <2>1, CommitGood DEF Emissions
<1>. QED  BY <1>2, <1>3, <1>4, <1>5, <1>6, <1>7

LEMMA EventsTyped ==
  ASSUME HubInv, NEW f \in Files, emitting[f].op \notin {"none", "publish"}
  PROVE  EventsOf(f, emitting[f]) \in SUBSET Message
<1>1. PICK e : e = emitting[f]
  OBVIOUS
<1>2. e \in EmissionRecord /\ Placed(e)
  BY <1>1, Parts DEF FilesFine
<1>3. \A p : \A st \in Subscribed(p) : st \in Streams /\ hub[st] \in Subs
  BY Parts DEF Subscribed, HandlersFine
<1>4. \A p \in Places : p[2] \in Names
  BY DEF Places
<1>5. ASSUME NEW sts, \A st \in sts : hub[st] \in Subs, NEW ev \in Proper
      PROVE  {[sub |-> hub[st], event |-> ev] : st \in sts} \in SUBSET Message
  BY <1>5 DEF Message
<1>6. \A n \in Names : EventOf("create", f, n, None) \in Proper /\ EventOf("modify", f, n, None) \in Proper
                       /\ EventOf("delete", f, n, None) \in Proper
  BY DEF EventOf, Proper, Event, Types
<1>7. \A n, m \in Names : EventOf("rename", f, n, m) \in Proper
  BY DEF EventOf, Proper, Event, Types
<1>8. CASE e.op = "create"
  <2>1. e.new[2] \in Names
    BY <1>2, <1>4, <1>8 DEF Placed
  <2>2. EventsOf(f, e) = {[sub |-> hub[st], event |-> EventOf("create", f, e.new[2], None)] : st \in Subscribed(e.new)}
    BY <1>8 DEF EventsOf
  <2>. QED  BY <1>1, <1>3, <1>5, <1>6, <2>1, <2>2
<1>9. CASE e.op = "modify"
  <2>1. e.old[2] \in Names
    BY <1>2, <1>4, <1>9 DEF Placed
  <2>2. EventsOf(f, e) = {[sub |-> hub[st], event |-> EventOf("modify", f, e.old[2], None)] : st \in Subscribed(e.old)}
    BY <1>9 DEF EventsOf
  <2>. QED  BY <1>1, <1>3, <1>5, <1>6, <2>1, <2>2
<1>10. CASE e.op = "rename"
  <2>1. e.old[2] \in Names /\ e.new[2] \in Names
    BY <1>2, <1>4, <1>10 DEF Placed
  <2>2. EventsOf(f, e) = {[sub |-> hub[st], event |-> EventOf("rename", f, e.old[2], e.new[2])] : st \in Subscribed(e.old)}
    BY <1>10 DEF EventsOf
  <2>. QED  BY <1>1, <1>3, <1>5, <1>7, <2>1, <2>2
<1>11. CASE e.op = "delete"
  <2>1. e.old[2] \in Names
    BY <1>2, <1>4, <1>11 DEF Placed
  <2>2. EventsOf(f, e) = {[sub |-> hub[st], event |-> EventOf("delete", f, e.old[2], None)] : st \in Subscribed(e.old)}
    BY <1>11 DEF EventsOf
  <2>. QED  BY <1>1, <1>3, <1>5, <1>6, <2>1, <2>2
<1>12. CASE e.op = "move"
  <2>1. e.old[2] \in Names /\ e.new[2] \in Names
    BY <1>2, <1>4, <1>12 DEF Placed
  <2>2. PICK both : both = Clients_(Subscribed(e.old)) \cap Clients_(Subscribed(e.new))
    OBVIOUS
  <2>3. PICK A, B, C : /\ A = {st \in Subscribed(e.old) : Client(st) \in both}
                       /\ B = {st \in Subscribed(e.old) : Client(st) \notin both}
                       /\ C = {st \in Subscribed(e.new) : Client(st) \notin both}
    OBVIOUS
  <2>4. EventsOf(f, e) =
          {[sub |-> hub[st], event |-> EventOf("rename", f, e.old[2], e.new[2])] : st \in A}
            \cup {[sub |-> hub[st], event |-> EventOf("delete", f, e.old[2], None)] : st \in B}
            \cup {[sub |-> hub[st], event |-> EventOf("create", f, e.new[2], None)] : st \in C}
    BY <1>12, <2>2, <2>3 DEF EventsOf
  <2>5. {[sub |-> hub[st], event |-> EventOf("rename", f, e.old[2], e.new[2])] : st \in A} \in SUBSET Message
    BY <1>3, <1>5, <1>7, <2>1, <2>3
  <2>6. {[sub |-> hub[st], event |-> EventOf("delete", f, e.old[2], None)] : st \in B} \in SUBSET Message
    BY <1>3, <1>5, <1>6, <2>1, <2>3
  <2>7. {[sub |-> hub[st], event |-> EventOf("create", f, e.new[2], None)] : st \in C} \in SUBSET Message
    BY <1>3, <1>5, <1>6, <2>1, <2>3
  <2>. QED  BY <1>1, <2>4, <2>5, <2>6, <2>7
<1>. QED  BY <1>1, <1>2, <1>8, <1>9, <1>10, <1>11, <1>12 DEF EmissionRecord, Emissions

LEMMA EmittingFine ==
  ASSUME HubInv, NEW f \in Files, NEW e \in EmissionRecord, Placed(e),
         emitting' = [emitting EXCEPT ![f] = e], UNCHANGED fileVars
  PROVE  FilesFine'
<1>1. emitting' \in [Files -> EmissionRecord] /\ \A g \in Files : Placed(emitting'[g])
  BY Parts DEF FilesFine
<1>. QED  BY <1>1, Parts DEF FilesFine, fileVars, Placed

LEMMA QuietFine == Quiet \in EmissionRecord /\ Placed(Quiet)
BY DEF Quiet, EmissionRecord, Emissions, Placed

LEMMA GetSubscribersGood ==
  ASSUME HubInv, NEW f \in Files, GetSubscribers(f)
  PROVE  Good
<1>1. PICK to : to = EventsOf(f, emitting[f])
  OBVIOUS
<1>2. to \in SUBSET Message
  BY <1>1, EventsTyped DEF GetSubscribers
<1>3. PICK e : e = IF to = {} THEN Quiet ELSE [Quiet EXCEPT !.op = "publish", !.to = to]
  OBVIOUS
<1>4. PICK q \in EmissionRecord : q = Quiet
  BY QuietFine
<1>5. e \in EmissionRecord /\ Placed(e)
  <2>1. PICK x : x = [q EXCEPT !.op = "publish", !.to = to]
    OBVIOUS
  <2>2. x \in EmissionRecord /\ x.op = "publish"
    BY <1>2, <2>1 DEF EmissionRecord, Emissions
  <2>. QED  BY <1>3, <1>4, <2>1, <2>2, QuietFine DEF Placed
<1>6. emitting' = [emitting EXCEPT ![f] = e] /\ UNCHANGED <<fileVars, hub, up, sub, rows, conn, view, faults>>
  BY <1>1, <1>3 DEF GetSubscribers
<1>. QED  BY <1>5, <1>6, EmittingFine, GoodUnchanged, HandlersSame, ListingsSame

LEMMA PublishGood ==
  ASSUME HubInv, NEW f \in Files, NEW m \in emitting[f].to, Publish(f, m)
  PROVE  Good
<1>1. emitting[f] \in EmissionRecord /\ m \in Message /\ m.sub \in Subs /\ m.event \in Proper
  BY Parts DEF FilesFine, EmissionRecord, Message
<1>2. PICK rest : rest = emitting[f].to \ {m}
  OBVIOUS
<1>3. PICK e : e = IF rest = {} THEN Quiet ELSE [emitting[f] EXCEPT !.to = rest]
  OBVIOUS
<1>4. e \in EmissionRecord /\ Placed(e)
  <2>1. emitting[f].op = "publish"
    BY DEF Publish
  <2>2. [emitting[f] EXCEPT !.to = rest] \in EmissionRecord /\ [emitting[f] EXCEPT !.to = rest].op = "publish"
    BY <1>1, <1>2, <2>1 DEF EmissionRecord
  <2>. QED  BY <1>3, <2>2, QuietFine DEF Placed
<1>5. /\ emitting' = [emitting EXCEPT ![f] = e]
      /\ UNCHANGED <<fileVars, hub, up, rows, conn, view, faults>>
  BY <1>2, <1>3 DEF Publish
<1>6. FilesFine' /\ HandlersFine' /\ ListingsFine'
  BY <1>4, <1>5, EmittingFine, HandlersSame, ListingsSame
<1>7. CASE sub[m.sub].closed
  <2>1. sub' = sub
    BY <1>7 DEF Publish
  <2>. QED  BY <1>5, <1>6, <2>1, GoodUnchanged
<1>8. CASE ~sub[m.sub].closed
  <2>1. PICK i \in Subs : i = m.sub
    BY <1>1
  <2>2. PICK x : x = [sub[i] EXCEPT !.buffer = Append(sub[i].buffer, m.event), !.timer = TRUE]
    OBVIOUS
  <2>3. sub \in [Subs -> SubRecord] /\ sub[i] \in SubRecord /\ Fit(sub[i])
    BY Parts DEF SubsFine, Fits
  <2>4. Append(sub[i].buffer, m.event) \in Seq(Proper)
    BY <1>1, <2>3, AppendProperties DEF SubRecord
  <2>5. /\ x \in SubRecord /\ x.timer = TRUE /\ x.ch = sub[i].ch /\ x.closed = sub[i].closed
        /\ x.stream = sub[i].stream
    BY <2>2, <2>3, <2>4 DEF SubRecord
  <2>6. sub' = [sub EXCEPT ![i] = x]
    BY <1>8, <2>1, <2>2, <2>3 DEF Publish
  <2>7. faults' \in 0 .. MaxFaults /\ faults <= faults'
    BY <1>5, Parts, BoundsAssumption DEF ListingsFine
  <2>8. Changed(i, x)
    BY <1>8, <2>1, <2>3, <2>5, <2>6, <2>7 DEF Changed, Fit, Armed
  <2>. QED  BY <1>5, <1>6, <2>8, GoodChanged
<1>. QED  BY <1>7, <1>8


LEMMA TimerFiresGood ==
  ASSUME HubInv, NEW i \in Subs, TimerFires(i)
  PROVE  Good
<1>1. sub \in [Subs -> SubRecord] /\ sub[i] \in SubRecord /\ Fit(sub[i])
  BY Parts DEF SubsFine, Fits
<1>2. PICK n : n = sub[i].flushes + 1
  OBVIOUS
<1>3. n \in 0 .. MaxFlushes /\ n > 0
  BY <1>1, <1>2, BoundsAssumption DEF TimerFires, SubRecord
<1>4. PICK x : x = [sub[i] EXCEPT !.timer = FALSE, !.flushes = n]
  OBVIOUS
<1>5. /\ x \in SubRecord /\ x.flushes = n /\ x.buffer = sub[i].buffer /\ x.ch = sub[i].ch
      /\ x.closed = sub[i].closed /\ x.stream = sub[i].stream /\ x.online = sub[i].online
  BY <1>1, <1>3, <1>4 DEF SubRecord
<1>6. sub' = [sub EXCEPT ![i] = x] /\ UNCHANGED <<fileVars, emitting, hub, up, rows, conn, view, faults>>
  BY <1>1, <1>2, <1>4 DEF TimerFires
<1>7. faults' \in 0 .. MaxFaults /\ faults <= faults'
  BY <1>6, Parts, BoundsAssumption DEF ListingsFine
<1>8. sub[i].ch \in Seq(Proper) /\ Len(sub[i].ch) \in Nat
  BY <1>1, LenProperties DEF SubRecord
<1>9. Changed(i, x)
  BY <1>1, <1>3, <1>5, <1>6, <1>7, <1>8 DEF Changed, Fit, Armed
<1>. QED  BY <1>6, <1>9, GoodChanged, FilesSame, HandlersSame, ListingsSame DEF fileVars

LEMMA FlushedGood ==
  ASSUME HubInv, NEW i \in Subs, NEW s \in SubRecord,
         s.closed = sub[i].closed, s.stream = sub[i].stream, s.ch = sub[i].ch, s.buffer = sub[i].buffer,
         s.timer => s.flushes < MaxFlushes, FlushLocked(i, s),
         hub' = hub, FilesFine', HandlersFine'
  PROVE  Good
<1>1. /\ \E x : Changed(i, x)
      /\ rows' \in [Clients -> Seq(RowRecord)]
      /\ view' \in [Streams -> View \cup {Unknown}]
      /\ faults' \in 0 .. MaxFaults
  BY FlushChanged
<1>2. ListingsFine'
  BY <1>1 DEF ListingsFine
<1>. QED  BY <1>1, <1>2, GoodChanged

LEMMA FlushGood ==
  ASSUME HubInv, NEW i \in Subs, Flush(i)
  PROVE  Good
<1>1. sub[i] \in SubRecord
  BY Parts DEF SubsFine
<1>2. PICK n : n = sub[i].flushes - 1
  OBVIOUS
<1>3. n \in 0 .. MaxFlushes /\ n < MaxFlushes
  BY <1>1, <1>2, BoundsAssumption DEF Flush, SubRecord
<1>4. PICK s : s = [sub[i] EXCEPT !.flushes = n]
  OBVIOUS
<1>5. /\ s \in SubRecord /\ s.flushes = n /\ s.buffer = sub[i].buffer /\ s.ch = sub[i].ch
      /\ s.closed = sub[i].closed /\ s.stream = sub[i].stream
  BY <1>1, <1>3, <1>4 DEF SubRecord
<1>6. FlushLocked(i, s) /\ UNCHANGED <<fileVars, emitting, hub, up, conn>>
  BY <1>2, <1>4 DEF Flush
<1>. QED  BY <1>3, <1>5, <1>6, FlushedGood, FilesSame, HandlersSame DEF fileVars

(***************************************************************************)
(* Handlers: a connection that changes.                                    *)
(***************************************************************************)
LEMMA ConnFine ==
  ASSUME HubInv, NEW k \in Conns, NEW c \in ConnRecord, conn' = [conn EXCEPT ![k] = c],
         c.pc # "idle" => c.stream \in Streams /\ c.ch \in Subs,
         c.pc = "stopping" => hub[c.stream] # NoSub,
         UNCHANGED <<hub, up>>
  PROVE  HandlersFine'
<1>1. HandlersFine
  BY Parts
<1>2. conn' \in [Conns -> ConnRecord] /\ \A j \in Conns : conn'[j] = IF j = k THEN c ELSE conn[j]
  BY <1>1 DEF HandlersFine
<1>. QED  BY <1>1, <1>2 DEF HandlersFine

LEMMA IdleFine == Idle \in ConnRecord /\ Idle.pc = "idle"
BY DEF Idle, ConnRecord, NoSub

LEMMA MovesOn ==
  ASSUME HubInv, NEW k \in Conns, conn[k].pc # "idle",
         NEW pc \in {"subscribed", "resumed", "left", "stopping"}, conn' = [conn EXCEPT ![k].pc = pc],
         pc = "stopping" => hub[conn[k].stream] # NoSub,
         UNCHANGED <<hub, up>>
  PROVE  HandlersFine'
<1>1. conn[k] \in ConnRecord /\ conn[k].stream \in Streams /\ conn[k].ch \in Subs
  BY Parts DEF HandlersFine
<1>2. PICK c : c = [conn[k] EXCEPT !.pc = pc]
  OBVIOUS
<1>3. c \in ConnRecord /\ c.pc = pc /\ c.stream = conn[k].stream /\ c.ch = conn[k].ch
  BY <1>1, <1>2 DEF ConnRecord
<1>4. conn' = [conn EXCEPT ![k] = c]
  <2>1. conn' = [conn EXCEPT ![k].pc = pc]
    OBVIOUS
  <2>. QED  BY ONLY <1>2, <2>1
<1>5. /\ c.pc # "idle" => c.stream \in Streams /\ c.ch \in Subs
      /\ c.pc = "stopping" => hub[c.stream] # NoSub
  BY <1>1, <1>3
<1>. QED  BY <1>3, <1>4, <1>5, ConnFine

LEMMA ViewFine ==
  ASSUME HubInv, NEW st \in Streams, NEW v \in View \cup {Unknown}, view' = [view EXCEPT ![st] = v]
  PROVE  view' \in [Streams -> View \cup {Unknown}]
BY Parts DEF ListingsFine

LEMMA ClientListsGood ==
  ASSUME HubInv, NEW k \in Conns, ClientLists(k)
  PROVE  Good
<1>1. conn[k].pc = "subscribed" /\ conn[k].stream \in Streams
  BY Parts DEF ClientLists, HandlersFine
<1>2. PICK st \in Streams : st = conn[k].stream
  BY <1>1
<1>3. Listing(st) \in View
  <2>1. \A f \in Files : server[f] # None => server[f][2] \in Names
    BY Parts DEF FilesFine, Places
  <2>. QED  BY <2>1 DEF Listing, View
<1>4. \E v \in View \cup {Unknown} : view' = [view EXCEPT ![st] = v]
  BY <1>2, <1>3 DEF ClientLists
<1>5. /\ conn' = [conn EXCEPT ![k].pc = "resumed"]
      /\ UNCHANGED <<fileVars, emitting, hub, up, sub, rows, faults>>
  BY DEF ClientLists
<1>6. HandlersFine'
  BY <1>1, <1>5, MovesOn
<1>7. ListingsFine'
  BY <1>4, <1>5, ViewFine, Parts DEF ListingsFine
<1>. QED  BY <1>5, <1>6, <1>7, GoodUnchanged, FilesSame DEF fileVars

LEMMA ClientLeavesGood ==
  ASSUME HubInv, NEW k \in Conns, ClientLeaves(k)
  PROVE  Good
<1>1. conn[k].pc # "idle" /\ conn[k].stream \in Streams
  BY Parts DEF ClientLeaves, HandlersFine
<1>2. /\ conn' = [conn EXCEPT ![k].pc = "left"]
      /\ UNCHANGED <<fileVars, emitting, hub, up, sub, rows, faults>>
  BY DEF ClientLeaves
<1>3. HandlersFine'
  BY <1>1, <1>2, MovesOn
<1>4. view' = view \/ view' = [view EXCEPT ![conn[k].stream] = Unknown]
  BY DEF ClientLeaves, MissedIf, Missed
<1>5. ListingsFine'
  BY <1>1, <1>2, <1>4, ViewFine, Parts DEF ListingsFine
<1>. QED  BY <1>2, <1>3, <1>5, GoodUnchanged, FilesSame DEF fileVars

LEMMA ApplyTyped ==
  ASSUME NEW v \in View, NEW e \in Proper
  PROVE  Apply(v, e) \in View
<1>1. e.file \in Files /\ e.type \in Types /\ e.from \in Names /\ (e.type = "rename" => e.to \in Names)
  BY DEF Proper, Event
<1>2. PICK n : n = CASE e.type = "create" -> e.from [] e.type = "rename" -> e.to
                     [] e.type = "delete" -> None [] e.type = "modify" -> v[e.file]
  OBVIOUS
<1>3. v[e.file] \in Names \cup {None}
  BY <1>1 DEF View
<1>4. n \in Names \cup {None}
  BY <1>1, <1>2, <1>3 DEF Types
<1>5. Apply(v, e) = [v EXCEPT ![e.file] = n]
  BY <1>2 DEF Apply
<1>. QED  BY <1>4, <1>5 DEF View

LEMMA HandlerSendsGood ==
  ASSUME HubInv, NEW k \in Conns, HandlerSends(k)
  PROVE  Good
<1>1. conn[k].stream \in Streams /\ conn[k].ch \in Subs
  BY Parts DEF HandlerSends, HandlersFine
<1>2. PICK i \in Subs, st \in Streams : i = conn[k].ch /\ st = conn[k].stream
  BY <1>1
<1>3. sub \in [Subs -> SubRecord] /\ sub[i] \in SubRecord /\ Fit(sub[i]) /\ sub[i].ch # <<>>
  BY <1>2, Parts DEF SubsFine, Fits, HandlerSends
<1>4. PICK ch \in Seq(Proper) : ch = sub[i].ch
  BY <1>3 DEF SubRecord
<1>5. Head(ch) \in Proper /\ Tail(ch) \in Seq(Proper) /\ Len(Tail(ch)) = Len(ch) - 1 /\ Len(ch) \in Nat
  BY <1>3, <1>4, HeadTailProperties, LenProperties
<1>6. PICK x : x = [sub[i] EXCEPT !.ch = Tail(ch)]
  OBVIOUS
<1>7. /\ x \in SubRecord /\ x.ch = Tail(ch) /\ x.buffer = sub[i].buffer /\ x.timer = sub[i].timer
      /\ x.closed = sub[i].closed /\ x.stream = sub[i].stream /\ x.online = sub[i].online
      /\ x.flushes = sub[i].flushes
  BY <1>3, <1>5, <1>6 DEF SubRecord
<1>8. sub' = [sub EXCEPT ![i] = x] /\ UNCHANGED <<fileVars, emitting, hub, up, rows, conn, faults>>
  BY <1>2, <1>3, <1>4, <1>6 DEF HandlerSends
<1>9. faults' \in 0 .. MaxFaults /\ faults <= faults' /\ faults' = faults
  BY <1>8, Parts, BoundsAssumption DEF ListingsFine
<1>10. Len(x.ch) <= ChanSize /\ Len(x.ch) <= Len(sub[i].ch)
  BY <1>3, <1>4, <1>5, <1>7, BoundsAssumption DEF Fit
<1>11. Changed(i, x)
  BY <1>3, <1>7, <1>8, <1>9, <1>10 DEF Changed, Fit, Timed, Armed
<1>12. \E v \in View \cup {Unknown} : view' = [view EXCEPT ![st] = v]
  <2>1. view \in [Streams -> View \cup {Unknown}]
    BY Parts DEF ListingsFine
  <2>2. PICK old \in View \cup {Unknown} : old = view[st]
    BY <2>1
  <2>3. PICK v : v = IF conn[k].pc = "left" \/ old = Unknown THEN Unknown
                     ELSE IF conn[k].pc = "subscribed" THEN old ELSE Apply(old, Head(ch))
    OBVIOUS
  <2>4. v \in View \cup {Unknown}
    BY <1>5, <2>3, ApplyTyped
  <2>5. view' = [view EXCEPT ![st] = v]
    BY <1>2, <1>4, <2>1, <2>2, <2>3 DEF HandlerSends
  <2>. QED  BY <2>4, <2>5
<1>13. ListingsFine'
  BY <1>8, <1>12, ViewFine, Parts DEF ListingsFine
<1>. QED  BY <1>8, <1>11, <1>13, GoodChanged, FilesSame, HandlersSame DEF fileVars

LEMMA StopGood ==
  ASSUME HubInv, NEW k \in Conns, Stop(k)
  PROVE  Good
<1>1. /\ conn[k].pc = "left" /\ conn[k].stream \in Streams
      /\ UNCHANGED <<fileVars, emitting, hub, up>>
  BY Parts DEF Stop, HandlersFine
<1>2. PICK i : i = hub[conn[k].stream]
  OBVIOUS
<1>3. FilesFine'
  BY <1>1, FilesSame DEF fileVars
<1>4. CASE ~up \/ i = NoSub
  <2>1. conn' = [conn EXCEPT ![k] = Idle] /\ UNCHANGED <<sub, rows, view, faults>>
    BY <1>2, <1>4 DEF Stop
  <2>2. HandlersFine'
    BY <1>1, <2>1, IdleFine, ConnFine
  <2>. QED  BY <1>1, <1>3, <2>1, <2>2, GoodUnchanged, ListingsSame
<1>5. CASE up /\ i # NoSub
  <2>1. i \in Subs /\ sub[i] \in SubRecord
    BY <1>1, <1>2, <1>5, Parts DEF HandlersFine, SubsFine
  <2>2. conn' = [conn EXCEPT ![k].pc = "stopping"] /\ FlushLocked(i, [sub[i] EXCEPT !.timer = FALSE])
    BY <1>2, <1>5 DEF Stop
  <2>3. HandlersFine'
    BY <1>1, <1>2, <1>5, <2>2, MovesOn
  <2>4. PICK s : s = [sub[i] EXCEPT !.timer = FALSE]
    OBVIOUS
  <2>5. /\ s \in SubRecord /\ s.timer = FALSE /\ s.buffer = sub[i].buffer /\ s.ch = sub[i].ch
        /\ s.closed = sub[i].closed /\ s.stream = sub[i].stream
    BY <2>1, <2>4 DEF SubRecord
  <2>. QED  BY <1>1, <1>3, <2>1, <2>2, <2>3, <2>4, <2>5, FlushedGood
<1>. QED  BY <1>4, <1>5

LEMMA SetOfflineGood ==
  ASSUME HubInv, NEW k \in Conns, SetOffline(k)
  PROVE  Good
<1>1. PICK i : i = hub[conn[k].stream]
  OBVIOUS
<1>2. i \in Subs /\ sub[i] \in SubRecord
  BY <1>1, Parts DEF SetOffline, HandlersFine, SubsFine
<1>3. PICK s : s = [sub[i] EXCEPT !.online = FALSE, !.timer = FALSE]
  OBVIOUS
<1>4. /\ s \in SubRecord /\ s.timer = FALSE /\ s.buffer = sub[i].buffer /\ s.ch = sub[i].ch
      /\ s.closed = sub[i].closed /\ s.stream = sub[i].stream
  BY <1>2, <1>3 DEF SubRecord
<1>5. /\ FlushLocked(i, s) /\ conn' = [conn EXCEPT ![k] = Idle]
      /\ UNCHANGED <<fileVars, emitting, hub, up>>
  BY <1>1, <1>3 DEF SetOffline
<1>6. HandlersFine'
  BY <1>5, IdleFine, ConnFine
<1>. QED  BY <1>2, <1>4, <1>5, <1>6, FlushedGood, FilesSame DEF fileVars

LEMMA HandlerEndsGood ==
  ASSUME HubInv, NEW k \in Conns, HandlerEnds(k)
  PROVE  Good
<1>1. /\ conn' = [conn EXCEPT ![k] = Idle]
      /\ UNCHANGED <<fileVars, emitting, hub, up, sub, rows, view, faults>>
  BY DEF HandlerEnds
<1>2. HandlersFine'
  BY <1>1, IdleFine, ConnFine
<1>. QED  BY <1>1, <1>2, GoodUnchanged, FilesSame, ListingsSame DEF fileVars

(***************************************************************************)
(* A handler subscribes.                                                   *)
(***************************************************************************)
LEMMA OpenFine ==
  ASSUME HubInv, NEW k \in Conns, NEW st \in Streams, NEW i \in Subs,
         NEW pc \in {"subscribed", "resumed"}, Open(k, st, i, pc), up' = up,
         HubFree, conn[k].pc = "idle", hub' \in [Streams -> {NoSub} \cup Subs]
  PROVE  HandlersFine'
<1>1. HandlersFine
  BY Parts
<1>2. PICK c : c = [pc |-> pc, stream |-> st, ch |-> i]
  OBVIOUS
<1>3. c \in ConnRecord /\ c.pc = pc /\ c.stream = st /\ c.ch = i
  BY <1>2 DEF ConnRecord
<1>4. conn' = [conn EXCEPT ![k] = c]
  BY <1>2 DEF Open
<1>5. conn' \in [Conns -> ConnRecord] /\ \A j \in Conns : conn'[j] = IF j = k THEN c ELSE conn[j]
  BY <1>1, <1>3, <1>4 DEF HandlersFine
<1>6. \A j \in Conns : conn'[j].pc # "stopping"
  BY <1>3, <1>5 DEF HubFree
<1>7. \A j \in Conns : conn'[j].pc # "idle" => conn'[j].stream \in Streams /\ conn'[j].ch \in Subs
  BY <1>1, <1>3, <1>5 DEF HandlersFine
<1>8. up' \in BOOLEAN
  BY <1>1 DEF HandlersFine
<1>. QED  BY <1>5, <1>6, <1>7, <1>8 DEF HandlersFine

LEMMA UnusedFine ==
  /\ Unused \in SubRecord /\ Unused.closed /\ Unused.stream = None /\ Unused.buffer = <<>> /\ Fit(Unused)
  /\ \A st \in Streams : /\ NewSubscriber(st) \in SubRecord /\ NewSubscriber(st).stream = st
                         /\ ~NewSubscriber(st).closed /\ NewSubscriber(st).buffer = <<>>
                         /\ Fit(NewSubscriber(st))
<1>1. <<>> \in Seq(Proper) /\ Len(<<>>) = 0 /\ 0 \in 0 .. MaxFlushes /\ 0 <= ChanSize
  BY EmptySeq, BoundsAssumption
<1>2. PICK u : u = Unused
  OBVIOUS
<1>3. /\ u \in SubRecord /\ u.closed = TRUE /\ u.stream = None /\ u.buffer = <<>> /\ u.ch = <<>>
  BY <1>1, <1>2 DEF Unused, SubRecord
<1>4. ASSUME NEW st \in Streams
      PROVE  /\ NewSubscriber(st) \in SubRecord /\ NewSubscriber(st).stream = st
             /\ ~NewSubscriber(st).closed /\ NewSubscriber(st).buffer = <<>>
             /\ Fit(NewSubscriber(st))
  <2>1. PICK x : x = [u EXCEPT !.stream = st, !.online = TRUE, !.closed = FALSE]
    OBVIOUS
  <2>2. x \in SubRecord /\ x.stream = st /\ x.closed = FALSE /\ x.buffer = <<>> /\ x.ch = <<>>
    BY <1>3, <2>1 DEF SubRecord
  <2>3. x = NewSubscriber(st)
    BY <1>2, <2>1 DEF NewSubscriber
  <2>. QED  BY <1>1, <2>2, <2>3 DEF Fit
<1>. QED  BY <1>1, <1>2, <1>3, <1>4 DEF Fit

LEMMA EmptyViewTyped == EmptyView \in View
BY DEF EmptyView, View

LEMMA SubscribeNewGood ==
  ASSUME HubInv, NEW k \in Conns, NEW st \in Streams, SubscribeNew(k, st), hub[st] = NoSub,
         HubFree, conn[k].pc = "idle", FilesFine', up' = up
  PROVE  Good
<1>1. PICK i \in Subs :
        /\ sub[i] = Unused
        /\ sub' = [sub EXCEPT ![i] = NewSubscriber(st)]
        /\ hub' = [hub EXCEPT ![st] = i]
        /\ view' = [view EXCEPT ![st] = IF rows[Client(st)] = <<>> THEN EmptyView ELSE Unknown]
        /\ Open(k, st, i, "subscribed")
        /\ UNCHANGED <<rows, faults>>
  BY DEF SubscribeNew
<1>2. sub \in [Subs -> SubRecord] /\ Fits /\ OpenServed /\ hub \in [Streams -> {NoSub} \cup Subs]
  BY Parts DEF SubsFine, HandlersFine
<1>3. PICK x \in SubRecord : x = NewSubscriber(st) /\ x.stream = st /\ ~x.closed /\ x.buffer = <<>> /\ Fit(x)
  BY UnusedFine
<1>4. \A j \in Subs : sub'[j] = IF j = i THEN x ELSE sub[j]
  BY <1>1, <1>2, <1>3
<1>5. sub' \in [Subs -> SubRecord] /\ Fits'
  BY <1>1, <1>2, <1>3, <1>4 DEF Fits
<1>6. hub' \in [Streams -> {NoSub} \cup Subs]
  BY <1>1, <1>2
<1>7. OpenServed'
  <2>. SUFFICES ASSUME NEW s \in Streams, hub'[s] # NoSub
       PROVE  ~sub'[hub'[s]].closed /\ sub'[hub'[s]].stream = s
    BY DEF OpenServed
  <2>1. CASE s = st
    BY <1>1, <1>2, <1>3, <1>4, <2>1
  <2>2. CASE s # st
    <3>1. hub'[s] = hub[s] /\ hub[s] \in Subs /\ ~sub[hub[s]].closed /\ sub[hub[s]].stream = s
      BY <1>1, <1>2, <2>2 DEF OpenServed
    <3>2. hub[s] # i
      BY <1>1, <3>1, UnusedFine
    <3>. QED  BY <1>4, <3>1, <3>2
  <2>. QED  BY <2>1, <2>2
<1>8. Timed => Timed'
  <2>. SUFFICES ASSUME Timed, NEW j \in Subs, ~sub'[j].closed, faults = 0 \/ (faults = 1 /\ sub'[j].online)
       PROVE  Armed(sub'[j])
    BY <1>1 DEF Timed, Armed
  <2>. QED  BY <1>3, <1>4 DEF Timed, Armed
<1>9. Silent
  <2>. SUFFICES ASSUME NEW j \in Subs, sub[j].closed, sub[j].stream # None
       PROVE  Len(sub'[j].ch) <= Len(sub[j].ch) /\ sub'[j].buffer = <<>> /\ sub'[j].closed
    BY DEF Silent
  <2>1. j # i
    BY <1>1, UnusedFine
  <2>2. sub'[j] = sub[j] /\ Len(sub[j].ch) \in Nat
    BY <1>2, <1>4, <2>1, LenProperties DEF SubRecord
  <2>. QED  BY <1>2, <2>2 DEF Fits, Fit
<1>10. HandlersFine'
  BY <1>1, <1>6, OpenFine
<1>11. ListingsFine'
  <2>1. \E v \in View \cup {Unknown} : view' = [view EXCEPT ![st] = v]
    BY <1>1, EmptyViewTyped
  <2>. QED  BY <1>1, <2>1, ViewFine, Parts DEF ListingsFine
<1>. QED  BY <1>5, <1>7, <1>8, <1>9, <1>10, <1>11, Parts DEF Good, SubsFine

LEMMA SetOnlineGood ==
  ASSUME HubInv, NEW k \in Conns, NEW st \in Streams, hub[st] # NoSub,
         SetOnline(k, st, hub[st]) \/ SetOnlineFails(k, st, hub[st]),
         HubFree, conn[k].pc = "idle", FilesFine', up' = up
  PROVE  Good
<1>1. hub \in [Streams -> {NoSub} \cup Subs]
  BY Parts DEF HandlersFine
<1>2. PICK i \in Subs : i = hub[st]
  BY <1>1
<1>3. sub \in [Subs -> SubRecord] /\ sub[i] \in SubRecord /\ Fit(sub[i]) /\ ~sub[i].closed
  BY <1>2, Parts DEF SubsFine, Fits, OpenServed
<1>4. /\ rows \in [Clients -> Seq(RowRecord)] /\ faults \in 0 .. MaxFaults
      /\ view \in [Streams -> View \cup {Unknown}] /\ Client(st) \in Clients
  BY Parts, StreamsAssumption DEF ListingsFine, Client
<1>5. CASE SetOnline(k, st, i)
  <2>1. PICK taken \in Seq(RowRecord) : taken = rows[Client(st)]
    BY <1>4
  <2>2. PICK events : events = [j \in DOMAIN taken |-> taken[j].event]
    OBVIOUS
  <2>3. events \in Seq(Proper)
    <3>1. Len(taken) \in Nat /\ DOMAIN taken = 1 .. Len(taken) /\ \A j \in 1 .. Len(taken) : taken[j] \in RowRecord
      BY LenProperties
    <3>2. events \in [1 .. Len(taken) -> Proper]
      BY <2>2, <3>1 DEF RowRecord
    <3>. QED  BY <3>1, <3>2, SeqDef
  <2>4. PICK buffer \in Seq(Proper) : buffer = sub[i].buffer \o events
    <3>1. sub[i].buffer \in Seq(Proper)
      BY <1>3 DEF SubRecord
    <3>. QED  BY <2>3, <3>1, ConcatProperties
  <2>5. PICK timer \in BOOLEAN : timer = (sub[i].timer \/ buffer # <<>>)
    OBVIOUS
  <2>6. PICK x : x = [sub[i] EXCEPT !.online = TRUE, !.buffer = buffer, !.timer = timer]
    OBVIOUS
  <2>7. /\ x \in SubRecord /\ x.buffer = buffer /\ x.timer = timer /\ x.ch = sub[i].ch
        /\ x.closed = sub[i].closed /\ x.stream = sub[i].stream
    BY <1>3, <2>6 DEF SubRecord
  <2>8. /\ sub' = [sub EXCEPT ![i] = x]
        /\ rows' = [rows EXCEPT ![Client(st)] = <<>>]
        /\ view' = view \/ view' = [view EXCEPT ![st] = Unknown]
        /\ UNCHANGED <<hub, faults>>
        /\ Open(k, st, i, "resumed")
    <3>1. sub' = [sub EXCEPT ![i].online = TRUE, ![i].buffer = buffer,
                             ![i].timer = sub[i].timer \/ buffer # <<>>]
      BY <1>3, <1>5, <2>1, <2>2, <2>4 DEF SetOnline
    <3>2. sub' = [sub EXCEPT ![i] = x]
      BY <1>3, <2>5, <2>6, <3>1
    <3>. QED  BY <1>5, <3>2 DEF SetOnline, MissedIf, Missed
  <2>9. Armed(x)
    BY <2>5, <2>7 DEF Armed
  <2>10. faults' \in 0 .. MaxFaults /\ faults <= faults'
    BY <1>4, <2>8, BoundsAssumption
  <2>11. Changed(i, x)
    BY <1>3, <2>7, <2>8, <2>9, <2>10 DEF Changed, Fit
  <2>12. HandlersFine'
    BY <1>1, <2>8, OpenFine
  <2>13. ListingsFine'
    <3>1. rows' \in [Clients -> Seq(RowRecord)]
      BY <1>4, <2>8, EmptySeq
    <3>2. view' \in [Streams -> View \cup {Unknown}]
      BY <1>4, <2>8
    <3>. QED  BY <2>10, <3>1, <3>2 DEF ListingsFine
  <2>. QED  BY <2>8, <2>11, <2>12, <2>13, GoodChanged
<1>6. CASE SetOnlineFails(k, st, i)
  <2>1. PICK x : x = [sub[i] EXCEPT !.online = TRUE]
    OBVIOUS
  <2>2. /\ x \in SubRecord /\ x.buffer = sub[i].buffer /\ x.timer = sub[i].timer /\ x.ch = sub[i].ch
        /\ x.closed = sub[i].closed /\ x.stream = sub[i].stream /\ x.flushes = sub[i].flushes
    BY <1>3, <2>1 DEF SubRecord
  <2>3. /\ sub' = [sub EXCEPT ![i] = x]
        /\ view' = [view EXCEPT ![st] = Unknown]
        /\ UNCHANGED <<rows, hub>>
        /\ Open(k, st, i, "resumed")
    BY <1>3, <1>6, <2>1 DEF SetOnlineFails, Missed
  <2>4. faults' = faults + 1 /\ faults' \in 0 .. MaxFaults /\ faults <= faults' /\ (faults' <= 1 => faults = 0)
    BY <1>4, <1>6, BoundsAssumption DEF SetOnlineFails, Fault
  <2>5. Timed /\ ~x.closed /\ (faults' = 0 \/ (faults' = 1 /\ x.online)) => Armed(x)
    BY <1>2, <1>4, <2>2, <2>4 DEF Timed, Armed
  <2>6. sub[i].ch \in Seq(Proper) /\ Len(sub[i].ch) \in Nat
    BY <1>3, LenProperties DEF SubRecord
  <2>7. Changed(i, x)
    BY <1>3, <2>2, <2>3, <2>4, <2>5, <2>6 DEF Changed, Fit
  <2>8. HandlersFine'
    BY <1>1, <2>3, OpenFine
  <2>9. ListingsFine'
    BY <1>4, <2>3, <2>4 DEF ListingsFine
  <2>. QED  BY <2>3, <2>7, <2>8, <2>9, GoodChanged
<1>. QED  BY <1>2, <1>5, <1>6

LEMMA SubscribeGood ==
  ASSUME HubInv, NEW k \in Conns, NEW st \in Streams, Subscribe(k, st)
  PROVE  Good
<1>1. HubFree /\ conn[k].pc = "idle" /\ UNCHANGED <<fileVars, emitting, up>>
  BY DEF Subscribe
<1>2. FilesFine'
  BY <1>1, FilesSame DEF fileVars
<1>3. CASE hub[st] = NoSub
  <2>1. SubscribeNew(k, st)
    BY <1>3 DEF Subscribe
  <2>. QED  BY <1>1, <1>2, <1>3, <2>1, SubscribeNewGood
<1>4. CASE hub[st] # NoSub
  <2>1. SetOnline(k, st, hub[st]) \/ SetOnlineFails(k, st, hub[st])
    BY <1>4 DEF Subscribe
  <2>. QED  BY <1>1, <1>2, <1>4, <2>1, SetOnlineGood
<1>. QED  BY <1>3, <1>4

(***************************************************************************)
(* Subscribers that are closed, or gone with the process.                  *)
(***************************************************************************)
LEMMA CloseGood ==
  ASSUME HubInv, NEW is \in SUBSET Subs, CloseSubs(is), HubFree,
         hub' \in [Streams -> {NoSub} \cup Subs], up' \in BOOLEAN,
         \A st \in Streams : hub'[st] # NoSub => hub'[st] = hub[st] /\ hub[st] \notin is,
         UNCHANGED <<fileVars, emitting, conn, view>>
  PROVE  Good
<1>1. sub \in [Subs -> SubRecord] /\ Fits /\ OpenServed
  BY Parts DEF SubsFine
<1>2. ASSUME NEW i \in Subs
      PROVE  /\ sub'[i] \in SubRecord /\ sub'[i].ch = sub[i].ch
             /\ i \in is => sub'[i].closed /\ sub'[i].buffer = <<>>
             /\ i \notin is => sub'[i] = sub[i]
  <2>1. CASE i \in is
    <3>1. PICK x : x = [sub[i] EXCEPT !.closed = TRUE, !.timer = FALSE, !.buffer = <<>>]
      OBVIOUS
    <3>2. sub[i] \in SubRecord
      BY <1>1
    <3>3. x \in SubRecord /\ x.ch = sub[i].ch /\ x.closed = TRUE /\ x.buffer = <<>>
      BY <3>1, <3>2, EmptySeq DEF SubRecord
    <3>4. sub'[i] = x
      BY <2>1, <3>1 DEF CloseSubs
    <3>. QED  BY <2>1, <3>3, <3>4
  <2>2. CASE i \notin is
    BY <1>1, <2>2 DEF CloseSubs
  <2>. QED  BY <2>1, <2>2
<1>3. sub' \in [Subs -> SubRecord]
  <2>1. sub' = [i \in Subs |-> sub'[i]]
    BY DEF CloseSubs
  <2>. QED  BY <1>2, <2>1
<1>4. Fits'
  BY <1>1, <1>2 DEF Fits, Fit
<1>5. OpenServed'
  BY <1>1, <1>2 DEF OpenServed
<1>6. faults \in 0 .. MaxFaults /\ faults' \in 0 .. MaxFaults /\ faults <= faults'
  <2>1. faults \in 0 .. MaxFaults /\ MaxFaults \in Nat
    BY Parts, BoundsAssumption DEF ListingsFine
  <2>2. faults' = faults \/ (faults < MaxFaults /\ faults' = faults + 1)
    BY DEF CloseSubs, Fault, NoFault
  <2>. QED  BY ONLY <2>1, <2>2
<1>7. Timed => Timed'
  <2>. SUFFICES ASSUME Timed, NEW j \in Subs, ~sub'[j].closed, faults' = 0 \/ (faults' = 1 /\ sub'[j].online)
       PROVE  Armed(sub'[j])
    BY DEF Timed, Armed
  <2>1. sub'[j] = sub[j]
    BY <1>2
  <2>2. faults = 0 \/ (faults = 1 /\ faults' = 1)
    BY <1>6, BoundsAssumption
  <2>. QED  BY <2>1, <2>2 DEF Timed
<1>8. Silent
  <2>. SUFFICES ASSUME NEW j \in Subs, sub[j].closed
       PROVE  Len(sub'[j].ch) <= Len(sub[j].ch) /\ sub'[j].buffer = <<>> /\ sub'[j].closed
    BY DEF Silent
  <2>1. Len(sub[j].ch) \in Nat /\ sub[j].buffer = <<>>
    BY <1>1, LenProperties DEF SubRecord, Fits, Fit
  <2>. QED  BY <1>2, <2>1
<1>9. rows' \in [Clients -> Seq(RowRecord)]
  <2>1. rows \in [Clients -> Seq(RowRecord)]
    BY Parts DEF ListingsFine
  <2>. QED  BY <2>1, EmptySeq DEF CloseSubs
<1>10. ListingsFine'
  BY <1>6, <1>9, Parts DEF ListingsFine
<1>11. HandlersFine'
  BY Parts DEF HandlersFine, HubFree
<1>12. FilesFine'
  BY FilesSame DEF fileVars
<1>. QED  BY <1>3, <1>4, <1>5, <1>7, <1>8, <1>10, <1>11, <1>12, Parts DEF Good, SubsFine

LEMMA ExpireGood ==
  ASSUME HubInv, NEW st \in Streams, Expire(st)
  PROVE  Good
<1>1. hub \in [Streams -> {NoSub} \cup Subs] /\ up \in BOOLEAN /\ OpenServed
  BY Parts DEF HandlersFine, SubsFine
<1>2. /\ HubFree /\ hub[st] \in Subs /\ CloseSubs({hub[st]}) /\ hub' = [hub EXCEPT ![st] = NoSub]
      /\ UNCHANGED <<fileVars, emitting, up, conn, view>>
  BY <1>1 DEF Expire
<1>3. hub' \in [Streams -> {NoSub} \cup Subs] /\ up' \in BOOLEAN
  BY <1>1, <1>2
<1>4. \A s \in Streams : hub'[s] # NoSub => hub'[s] = hub[s] /\ hub[s] \notin {hub[st]}
  BY <1>1, <1>2 DEF OpenServed
<1>. QED  BY <1>2, <1>3, <1>4, CloseGood

LEMMA CloseAllGood ==
  ASSUME HubInv, Close
  PROVE  Good
<1>1. hub \in [Streams -> {NoSub} \cup Subs]
  BY Parts DEF HandlersFine
<1>2. /\ HubFree /\ CloseSubs({hub[st] : st \in Streams} \ {NoSub})
      /\ up' = FALSE /\ hub' = [st \in Streams |-> NoSub]
      /\ UNCHANGED <<fileVars, emitting, conn, view>>
  BY DEF Close
<1>3. {hub[st] : st \in Streams} \ {NoSub} \in SUBSET Subs
  BY <1>1
<1>. QED  BY <1>2, <1>3, CloseGood

LEMMA RestartGood ==
  ASSUME HubInv, Restart
  PROVE  Good
<1>1. /\ up' = TRUE /\ hub' = [st \in Streams |-> NoSub] /\ sub' = [i \in Subs |-> Unused]
      /\ emitting' = [f \in Files |-> Quiet] /\ conn' = [k \in Conns |-> Idle]
      /\ rows' \in {rows, [c \in Clients |-> <<>>]}
      /\ UNCHANGED <<fileVars, view>>
  BY DEF Restart
<1>2. faults' \in 0 .. MaxFaults
  BY Parts, BoundsAssumption DEF ListingsFine, Restart, Fault
<1>3. FilesFine'
  BY <1>1, QuietFine, Parts DEF FilesFine, fileVars, Placed
<1>4. HandlersFine'
  BY <1>1, IdleFine DEF HandlersFine
<1>5. ListingsFine'
  BY <1>1, <1>2, EmptySeq, Parts DEF ListingsFine
<1>6. \A i \in Subs : sub'[i] = Unused
  BY <1>1
<1>7. sub' \in [Subs -> SubRecord] /\ Fits' /\ OpenServed'
  BY <1>1, <1>6, UnusedFine DEF Fits, OpenServed
<1>8. Timed'
  BY <1>6, UnusedFine DEF Timed
<1>9. Silent
  BY <1>6 DEF Silent
<1>. QED  BY <1>3, <1>4, <1>5, <1>7, <1>8, <1>9, Parts DEF Good, SubsFine

-----------------------------------------------------------------------------
(***************************************************************************)
(* Every step, and the theorems.                                           *)
(***************************************************************************)
LEMMA NextGood ==
  ASSUME HubInv, [Next]_vars
  PROVE  Good
<1>1. CASE FileOperation
  BY <1>1, FileOperationGood
<1>2. CASE Emission
  BY <1>2, GetSubscribersGood, PublishGood DEF Emission
<1>3. ASSUME NEW i \in Subs, TimerFires(i) \/ Flush(i) PROVE Good
  BY <1>3, TimerFiresGood, FlushGood
<1>4. ASSUME NEW k \in Conns, Handler(k) \/ ClientLeaves(k) \/ \E st \in Streams : Subscribe(k, st) PROVE Good
  BY <1>4, ClientListsGood, HandlerSendsGood, StopGood, SetOfflineGood, HandlerEndsGood,
     ClientLeavesGood, SubscribeGood DEF Handler
<1>5. ASSUME NEW st \in Streams, Expire(st) PROVE Good
  BY <1>5, ExpireGood
<1>6. CASE Close
  BY <1>6, CloseAllGood
<1>7. CASE Restart
  BY <1>7, RestartGood
<1>8. CASE UNCHANGED vars
  BY <1>8, GoodUnchanged, FilesSame, HandlersSame, ListingsSame DEF vars
<1>. QED  BY <1>1, <1>2, <1>3, <1>4, <1>5, <1>6, <1>7, <1>8 DEF Next

LEMMA HubInvInit == Init => HubInv /\ Timed
<1>. SUFFICES ASSUME Init PROVE HubInv /\ Timed
  OBVIOUS
<1>1. \A i \in Subs : sub[i] = Unused
  BY DEF Init
<1>2. FilesFine
  BY QuietFine, BoundsAssumption DEF Init, FilesFine, Placed
<1>3. HandlersFine
  BY IdleFine DEF Init, HandlersFine
<1>4. ListingsFine
  BY EmptySeq, EmptyViewTyped, BoundsAssumption DEF Init, ListingsFine
<1>5. SubsFine
  BY <1>1, UnusedFine DEF Init, SubsFine, Fits, OpenServed
<1>6. Timed
  BY <1>1, UnusedFine DEF Timed
<1>. QED  BY <1>2, <1>3, <1>4, <1>5, <1>6, Parts

LEMMA HubInvHolds == Spec => [](HubInv /\ Timed)
<1>1. HubInv /\ Timed /\ [Next]_vars => (HubInv /\ Timed)'
  BY NextGood DEF Good
<1>. QED  BY <1>1, HubInvInit, PTL DEF Spec

(* Types: what is stored, buffered or sent is an event of one of the files,  *)
(* a channel never holds more than it has room for (eventhub, all of it).    *)
THEOREM FeedTypeCorrect == Spec => []TypeOK
<1>1. HubInv => TypeOK
  <2>. SUFFICES ASSUME HubInv PROVE TypeOK
    OBVIOUS
  <2>0. \A s \in Seq(Proper) : ToSet(s) \subseteq Event
    BY LenProperties DEF ToSet, Proper
  <2>1. \A f \in Files :
          /\ emitting[f].op \in {"none", "create", "modify", "rename", "delete", "move", "publish"}
          /\ \A m \in emitting[f].to : m.sub \in Subs /\ m.event \in Event
    BY Parts DEF FilesFine, EmissionRecord, Emissions, Message, Proper
  <2>2. \A i \in Subs :
          /\ sub[i].stream \in Streams \cup {None}
          /\ sub[i].flushes \in 0 .. MaxFlushes
          /\ Len(sub[i].ch) <= ChanSize
          /\ ToSet(sub[i].buffer) \cup ToSet(sub[i].ch) \subseteq Event
    BY <2>0, Parts DEF SubsFine, Fits, Fit, SubRecord
  <2>3. \A c \in Clients, r \in UNION {ToSet(rows[d]) : d \in Clients} :
          r.event \in Event /\ r.stream \in Streams
    <3>1. \A s \in Seq(RowRecord) : ToSet(s) \subseteq RowRecord
      BY LenProperties DEF ToSet
    <3>2. \A d \in Clients : ToSet(rows[d]) \subseteq RowRecord
      BY <3>1, Parts DEF ListingsFine
    <3>. QED  BY <3>2 DEF RowRecord, Proper
  <2>4. \A k \in Conns : conn[k].pc \in {"idle", "subscribed", "resumed", "left", "stopping"}
    BY Parts DEF HandlersFine, ConnRecord
  <2>. QED  BY <2>1, <2>2, <2>3, <2>4, Parts DEF TypeOK, FilesFine, HandlersFine, ListingsFine, View
<1>. QED  BY <1>1, HubInvHolds, PTL

(* As long as the database has failed at most once, what an online           *)
(* subscriber has buffered is on its way, whatever it went through           *)
(* (setOnline, setOffline, Stop, flushLocked).                               *)
THEOREM OnlineBuffersAreSent == Spec => [](faults <= 1 => BufferHasTimer)
<1>1. HubInv /\ Timed => (faults <= 1 => BufferHasTimer)
  <2>. SUFFICES ASSUME HubInv, Timed, faults <= 1,
                       NEW i \in Subs, sub[i].online, ~sub[i].closed, sub[i].buffer # <<>>
       PROVE  sub[i].timer \/ sub[i].flushes > 0
    BY DEF BufferHasTimer
  <2>1. faults = 0 \/ faults = 1
    BY BoundsAssumption, Parts DEF ListingsFine
  <2>. QED  BY <2>1 DEF Timed, Armed
<1>. QED  BY <1>1, HubInvHolds, PTL

(* A subscriber that is closed sends nothing and buffers nothing any more,   *)
(* whichever timer or operation still holds it (subscriber.close,            *)
(* flushLocked, Publish).                                                    *)
THEOREM ClosedSubscribersStaySilent == Spec => ClosedStaysSilent
<1>1. HubInv /\ [Next]_vars => [Silent]_vars
  BY NextGood DEF Good
<1>2. Spec => [][Silent]_vars
  BY <1>1, HubInvHolds, PTL DEF Spec
<1>. QED  BY <1>2, PTL DEF ClosedStaysSilent, Silent

-----------------------------------------------------------------------------
(***************************************************************************)
(* What a client that shows a name v for a file (None for no such file)    *)
(* shows after the first n events of a list.                               *)
(***************************************************************************)
Value(e) == CASE e.type = "create" -> e.from [] e.type = "rename" -> e.to [] OTHER -> None
Says(s, n, f) == {j \in 1 .. n : s[j].file = f /\ s[j].type # "modify"}
After(s, n, f, v) == IF Says(s, n, f) = {} THEN v ELSE Value(s[Max(Says(s, n, f))])
Shown(s, f, v) == After(s, Len(s), f, v)

\* an event that makes sense to a client that shows v; a list of them
Suits(e, v) == CASE e.type = "create" -> v = None [] e.type = "rename" -> v = e.from [] OTHER -> v # None
Coherent(s, f, v) == \A k \in 1 .. Len(s) : s[k].file = f => Suits(s[k], After(s, k - 1, f, v))

LEMMA AfterLast ==
  ASSUME NEW s, NEW n \in Nat, NEW f, NEW j \in Says(s, n, f), \A k \in Says(s, n, f) : k <= j, NEW v
  PROVE  After(s, n, f, v) = Value(s[j])
<1>1. IsFiniteSet(Says(s, n, f)) /\ Says(s, n, f) \subseteq Nat /\ Says(s, n, f) # {}
  <2>1. IsFiniteSet(1 .. n) /\ Says(s, n, f) \subseteq 1 .. n
    BY FS_Interval DEF Says
  <2>2. IsFiniteSet(Says(s, n, f))
    BY <2>1, FS_Subset
  <2>. QED  BY <2>1, <2>2
<1>2. PICK m : m = Max(Says(s, n, f))
  OBVIOUS
<1>3. m \in Says(s, n, f) /\ m >= j
  BY <1>1, <1>2, GreatestExists
<1>4. m = j
  BY <1>1, <1>3
<1>. QED  BY <1>1, <1>2, <1>4 DEF After

LEMMA SaysLast ==
  ASSUME NEW s, NEW n \in Nat, NEW f, Says(s, n, f) # {}
  PROVE  \E j \in Says(s, n, f) : \A k \in Says(s, n, f) : k <= j
<1>1. IsFiniteSet(1 .. n) /\ Says(s, n, f) \subseteq 1 .. n
  BY FS_Interval DEF Says
<1>2. IsFiniteSet(Says(s, n, f)) /\ Says(s, n, f) \subseteq Nat
  BY <1>1, FS_Subset
<1>3. PICK j \in Says(s, n, f) : \A k \in Says(s, n, f) : j >= k
  BY <1>2, GreatestExists
<1>. QED  BY <1>2, <1>3

LEMMA AfterTyped ==
  ASSUME NEW s \in Seq(Proper), NEW n \in 0 .. Len(s), NEW f, NEW v \in Names \cup {None}
  PROVE  After(s, n, f, v) \in Names \cup {None}
<1>1. n \in Nat /\ Len(s) \in Nat /\ \A j \in 1 .. Len(s) : s[j] \in Proper
  BY LenProperties
<1>2. \A e \in Proper : Value(e) \in Names \cup {None}
  BY DEF Value, Proper, Event
<1>3. CASE Says(s, n, f) = {}
  BY <1>3 DEF After
<1>4. CASE Says(s, n, f) # {}
  <2>1. PICK j \in Says(s, n, f) : \A k \in Says(s, n, f) : k <= j
    BY <1>1, <1>4, SaysLast
  <2>2. j \in 1 .. Len(s) /\ After(s, n, f, v) = Value(s[j])
    BY <1>1, <2>1, AfterLast DEF Says
  <2>. QED  BY <1>1, <1>2, <2>2
<1>. QED  BY <1>3, <1>4

LEMMA AfterSame ==
  ASSUME NEW s, NEW t, NEW n \in Nat, NEW f, NEW v, \A j \in 1 .. n : s[j] = t[j]
  PROVE  After(s, n, f, v) = After(t, n, f, v)
<1>1. Says(s, n, f) = Says(t, n, f)
  BY DEF Says
<1>2. CASE Says(s, n, f) = {}
  BY <1>1, <1>2 DEF After
<1>3. CASE Says(s, n, f) # {}
  <2>1. PICK j \in Says(s, n, f) : \A k \in Says(s, n, f) : k <= j
    BY <1>3, SaysLast
  <2>2. j \in 1 .. n
    BY DEF Says
  <2>. QED  BY <1>1, <2>1, <2>2, AfterLast
<1>. QED  BY <1>2, <1>3

LEMMA AfterStep ==
  ASSUME NEW s, NEW n \in Nat, n # 0, NEW f, NEW v
  PROVE  After(s, n, f, v) =
           IF s[n].file = f /\ s[n].type # "modify" THEN Value(s[n]) ELSE After(s, n - 1, f, v)
<1>1. CASE s[n].file = f /\ s[n].type # "modify"
  <2>1. n \in Says(s, n, f) /\ \A k \in Says(s, n, f) : k <= n
    BY <1>1 DEF Says
  <2>. QED  BY <1>1, <2>1, AfterLast
<1>2. CASE ~(s[n].file = f /\ s[n].type # "modify")
  <2>1. \A k \in 1 .. n : k = n \/ k \in 1 .. n - 1
    OBVIOUS
  <2>2. \A k \in 1 .. n - 1 : k \in 1 .. n
    OBVIOUS
  <2>3. Says(s, n, f) = Says(s, n - 1, f)
    BY <1>2, <2>1, <2>2 DEF Says
  <2>. QED  BY <1>2, <2>3 DEF After
<1>. QED  BY <1>1, <1>2

LEMMA AfterNone ==
  ASSUME NEW s, NEW f, NEW v
  PROVE  After(s, 0, f, v) = v
BY DEF After, Says

LEMMA AfterConcat ==
  ASSUME NEW s \in Seq(Proper), NEW t \in Seq(Proper), NEW f, NEW v
  PROVE  /\ \A n \in 0 .. Len(s) : After(s \o t, n, f, v) = After(s, n, f, v)
         /\ \A n \in 0 .. Len(t) : After(s \o t, Len(s) + n, f, v) = After(t, n, f, Shown(s, f, v))
<1>1. PICK a, b : a = Len(s) /\ b = Len(t) /\ a \in Nat /\ b \in Nat
  BY LenProperties
<1>2. PICK c : c = s \o t
  OBVIOUS
<1>3. \A j \in 1 .. a + b : c[j] = IF j <= a THEN s[j] ELSE t[j - a]
  BY <1>1, <1>2, ConcatProperties
<1>4. (\A j \in 1 .. a : c[j] = s[j]) /\ \A j \in 1 .. b : c[a + j] = t[j]
  <2>1. ASSUME NEW j \in 1 .. b PROVE c[a + j] = t[j]
    <3>1. a + j \in 1 .. a + b /\ ~(a + j <= a) /\ (a + j) - a = j
      BY <1>1
    <3>. QED  BY <1>3, <3>1
  <2>2. ASSUME NEW j \in 1 .. a PROVE c[j] = s[j]
    <3>1. j \in 1 .. a + b /\ j <= a
      BY <1>1
    <3>. QED  BY <1>3, <3>1
  <2>. QED  BY <2>1, <2>2
<1>5. ASSUME NEW n \in 0 .. a PROVE After(c, n, f, v) = After(s, n, f, v)
  <2>1. n \in Nat /\ \A j \in 1 .. n : j \in 1 .. a
    BY <1>1
  <2>2. \A j \in 1 .. n : c[j] = s[j]
    BY <1>4, <2>1
  <2>3. PICK m \in Nat : m = n
    BY <2>1
  <2>4. After(c, m, f, v) = After(s, m, f, v)
    BY <2>2, <2>3, AfterSame
  <2>. QED  BY <2>3, <2>4
<1>6. ASSUME NEW n \in 0 .. b PROVE After(c, a + n, f, v) = After(t, n, f, Shown(s, f, v))
  <2>0. n \in Nat /\ a + n \in Nat
    BY <1>1
  <2>1. CASE Says(t, n, f) # {}
    <3>1. PICK j \in Says(t, n, f) : \A k \in Says(t, n, f) : k <= j
      BY <2>0, <2>1, SaysLast
    <3>2. j \in 1 .. n /\ j \in 1 .. b /\ a + j \in 1 .. a + n
      BY <1>1, <3>1 DEF Says
    <3>3. a + j \in Says(c, a + n, f)
      BY <1>4, <3>1, <3>2 DEF Says
    <3>4. ASSUME NEW k \in Says(c, a + n, f) PROVE k <= a + j
      <4>1. k \in 1 .. a + n
        BY DEF Says
      <4>2. CASE k <= a
        BY <1>1, <3>2, <4>1, <4>2
      <4>3. CASE ~(k <= a)
        <5>1. k - a \in 1 .. n /\ k - a \in 1 .. b /\ a + (k - a) = k
          BY <1>1, <4>1, <4>3
        <5>2. t[k - a] = c[k]
          BY <1>4, <5>1
        <5>3. k - a \in Says(t, n, f)
          BY <5>1, <5>2 DEF Says
        <5>4. k - a <= j
          BY <3>1, <5>3
        <5>. QED  BY <1>1, <3>2, <4>1, <5>4
      <4>. QED  BY <4>2, <4>3
    <3>5. After(c, a + n, f, v) = Value(c[a + j])
      BY <2>0, <3>3, <3>4, AfterLast
    <3>6. After(t, n, f, Shown(s, f, v)) = Value(t[j])
      BY <2>0, <3>1, AfterLast
    <3>. QED  BY <1>4, <3>2, <3>5, <3>6
  <2>2. CASE Says(t, n, f) = {}
    <3>1. ASSUME NEW k \in 1 .. a + n PROVE k \in Says(c, a + n, f) <=> k \in Says(s, a, f)
      <4>1. CASE k <= a
        <5>1. k \in 1 .. a /\ c[k] = s[k]
          BY <1>1, <1>4, <4>1
        <5>. QED  BY <5>1 DEF Says
      <4>2. CASE ~(k <= a)
        <5>1. k - a \in 1 .. n /\ k - a \in 1 .. b /\ a + (k - a) = k
          BY <1>1, <4>2
        <5>2. t[k - a] = c[k]
          BY <1>4, <5>1
        <5>3. k \notin Says(c, a + n, f)
          BY <2>2, <5>1, <5>2 DEF Says
        <5>. QED  BY <1>1, <4>2, <5>3 DEF Says
      <4>. QED  BY <4>1, <4>2
    <3>2. Says(c, a + n, f) \subseteq 1 .. a + n /\ Says(s, a, f) \subseteq 1 .. a + n
      <4>1. \A k \in 1 .. a : k \in 1 .. a + n
        BY <1>1
      <4>. QED  BY <4>1 DEF Says
    <3>3. Says(c, a + n, f) = Says(s, a, f)
      BY <3>1, <3>2
    <3>4. After(t, n, f, Shown(s, f, v)) = After(s, a, f, v)
      BY <1>1, <2>2 DEF After, Shown
    <3>5. After(c, a + n, f, v) = After(s, a, f, v)
      <4>1. CASE Says(s, a, f) = {}
        BY <3>3, <4>1 DEF After
      <4>2. CASE Says(s, a, f) # {}
        <5>1. PICK j \in Says(s, a, f) : \A k \in Says(s, a, f) : k <= j
          BY <1>1, <4>2, SaysLast
        <5>2. j \in 1 .. a
          BY DEF Says
        <5>3. After(s, a, f, v) = Value(s[j])
          BY <1>1, <5>1, AfterLast
        <5>4. After(c, a + n, f, v) = Value(c[j])
          BY <2>0, <3>3, <5>1, AfterLast
        <5>. QED  BY <1>4, <5>2, <5>3, <5>4
      <4>. QED  BY <4>1, <4>2
    <3>. QED  BY <3>4, <3>5
  <2>. QED  BY <2>1, <2>2
<1>. QED  BY <1>1, <1>2, <1>5, <1>6

LEMMA ShownEmpty ==
  ASSUME NEW f, NEW v
  PROVE  Shown(<<>>, f, v) = v /\ Coherent(<<>>, f, v)
<1>1. Len(<<>>) = 0
  BY EmptySeq
<1>. QED  BY <1>1, AfterNone DEF Shown, Coherent

LEMMA ShownConcat ==
  ASSUME NEW s \in Seq(Proper), NEW t \in Seq(Proper), NEW f, NEW v
  PROVE  Shown(s \o t, f, v) = Shown(t, f, Shown(s, f, v))
<1>1. Len(s \o t) = Len(s) + Len(t) /\ Len(t) \in 0 .. Len(t)
  BY ConcatProperties, LenProperties
<1>. QED  BY <1>1, AfterConcat DEF Shown

\* one more event
Brings(e, f, v) == IF e.file = f /\ e.type # "modify" THEN Value(e) ELSE v

LEMMA ShownAppend ==
  ASSUME NEW s \in Seq(Proper), NEW e \in Proper, NEW f, NEW v
  PROVE  /\ Shown(Append(s, e), f, v) = Brings(e, f, Shown(s, f, v))
         /\ Coherent(s, f, v) /\ (e.file = f => Suits(e, Shown(s, f, v))) => Coherent(Append(s, e), f, v)
<1>1. PICK t, n : t = Append(s, e) /\ n = Len(s)
  OBVIOUS
<1>2. n \in Nat /\ Len(t) = n + 1 /\ t[n + 1] = e /\ \A j \in 1 .. n : t[j] = s[j]
  BY <1>1, AppendProperties, LenProperties
<1>3. ASSUME NEW k \in 0 .. n PROVE After(t, k, f, v) = After(s, k, f, v)
  <2>1. k \in Nat /\ \A j \in 1 .. k : t[j] = s[j]
    BY <1>2
  <2>. QED  BY <2>1, AfterSame
<1>4. After(t, n + 1, f, v) = Brings(e, f, After(s, n, f, v))
  <2>1. n + 1 \in Nat \ {0} /\ (n + 1) - 1 = n /\ n \in 0 .. n
    BY <1>2
  <2>2. PICK m \in Nat : m = n + 1 /\ m # 0
    BY <2>1
  <2>3. After(t, m, f, v) = IF t[m].file = f /\ t[m].type # "modify" THEN Value(t[m]) ELSE After(t, m - 1, f, v)
    BY <2>2, AfterStep
  <2>. QED  BY <1>2, <1>3, <2>1, <2>2, <2>3 DEF Brings
<1>5. ASSUME Coherent(s, f, v), e.file = f => Suits(e, Shown(s, f, v)),
             NEW k \in 1 .. n + 1, t[k].file = f
      PROVE  Suits(t[k], After(t, k - 1, f, v))
  <2>1. CASE k = n + 1
    <3>1. k - 1 = n /\ n \in 0 .. n
      BY <1>2, <2>1
    <3>. QED  BY <1>1, <1>2, <1>3, <1>5, <2>1, <3>1 DEF Shown
  <2>2. CASE k # n + 1
    <3>1. k \in 1 .. n /\ k - 1 \in 0 .. n
      BY <1>2, <2>2
    <3>. QED  BY <1>1, <1>2, <1>3, <1>5, <3>1 DEF Coherent
  <2>. QED  BY <2>1, <2>2
<1>. QED  BY <1>1, <1>2, <1>4, <1>5 DEF Shown, Coherent

LEMMA ShownTail ==
  ASSUME NEW s \in Seq(Proper), s # <<>>, NEW f, NEW v
  PROVE  Shown(s, f, v) = Shown(Tail(s), f, Brings(Head(s), f, v))
<1>1. Head(s) \in Proper /\ Tail(s) \in Seq(Proper) /\ s = <<Head(s)>> \o Tail(s)
  BY HeadTailProperties, ConcatProperties
<1>2. PICK e \in Proper, t \in Seq(Proper) : e = Head(s) /\ t = Tail(s)
  BY <1>1
<1>3. PICK z \in Seq(Proper) : z = <<>>
  BY EmptySeq
<1>4. PICK one \in Seq(Proper) : one = <<e>> /\ one = Append(z, e)
  <2>1. <<e>> \in Seq(Proper) /\ Append(<<>>, e) = <<e>>
    OBVIOUS
  <2>. QED  BY <1>3, <2>1
<1>5. Shown(one, f, v) = Brings(e, f, v)
  <2>1. Shown(z, f, v) = v
    BY <1>3, ShownEmpty
  <2>2. Shown(Append(z, e), f, v) = Brings(e, f, Shown(z, f, v))
    BY ShownAppend
  <2>. QED  BY <1>4, <2>1, <2>2
<1>6. Shown(one \o t, f, v) = Shown(t, f, Shown(one, f, v))
  BY ShownConcat
<1>7. s = one \o t
  BY <1>1, <1>2, <1>4
<1>. QED  BY <1>2, <1>5, <1>6, <1>7

-----------------------------------------------------------------------------
(***************************************************************************)
(* What merging does to the events of one file.                            *)
(***************************************************************************)
\* the merged event of a file, if any, and at most one of each file
OfFile(s, f) == {s[i] : i \in {j \in 1 .. Len(s) : s[j].file = f}}
OneEach(s) == \A i, j \in 1 .. Len(s) : s[i].file = s[j].file => i = j

\* among the first n events, a deletion; a creation after it
Gone(in, n, f) == \E a \in 1 .. n : in[a].file = f /\ in[a].type = "delete"
Back(in, n, f) == \E a, b \in 1 .. n : /\ a < b /\ in[a].file = f /\ in[b].file = f
                                       /\ in[a].type = "delete" /\ in[b].type = "create"

\* x stands for the first n events, which took a client from v to w
Stands(x, v, w, in, n, f) ==
  CASE x.type = "create" -> w = x.from /\ (v = None \/ Back(in, n, f))
    [] x.type = "modify" -> w = v /\ v # None
    [] x.type = "rename" -> v = x.from /\ w = x.to
    [] x.type = "delete" -> w = None /\ v # None /\ Gone(in, n, f)

LEMMA GoneStep ==
  ASSUME NEW in, NEW n \in Nat, n # 0, NEW f
  PROVE  /\ Gone(in, n, f) <=> Gone(in, n - 1, f) \/ (in[n].file = f /\ in[n].type = "delete")
         /\ Back(in, n, f) <=> Back(in, n - 1, f)
                                \/ (in[n].file = f /\ in[n].type = "create" /\ Gone(in, n - 1, f))
<1>1. \A j \in 1 .. n - 1 : j \in 1 .. n /\ j < n
  OBVIOUS
<1>2. n \in 1 .. n /\ \A j \in 1 .. n : (j = n \/ j \in 1 .. n - 1) /\ ~(n < j)
  OBVIOUS
<1>3. Gone(in, n, f) <=> Gone(in, n - 1, f) \/ (in[n].file = f /\ in[n].type = "delete")
  BY <1>1, <1>2 DEF Gone
<1>4. ASSUME Back(in, n, f), ~Back(in, n - 1, f)
      PROVE  in[n].file = f /\ in[n].type = "create" /\ Gone(in, n - 1, f)
  <2>1. PICK a, b \in 1 .. n : /\ a < b /\ in[a].file = f /\ in[b].file = f
                               /\ in[a].type = "delete" /\ in[b].type = "create"
    BY <1>4 DEF Back
  <2>2. a \in 1 .. n - 1
    BY <1>2, <2>1
  <2>3. b = n
    BY <1>2, <1>4, <2>1, <2>2 DEF Back
  <2>. QED  BY <2>1, <2>2, <2>3 DEF Gone
<1>5. Back(in, n - 1, f) => Back(in, n, f)
  BY <1>1 DEF Back
<1>6. ASSUME in[n].file = f, in[n].type = "create", Gone(in, n - 1, f) PROVE Back(in, n, f)
  BY <1>1, <1>2, <1>6 DEF Back, Gone
<1>. QED  BY <1>3, <1>4, <1>5, <1>6

LEMMA FoldStands ==
  ASSUME NEW f, NEW x \in Proper, NEW e \in Proper, NEW v \in Names \cup {None}, NEW w,
         NEW in, NEW k \in Nat, NEW n \in Nat, NEW y,
         x.file = f, e.file = f, n = k + 1, in[n] = e, y = Fold(x, e),
         Stands(x, v, w, in, k, f), Suits(e, w), e.type = "delete" => ~Back(in, k, f)
  PROVE  \/ y = None /\ Brings(e, f, w) = v
         \/ y \in Proper /\ y.file = f /\ Stands(y, v, Brings(e, f, w), in, n, f)
<1>0. /\ Gone(in, k, f) \/ e.type = "delete" => Gone(in, n, f)
      /\ Back(in, k, f) \/ (e.type = "create" /\ Gone(in, k, f)) => Back(in, n, f)
  <2>1. n \in Nat /\ n # 0 /\ n - 1 = k
    OBVIOUS
  <2>2. /\ Gone(in, n, f) <=> Gone(in, n - 1, f) \/ (in[n].file = f /\ in[n].type = "delete")
        /\ Back(in, n, f) <=> Back(in, n - 1, f)
                               \/ (in[n].file = f /\ in[n].type = "create" /\ Gone(in, n - 1, f))
    BY <2>1, GoneStep
  <2>. QED  BY <2>1, <2>2
<1>1. /\ x.from \in Names /\ e.from \in Names /\ None \notin Names
      /\ x.type = "rename" => x.to \in Names
      /\ e.type = "rename" => e.to \in Names
      /\ x.type \in Types /\ e.type \in Types /\ x # None /\ e # None
  BY NoneAssumption DEF Proper, Event
<1>2. CASE e.type = "create"
  <2>1. w = None /\ x.type \notin {"create", "modify", "rename"}
    BY <1>1, <1>2 DEF Suits, Stands
  <2>2. x.type = "delete" /\ y = e
    BY <1>1, <1>2, <2>1 DEF Types, Fold
  <2>3. Gone(in, k, f) /\ Brings(e, f, w) = e.from
    BY <1>2, <2>2 DEF Stands, Brings, Value
  <2>. QED  BY <1>0, <1>1, <1>2, <2>2, <2>3 DEF Stands
<1>3. CASE e.type = "modify"
  <2>1. y = x /\ Brings(e, f, w) = w
    BY <1>3 DEF Fold, Brings
  <2>. QED  BY <1>0, <1>1, <1>3, <2>1 DEF Stands, Types
<1>4. CASE e.type = "rename"
  <2>1. w = e.from /\ w # None /\ Brings(e, f, w) = e.to
    BY <1>1, <1>4 DEF Suits, Brings, Value
  <2>2. CASE x.type = "create"
    <3>1. y = [x EXCEPT !.from = e.to, !.to = None]
      BY <1>4, <2>2 DEF Fold
    <3>2. y \in Proper /\ y.file = f /\ y.type = "create" /\ y.from = e.to
      BY <1>1, <1>4, <2>2, <3>1 DEF Proper, Event
    <3>3. v = None \/ Back(in, n, f)
      BY <1>0, <2>2 DEF Stands
    <3>4. y # None
      BY <3>2, NoneAssumption DEF Proper
    <3>. QED  BY <1>4, <2>1, <3>2, <3>3, <3>4 DEF Stands
  <2>3. CASE x.type = "modify"
    <3>1. y = e /\ v = w
      BY <1>4, <2>3 DEF Fold, Stands
    <3>. QED  BY <1>1, <1>4, <2>1, <3>1 DEF Stands
  <2>4. CASE x.type = "rename"
    <3>1. v = x.from
      BY <2>4 DEF Stands
    <3>2. CASE x.from = e.to
      <4>1. y = None
        BY <1>4, <2>4, <3>2 DEF Fold
      <4>. QED  BY <2>1, <3>1, <3>2, <4>1
    <3>3. CASE x.from # e.to
      <4>1. y = [x EXCEPT !.to = e.to]
        BY <1>4, <2>4, <3>3 DEF Fold
      <4>2. y \in Proper /\ y.file = f /\ y.type = "rename" /\ y.from = x.from /\ y.to = e.to
        BY <1>1, <1>4, <2>4, <4>1 DEF Proper, Event
      <4>3. y # None
        BY <4>2, NoneAssumption DEF Proper
      <4>. QED  BY <1>4, <2>1, <3>1, <4>2, <4>3 DEF Stands
    <3>. QED  BY <3>2, <3>3
  <2>5. x.type # "delete"
    BY <2>1 DEF Stands
  <2>. QED  BY <1>1, <2>2, <2>3, <2>4, <2>5 DEF Types
<1>5. CASE e.type = "delete"
  <2>1. ~Back(in, k, f) /\ w # None /\ Brings(e, f, w) = None
    BY <1>5 DEF Suits, Brings, Value
  <2>2. CASE x.type = "create"
    <3>1. y = None /\ v = None
      BY <1>5, <2>1, <2>2 DEF Fold, Stands
    <3>. QED  BY <2>1, <3>1
  <2>3. CASE x.type \in {"modify", "rename"}
    <3>1. y = e /\ v # None
      BY <1>1, <1>5, <2>1, <2>3 DEF Fold, Stands
    <3>. QED  BY <1>0, <1>1, <1>5, <2>1, <3>1 DEF Stands
  <2>4. x.type # "delete"
    BY <2>1 DEF Stands
  <2>. QED  BY <1>1, <2>2, <2>3, <2>4 DEF Types
<1>. QED  BY <1>1, <1>2, <1>3, <1>4, <1>5 DEF Types

LEMMA MergeOfFile ==
  ASSUME NEW s \in Seq(Proper), NEW e \in Proper, OneEach(s)
  PROVE  /\ OneEach(Merge(s, e))
         /\ \A f : f # e.file => OfFile(Merge(s, e), f) = OfFile(s, f)
         /\ OfFile(s, e.file) = {} => OfFile(Merge(s, e), e.file) = {e}
         /\ \A x \in OfFile(s, e.file) : OfFile(Merge(s, e), e.file) = {Fold(x, e)} \ {None}
<1>1. PICK n \in Nat : n = Len(s) /\ DOMAIN s = 1 .. n /\ \A i \in 1 .. n : s[i] \in Proper
  BY LenProperties
<1>2. PICK t \in Seq(Proper) : t = Merge(s, e)
  BY MergeProper
<1>3. PICK known : known = {i \in 1 .. n : s[i].file = e.file}
  OBVIOUS
<1>4. CASE known = {}
  <2>1. t = Append(s, e)
    BY <1>1, <1>2, <1>3, <1>4 DEF Merge
  <2>2. Len(t) = n + 1 /\ t[n + 1] = e /\ \A i \in 1 .. n : t[i] = s[i]
    BY <1>1, <2>1, AppendProperties
  <2>3. \A i \in 1 .. n + 1 : i = n + 1 \/ i \in 1 .. n
    OBVIOUS
  <2>4. OneEach(t)
    <3>1. \A i \in 1 .. n : t[i].file # e.file
      BY <1>3, <1>4, <2>2
    <3>. QED  BY <1>1, <2>2, <2>3, <3>1 DEF OneEach
  <2>5. OfFile(s, e.file) = {}
    BY <1>1, <1>3, <1>4 DEF OfFile
  <2>6. \A i \in 1 .. n : i \in 1 .. n + 1
    OBVIOUS
  <2>7. n + 1 \in 1 .. n + 1
    OBVIOUS
  <2>8. OfFile(t, e.file) = {e}
    BY <1>1, <1>3, <1>4, <2>2, <2>3, <2>7 DEF OfFile
  <2>9. ASSUME NEW f, f # e.file PROVE OfFile(t, f) = OfFile(s, f)
    BY <1>1, <2>2, <2>3, <2>6, <2>9 DEF OfFile
  <2>. QED  BY <1>2, <2>4, <2>5, <2>8, <2>9
<1>5. CASE known # {}
  <2>1. PICK i \in 1 .. n : i = (CHOOSE j \in known : TRUE) /\ s[i].file = e.file
    BY <1>3, <1>5
  <2>2. \A j \in 1 .. n : s[j].file = e.file => j = i
    BY <1>1, <2>1 DEF OneEach
  <2>3. OfFile(s, e.file) = {s[i]}
    BY <1>1, <2>1, <2>2 DEF OfFile
  <2>4. PICK y : y = Fold(s[i], e)
    OBVIOUS
  <2>5. t = IF y = None THEN RemoveAt(s, i) ELSE [s EXCEPT ![i] = y]
    BY <1>1, <1>2, <1>3, <1>5, <2>1, <2>4 DEF Merge
  <2>6. CASE y = None
    <3>1. Len(t) = n - 1 /\ \A j \in 1 .. n - 1 : t[j] = IF j < i THEN s[j] ELSE s[j + 1]
      BY <1>1, <2>5, <2>6, RemoveProper
    <3>2. ASSUME NEW j \in 1 .. n - 1
          PROVE  \E k \in 1 .. n : k # i /\ t[j] = s[k] /\ k = IF j < i THEN j ELSE j + 1
      BY <3>1
    <3>3. ASSUME NEW k \in 1 .. n, k # i
          PROVE  \E j \in 1 .. n - 1 : t[j] = s[k]
      <4>1. CASE k < i
        <5>1. k \in 1 .. n - 1
          BY <4>1
        <5>. QED  BY <3>1, <4>1, <5>1
      <4>2. CASE ~(k < i)
        <5>1. k - 1 \in 1 .. n - 1 /\ ~(k - 1 < i) /\ (k - 1) + 1 = k
          BY <3>3, <4>2
        <5>. QED  BY <3>1, <5>1
      <4>. QED  BY <4>1, <4>2
    <3>4. OneEach(t)
      <4>. SUFFICES ASSUME NEW a \in 1 .. n - 1, NEW b \in 1 .. n - 1, t[a].file = t[b].file PROVE a = b
        BY <3>1 DEF OneEach
      <4>1. PICK k \in 1 .. n : t[a] = s[k] /\ k = IF a < i THEN a ELSE a + 1
        BY <3>2
      <4>2. PICK l \in 1 .. n : t[b] = s[l] /\ l = IF b < i THEN b ELSE b + 1
        BY <3>2
      <4>3. k = l
        BY <1>1, <4>1, <4>2 DEF OneEach
      <4>. QED  BY <4>1, <4>2, <4>3
    <3>5. OfFile(t, e.file) = {}
      BY <2>2, <3>1, <3>2 DEF OfFile
    <3>6. ASSUME NEW f, f # e.file PROVE OfFile(t, f) = OfFile(s, f)
      <4>1. OfFile(t, f) \subseteq OfFile(s, f)
        BY <1>1, <3>1, <3>2 DEF OfFile
      <4>2. \A k \in 1 .. n : s[k].file = f => k # i
        BY <2>1, <3>6
      <4>3. OfFile(s, f) \subseteq OfFile(t, f)
        <5>. SUFFICES ASSUME NEW k \in 1 .. n, s[k].file = f PROVE s[k] \in OfFile(t, f)
          BY <1>1 DEF OfFile
        <5>1. PICK j \in 1 .. n - 1 : t[j] = s[k]
          BY <3>3, <4>2
        <5>. QED  BY <3>1, <5>1 DEF OfFile
      <4>. QED  BY <4>1, <4>3
    <3>. QED  BY <1>2, <2>3, <2>4, <2>6, <3>4, <3>5, <3>6
  <2>7. CASE y # None
    <3>1. y \in Proper
      BY <1>1, <2>4, <2>7, FoldProper
    <3>2. y.file = e.file
      BY <1>1, <2>1, <2>4, <2>7 DEF Fold, Proper, Event
    <3>3. Len(t) = n /\ \A j \in 1 .. n : t[j] = IF j = i THEN y ELSE s[j]
      BY <1>1, <2>5, <2>7, <3>1, ExceptSeq
    <3>4. \A j \in 1 .. n : t[j].file = s[j].file
      BY <2>1, <3>2, <3>3
    <3>5. OneEach(t)
      BY <1>1, <3>3, <3>4 DEF OneEach
    <3>6. OfFile(t, e.file) = {y}
      BY <2>2, <2>1, <3>3, <3>4 DEF OfFile
    <3>7. ASSUME NEW f, f # e.file PROVE OfFile(t, f) = OfFile(s, f)
      <4>1. \A j \in 1 .. n : s[j].file = f => t[j] = s[j]
        BY <2>1, <3>3, <3>7
      <4>. QED  BY <1>1, <3>3, <3>4, <4>1 DEF OfFile
    <3>. QED  BY <1>2, <2>3, <2>4, <2>7, <3>5, <3>6, <3>7
  <2>. QED  BY <2>6, <2>7
<1>. QED  BY <1>4, <1>5

\* one event of a file is all there is to say
LEMMA ShownOnce ==
  ASSUME NEW s \in Seq(Proper), OneEach(s), NEW f, NEW v
  PROVE  /\ OfFile(s, f) = {} => Shown(s, f, v) = v
         /\ \A x \in OfFile(s, f) : Shown(s, f, v) = Brings(x, f, v)
<1>1. PICK n \in Nat : n = Len(s)
  BY LenProperties
<1>2. CASE OfFile(s, f) = {}
  <2>1. Says(s, n, f) = {}
    BY <1>1, <1>2 DEF OfFile, Says
  <2>. QED  BY <1>1, <1>2, <2>1 DEF After, Shown
<1>3. ASSUME NEW x \in OfFile(s, f) PROVE Shown(s, f, v) = Brings(x, f, v)
  <2>1. PICK i \in 1 .. n : s[i] = x /\ s[i].file = f
    BY <1>1 DEF OfFile
  <2>2. \A j \in 1 .. n : s[j].file = f => j = i
    BY <1>1, <2>1 DEF OneEach
  <2>3. CASE x.type = "modify"
    <3>1. Says(s, n, f) = {}
      BY <2>1, <2>2, <2>3 DEF Says
    <3>. QED  BY <1>1, <2>3, <3>1 DEF After, Shown, Brings
  <2>4. CASE x.type # "modify"
    <3>1. i \in Says(s, n, f) /\ \A k \in Says(s, n, f) : k <= i
      BY <2>1, <2>2, <2>4 DEF Says
    <3>2. After(s, n, f, v) = Value(s[i])
      BY <3>1, AfterLast
    <3>. QED  BY <1>1, <2>1, <2>4, <3>2 DEF Shown, Brings
  <2>. QED  BY <2>3, <2>4
<1>. QED  BY <1>2, <1>3

(* Merging a list of events that make sense one after another shows a client *)
(* of each file what the list itself would have shown, however long it is,   *)
(* unless it deletes the file, creates it again and deletes it again         *)
(* (DebounceEvents).                                                         *)
THEOREM DebounceShows ==
  ASSUME NEW in \in Seq(Proper), NEW f \in Files, NEW v \in Names \cup {None},
         Coherent(in, f, v), ~DeletedTwice(in, f)
  PROVE  Shown(DebounceEvents(in), f, v) = Shown(in, f, v)
<1>1. PICK len \in Nat : len = Len(in) /\ DOMAIN in = 1 .. len /\ \A j \in 1 .. len : in[j] \in Proper
  BY LenProperties
<1>2. PICK p : Merges(in, p)
  BY DebounceMerges
<1>3. /\ p \in [0 .. len -> Seq(Proper)] /\ p[0] = <<>> /\ p[len] = DebounceEvents(in)
      /\ \A n \in 1 .. len : p[n] = Merge(p[n - 1], in[n])
  BY <1>1, <1>2 DEF Merges
<1>4. PICK Good_ : Good_ = {n \in 0 .. len :
         /\ OneEach(p[n])
         /\ OfFile(p[n], f) = {} => After(in, n, f, v) = v
         /\ \A x \in OfFile(p[n], f) : /\ x \in Proper /\ x.file = f
              /\ Stands(x, v, After(in, n, f, v), in, n, f)}
  OBVIOUS
<1>5. 0 \in Good_
  <2>1. Len(<<>>) = 0 /\ 0 \in 0 .. len
    BY EmptySeq
  <2>2. OneEach(<<>>) /\ OfFile(<<>>, f) = {}
    BY <2>1 DEF OneEach, OfFile
  <2>. QED  BY <1>3, <1>4, <2>1, <2>2, AfterNone
<1>6. ASSUME NEW n \in 1 .. len, n - 1 \in Good_ PROVE n \in Good_
  <2>1. n \in Nat /\ n # 0 /\ n \in 0 .. len /\ n - 1 \in Nat /\ n - 1 \in 0 .. len
    BY <1>1
  <2>2. PICK s \in Seq(Proper), e \in Proper : s = p[n - 1] /\ e = in[n]
    BY <1>1, <1>3, <2>1
  <2>3. PICK m \in Nat : m = n /\ m # 0
    BY <2>1
  <2>4. After(in, n, f, v) = Brings(e, f, After(in, n - 1, f, v))
    <3>1. After(in, m, f, v) = IF in[m].file = f /\ in[m].type # "modify" THEN Value(in[m]) ELSE After(in, m - 1, f, v)
      BY <2>3, AfterStep
    <3>. QED  BY <2>2, <2>3, <3>1 DEF Brings
  <2>5. PICK w : w = After(in, n - 1, f, v)
    OBVIOUS
  <2>6. OneEach(s) /\ (OfFile(s, f) = {} => w = v)
    BY <1>4, <1>6, <2>2, <2>5
  <2>7. p[n] = Merge(s, e)
    BY <1>3, <2>2
  <2>10. /\ Gone(in, n, f) <=> Gone(in, n - 1, f) \/ (e.file = f /\ e.type = "delete")
         /\ Back(in, n, f) <=> Back(in, n - 1, f) \/ (e.file = f /\ e.type = "create" /\ Gone(in, n - 1, f))
    BY <2>2, <2>3, GoneStep
  <2>12. CASE e.file # f
    <3>1. OfFile(p[n], f) = OfFile(s, f) /\ OneEach(p[n])
      BY <2>6, <2>7, <2>12, MergeOfFile
    <3>2. After(in, n, f, v) = w
      BY <2>4, <2>5, <2>12 DEF Brings
    <3>3. \A x \in OfFile(s, f) : /\ x \in Proper /\ x.file = f
             /\ Stands(x, v, w, in, n - 1, f)
      BY <1>4, <1>6, <2>2, <2>5
    <3>4. \A x \in OfFile(s, f) : Stands(x, v, w, in, n, f)
      <4>1. \A x \in OfFile(s, f) : x.type \in Types
        BY <3>3 DEF Proper, Event
      <4>. QED  BY <2>10, <3>3, <4>1 DEF Stands, Types
    <3>. QED  BY <1>4, <2>1, <2>6, <3>1, <3>2, <3>3, <3>4
  <2>13. CASE e.file = f
    <3>1. OneEach(p[n])
      BY <2>6, <2>7, MergeOfFile
    <3>2. Suits(e, w)
      BY <1>1, <2>2, <2>5, <2>13 DEF Coherent
    <3>3. ~(Back(in, n - 1, f) /\ e.type = "delete")
      <4>. SUFFICES ASSUME Back(in, n - 1, f), e.type = "delete" PROVE FALSE
        OBVIOUS
      <4>1. PICK a, b \in 1 .. n - 1 : /\ a < b /\ in[a].file = f /\ in[b].file = f
                                      /\ in[a].type = "delete" /\ in[b].type = "create"
        BY DEF Back
      <4>2. a \in 1 .. len /\ b \in 1 .. len /\ b < n
        BY <1>1, <2>1
      <4>. QED  BY <1>1, <2>2, <2>13, <4>1, <4>2 DEF DeletedTwice
    <3>4. CASE OfFile(s, f) = {}
      <4>1. OfFile(p[n], f) = {e} /\ w = v
        <5>1. OneEach(s) /\ OfFile(s, e.file) = {} /\ f = e.file
          BY <2>6, <2>13, <3>4
        <5>2. OfFile(Merge(s, e), e.file) = {e}
          BY ONLY <5>1, s \in Seq(Proper), e \in Proper, MergeOfFile
        <5>. QED  BY <2>6, <2>7, <3>4, <5>1, <5>2
      <4>2. Stands(e, v, Brings(e, f, w), in, n, f)
        <5>1. e.type \in Types /\ e.from \in Names
          BY DEF Proper, Event
        <5>2. v # None \/ e.type = "create"
          BY <3>2, <4>1, <5>1, NoneAssumption DEF Suits
        <5>. QED  BY <2>10, <2>13, <3>2, <4>1, <5>1, <5>2 DEF Stands, Suits, Brings, Value, Types
      <4>. QED  BY <1>4, <2>1, <2>4, <2>5, <2>13, <3>1, <4>1, <4>2
    <3>5. CASE OfFile(s, f) # {}
      <4>1. PICK x \in OfFile(s, f) : TRUE
        BY <3>5
      <4>2. /\ x \in Proper /\ x.file = f
            /\ Stands(x, v, w, in, n - 1, f)
        BY <1>4, <1>6, <2>2, <2>5
      <4>3. PICK y : y = Fold(x, e)
        OBVIOUS
      <4>4. OfFile(p[n], f) = {y} \ {None}
        <5>1. x \in OfFile(s, e.file)
          BY <2>13
        <5>2. OfFile(Merge(s, e), e.file) = {Fold(x, e)} \ {None}
          BY <2>6, <5>1, MergeOfFile
        <5>. QED  BY <2>7, <2>13, <4>3, <5>2
      <4>5. /\ y = None => Brings(e, f, w) = v
            /\ y # None => y \in Proper /\ y.file = f /\ Stands(y, v, Brings(e, f, w), in, n, f)
        <5>1. PICK k \in Nat : k = n - 1 /\ n = k + 1
          BY <2>1
        <5>2. /\ x \in Proper /\ e \in Proper /\ v \in Names \cup {None} /\ k \in Nat /\ m \in Nat
              /\ x.file = f /\ e.file = f /\ m = k + 1 /\ in[m] = e /\ y = Fold(x, e)
          BY <2>2, <2>3, <2>13, <4>2, <4>3, <5>1
        <5>3. Stands(x, v, w, in, k, f) /\ Suits(e, w) /\ (e.type = "delete" => ~Back(in, k, f))
          BY <3>2, <3>3, <4>2, <5>1
        <5>4. \/ y = None /\ Brings(e, f, w) = v
              \/ y \in Proper /\ y.file = f /\ Stands(y, v, Brings(e, f, w), in, m, f)
          BY ONLY <5>2, <5>3, FoldStands
        <5>. QED  BY <2>3, <5>4, NoneAssumption DEF Proper
      <4>. QED  BY <1>4, <2>1, <2>4, <2>5, <3>1, <4>4, <4>5
    <3>. QED  BY <3>4, <3>5
  <2>. QED  BY <2>12, <2>13
<1>7. len \in Good_
  <2>. SUFFICES ASSUME len \notin Good_ PROVE FALSE
    OBVIOUS
  <2>1. PICK Bad : Bad = (0 .. len) \ Good_
    OBVIOUS
  <2>2. PICK n \in Bad : \A y \in Bad : n <= y
    <3>1. Bad \subseteq 0 .. len /\ Bad # {} /\ len \in Nat
      BY <2>1
    <3>. QED  BY ONLY <3>1, LeastExists
  <2>3. n # 0 /\ n \in 0 .. len
    BY <1>5, <2>1, <2>2
  <2>4. n \in 1 .. len /\ n - 1 \in 0 .. len /\ ~(n <= n - 1)
    BY <2>3
  <2>5. n - 1 \in Good_
    BY <2>1, <2>2, <2>4
  <2>. QED  BY <1>6, <2>1, <2>2, <2>4, <2>5
<1>8. PICK d \in Seq(Proper) : d = DebounceEvents(in)
  BY DebounceProper
<1>9. /\ OneEach(d)
      /\ OfFile(d, f) = {} => Shown(in, f, v) = v
      /\ \A x \in OfFile(d, f) : Stands(x, v, Shown(in, f, v), in, len, f) /\ x.file = f
  BY <1>1, <1>3, <1>4, <1>7, <1>8 DEF Shown
<1>10. CASE OfFile(d, f) = {}
  BY <1>8, <1>9, <1>10, ShownOnce
<1>11. CASE OfFile(d, f) # {}
  <2>1. PICK x \in OfFile(d, f) : TRUE
    BY <1>11
  <2>2. Shown(d, f, v) = Brings(x, f, v)
    BY <1>9, ShownOnce
  <2>3. x \in Proper /\ x.type \in Types
    BY LenProperties DEF OfFile, Proper, Event
  <2>4. Brings(x, f, v) = Shown(in, f, v)
    BY <1>9, <2>3 DEF Stands, Brings, Value, Types
  <2>. QED  BY <1>8, <2>2, <2>4
<1>. QED  BY <1>10, <1>11

-----------------------------------------------------------------------------
(***************************************************************************)
(* What waits for a client: a channel, the rows of its stream, a buffer.   *)
(* In this order they take it from v to w, and a flush may merge the last  *)
(* two.                                                                    *)
(***************************************************************************)
Events(r) == [j \in DOMAIN r |-> r[j].event]
Carries(ch, r, buffer, f, v, w) ==
  /\ Coherent(Events(r) \o buffer, f, Shown(ch, f, v))
  /\ w = Shown(Events(r) \o buffer, f, Shown(ch, f, v))

LEMMA EventsOfRows ==
  ASSUME NEW r \in Seq(RowRecord)
  PROVE  Events(r) \in Seq(Proper) /\ Len(Events(r)) = Len(r) /\ \A j \in 1 .. Len(r) : Events(r)[j] = r[j].event
<1>1. PICK n \in Nat : n = Len(r) /\ DOMAIN r = 1 .. n /\ \A j \in 1 .. n : r[j] \in RowRecord
  BY LenProperties
<1>2. PICK e : e = Events(r)
  OBVIOUS
<1>3. e = [j \in 1 .. n |-> r[j].event]
  BY <1>1, <1>2 DEF Events
<1>4. e \in [1 .. n -> Proper] /\ \A j \in 1 .. n : e[j] = r[j].event
  BY <1>1, <1>3 DEF RowRecord
<1>5. e \in Seq(Proper)
  BY <1>4, SeqDef
<1>6. Len(e) = n
  <2>1. DOMAIN e = 1 .. n /\ DOMAIN e = 1 .. Len(e) /\ Len(e) \in Nat
    BY <1>4, <1>5, LenProperties
  <2>. QED  BY ONLY <2>1, <1>1
<1>. QED  BY <1>1, <1>2, <1>4, <1>5, <1>6

LEMMA EventsEmpty == Events(<<>>) = <<>>
<1>1. <<>> \in Seq(RowRecord) /\ Len(<<>>) = 0
  BY EmptySeq
<1>2. Events(<<>>) \in Seq(Proper) /\ Len(Events(<<>>)) = 0
  BY <1>1, EventsOfRows
<1>. QED  BY <1>2, EmptySeq

LEMMA EventsConcat ==
  ASSUME NEW r \in Seq(RowRecord), NEW b \in Seq(Proper), NEW st \in Streams,
         NEW new, new = [j \in DOMAIN b |-> [event |-> b[j], stream |-> st]]
  PROVE  /\ new \in Seq(RowRecord) /\ r \o new \in Seq(RowRecord)
         /\ Events(r \o new) = Events(r) \o b
<1>1. PICK n \in Nat : n = Len(b) /\ DOMAIN b = 1 .. n /\ \A j \in 1 .. n : b[j] \in Proper
  BY LenProperties
<1>2. new \in [1 .. n -> RowRecord] /\ \A j \in 1 .. n : new[j].event = b[j]
  BY <1>1 DEF RowRecord
<1>3. new \in Seq(RowRecord)
  BY <1>1, <1>2, SeqDef
<1>4. Len(new) = n
  <2>1. DOMAIN new = 1 .. n /\ DOMAIN new = 1 .. Len(new) /\ Len(new) \in Nat
    BY <1>2, <1>3, LenProperties
  <2>. QED  BY ONLY <2>1, <1>1
<1>5. PICK all \in Seq(RowRecord) : all = r \o new
  BY <1>3, ConcatProperties
<1>6. PICK m \in Nat : m = Len(r)
  BY LenProperties
<1>7. Len(all) = m + n /\ \A j \in 1 .. m + n : all[j] = IF j <= m THEN r[j] ELSE new[j - m]
  BY <1>3, <1>4, <1>5, <1>6, ConcatProperties
<1>8. /\ Events(all) \in Seq(Proper) /\ Len(Events(all)) = m + n
      /\ \A j \in 1 .. m + n : Events(all)[j] = all[j].event
  BY <1>7, EventsOfRows
<1>9. Events(r) \in Seq(Proper) /\ Len(Events(r)) = m /\ \A j \in 1 .. m : Events(r)[j] = r[j].event
  BY <1>6, EventsOfRows
<1>10. /\ Events(r) \o b \in Seq(Proper) /\ Len(Events(r) \o b) = m + n
       /\ \A j \in 1 .. m + n : (Events(r) \o b)[j] = IF j <= m THEN Events(r)[j] ELSE b[j - m]
  BY <1>1, <1>9, ConcatProperties
<1>11. ASSUME NEW j \in 1 .. m + n PROVE Events(all)[j] = (Events(r) \o b)[j]
  <2>1. CASE j <= m
    <3>1. j \in 1 .. m
      BY <2>1
    <3>2. all[j] = r[j] /\ (Events(r) \o b)[j] = Events(r)[j]
      BY <1>7, <1>10, <2>1
    <3>. QED  BY <1>8, <1>9, <3>1, <3>2
  <2>2. CASE ~(j <= m)
    <3>1. j - m \in 1 .. n
      BY <2>2
    <3>2. all[j] = new[j - m] /\ (Events(r) \o b)[j] = b[j - m]
      BY <1>7, <1>10, <2>2
    <3>. QED  BY <1>2, <1>8, <3>1, <3>2
  <2>. QED  BY <2>1, <2>2
<1>. QED  BY <1>3, <1>5, <1>8, <1>10, <1>11, SeqEqual

LEMMA CarriesNothing ==
  ASSUME NEW f, NEW v
  PROVE  Carries(<<>>, <<>>, <<>>, f, v, v)
<1>1. <<>> \o <<>> = <<>>
  <2>1. <<>> \in Seq(Proper)
    BY EmptySeq
  <2>. QED  BY <2>1, ConcatEmptySeq
<1>. QED  BY <1>1, EventsEmpty, ShownEmpty DEF Carries

LEMMA CarriesTyped ==
  ASSUME NEW ch \in Seq(Proper), NEW r \in Seq(RowRecord), NEW b \in Seq(Proper), NEW f,
         NEW v \in Names \cup {None}, NEW w, Carries(ch, r, b, f, v, w)
  PROVE  Shown(ch, f, v) \in Names \cup {None} /\ w \in Names \cup {None}
<1>1. \A s \in Seq(Proper) : Len(s) \in 0 .. Len(s)
  BY LenProperties
<1>2. \A s \in Seq(Proper), u \in Names \cup {None} : Shown(s, f, u) \in Names \cup {None}
  BY <1>1, AfterTyped DEF Shown
<1>3. Events(r) \o b \in Seq(Proper)
  BY EventsOfRows, ConcatProperties
<1>. QED  BY <1>2, <1>3 DEF Carries

LEMMA CarriesOneMore ==
  ASSUME NEW ch \in Seq(Proper), NEW r \in Seq(RowRecord), NEW b \in Seq(Proper), NEW f, NEW v, NEW w,
         NEW e \in Proper, Carries(ch, r, b, f, v, w), e.file = f => Suits(e, w)
  PROVE  Carries(ch, r, Append(b, e), f, v, Brings(e, f, w))
<1>1. PICK a \in Seq(Proper) : a = Events(r)
  BY EventsOfRows
<1>2. PICK s \in Seq(Proper) : s = a \o b
  BY ConcatProperties
<1>3. a \o Append(b, e) = Append(s, e)
  <2>1. <<e>> \in Seq(Proper) /\ Append(b, e) = b \o <<e>> /\ Append(s, e) = s \o <<e>>
    BY AppendIsConcat
  <2>. QED  BY <1>2, <2>1, ConcatAssociative
<1>4. PICK c : c = Shown(ch, f, v)
  OBVIOUS
<1>5. Coherent(s, f, c) /\ w = Shown(s, f, c)
  BY <1>1, <1>2, <1>4 DEF Carries
<1>6. Shown(Append(s, e), f, c) = Brings(e, f, w) /\ Coherent(Append(s, e), f, c)
  BY <1>5, ShownAppend
<1>. QED  BY <1>1, <1>3, <1>4, <1>6 DEF Carries

\* a flush to the channel
LEMMA CarriesFlushed ==
  ASSUME NEW ch \in Seq(Proper), NEW b \in Seq(Proper), NEW f \in Files, NEW v \in Names \cup {None}, NEW w,
         Carries(ch, <<>>, b, f, v, w), ~DeletedTwice(b, f)
  PROVE  Carries(ch \o DebounceEvents(b), <<>>, <<>>, f, v, w)
<1>1. <<>> \in Seq(RowRecord) /\ <<>> \in Seq(Proper)
  BY EmptySeq
<1>2. PICK c \in Names \cup {None} : c = Shown(ch, f, v)
  BY <1>1, CarriesTyped
<1>3. <<>> \o b = b /\ <<>> \o <<>> = <<>>
  BY <1>1, ConcatEmptySeq
<1>4. Coherent(b, f, c) /\ w = Shown(b, f, c)
  BY <1>2, <1>3, EventsEmpty DEF Carries
<1>5. Shown(DebounceEvents(b), f, c) = w
  BY <1>4, DebounceShows
<1>6. Shown(ch \o DebounceEvents(b), f, v) = w
  BY <1>2, <1>5, DebounceProper, ShownConcat
<1>. QED  BY <1>3, <1>6, EventsEmpty, ShownEmpty DEF Carries

\* a flush to the database
LEMMA CarriesStored ==
  ASSUME NEW ch, NEW r \in Seq(RowRecord), NEW b \in Seq(Proper), NEW st \in Streams, NEW f, NEW v, NEW w,
         Carries(ch, r, b, f, v, w),
         NEW new, new = [j \in DOMAIN b |-> [event |-> b[j], stream |-> st]]
  PROVE  Carries(ch, r \o new, <<>>, f, v, w)
<1>1. Events(r \o new) = Events(r) \o b
  BY EventsConcat
<1>2. PICK s \in Seq(Proper) : s = Events(r) \o b
  BY EventsOfRows, ConcatProperties
<1>3. s \o <<>> = s
  BY ConcatEmptySeq
<1>. QED  BY <1>1, <1>2, <1>3 DEF Carries

\* back online
LEMMA CarriesResumed ==
  ASSUME NEW ch, NEW r \in Seq(RowRecord), NEW b \in Seq(Proper), NEW f, NEW v, NEW w,
         Carries(ch, r, b, f, v, w), r = <<>> \/ b = <<>>
  PROVE  Carries(ch, <<>>, b \o Events(r), f, v, w)
<1>1. PICK a \in Seq(Proper) : a = Events(r)
  BY EventsOfRows
<1>2. b \o a \in Seq(Proper) /\ \A s \in Seq(Proper) : s \o <<>> = s /\ <<>> \o s = s
  BY ConcatEmptySeq, ConcatProperties
<1>3. <<>> \o (b \o a) = a \o b
  <2>1. <<>> \o (b \o a) = b \o a
    BY <1>2
  <2>2. CASE r = <<>>
    <3>1. a = <<>>
      BY <1>1, <2>2, EventsEmpty
    <3>. QED  BY <1>2, <2>1, <3>1
  <2>3. CASE b = <<>>
    BY <1>2, <2>1, <2>3
  <2>. QED  BY <2>2, <2>3
<1>. QED  BY <1>1, <1>3, EventsEmpty DEF Carries

\* an event leaves the channel
LEMMA CarriesSent ==
  ASSUME NEW ch \in Seq(Proper), ch # <<>>, NEW r, NEW b, NEW f, NEW v, NEW w, Carries(ch, r, b, f, v, w)
  PROVE  Carries(Tail(ch), r, b, f, Brings(Head(ch), f, v), w)
BY ShownTail DEF Carries

\* what has been told already is told again to a client that lists the folder
LEMMA CarriesAgain ==
  ASSUME NEW ch, NEW f, NEW v, NEW w, Carries(ch, <<>>, <<>>, f, v, w)
  PROVE  Carries(ch, <<>>, <<>>, f, w, w)
<1>1. <<>> \o <<>> = <<>>
  <2>1. <<>> \in Seq(Proper)
    BY EmptySeq
  <2>. QED  BY <2>1, ConcatEmptySeq
<1>2. w = Shown(ch, f, v)
  BY <1>1, EventsEmpty, ShownEmpty DEF Carries
<1>3. Shown(ch, f, w) = w
  BY <1>2 DEF Shown, After
<1>. QED  BY <1>1, <1>3, EventsEmpty, ShownEmpty DEF Carries

-----------------------------------------------------------------------------
(***************************************************************************)
(* A stream that is followed: there is a listing (the one the client       *)
(* shows, once it has listed the folder) which the channel, the rows and   *)
(* the buffer, and what is still to be published, take to the folder as it *)
(* is.                                                                     *)
(***************************************************************************)
OneStreamEach == \A s, t \in Streams : Client(s) = Client(t) => s = t

NameIn(st, place) == IF place # None /\ place[1] = Topic(st) THEN place[2] ELSE None

\* subscriber h is still to get at most one event, which takes w to there
Due(h, e, f, w, there) ==
  \/ w = there /\ \A m \in e.to : m.sub # h
  \/ \E m \in e.to : /\ m.sub = h /\ \A o \in e.to : o.sub = h => o = m
                     /\ m.event.file = f /\ Suits(m.event, w) /\ Brings(m.event, f, w) = there
Arrives(st, h, e, place, f, w) ==
  /\ e.op = "none" => w = NameIn(st, place)
  /\ e.op = "publish" => Due(h, e, f, w, NameIn(st, place))
  /\ e.op \notin {"none", "publish"} => w = NameIn(st, e.old)
Follows(st, v) ==
  \A f \in Files : \E w \in Names \cup {None} :
    /\ Carries(sub[hub[st]].ch, rows[Client(st)], sub[hub[st]].buffer, f, v[f], w)
    /\ Arrives(st, hub[st], emitting[f], server[f], f, w)

Greeted(st) == \E k \in Conns : conn[k].pc = "subscribed" /\ conn[k].stream = st
Tracked(st) ==
  hub[st] # NoSub /\ view[st] # Unknown =>
    /\ sub[hub[st]].online => rows[Client(st)] = <<>>
    /\ \E v \in View : Follows(st, v) /\ (Greeted(st) \/ v = view[st])
Followed == \A st \in Streams : Tracked(st)

\* who is open is in the hub; a client has one connection, to the one in the hub
InHub == \A i \in Subs : ~sub[i].closed => hub[sub[i].stream] = i
Connected(k) == conn[k].pc \in {"subscribed", "resumed"}
Live ==
  \A k \in Conns : Connected(k) =>
    /\ hub[conn[k].stream] \in {NoSub, conn[k].ch}
    /\ \A j \in Conns : Connected(j) /\ conn[j].stream = conn[k].stream => j = k
Attached == \A k \in Conns : conn[k].pc # "idle" => sub[conn[k].ch].stream = conn[k].stream
Held == \A f \in Files : \A m \in emitting[f].to : sub[m.sub].stream # None

\* an operation knows where the file was and has put it where it is
Shape(e, place) ==
  /\ e.op = "none" => e = Quiet
  /\ e.op \notin {"none", "publish"} => place = e.new
  /\ e.op = "create" => e.old = None
  /\ e.op = "modify" => e.new = e.old
  /\ e.op = "rename" => e.new[1] = e.old[1]
  /\ e.op = "delete" => e.new = None
  /\ e.op = "move" => e.new[1] # e.old[1]
Shaped == \A f \in Files : Shape(emitting[f], server[f])

ConvInv == Followed /\ InHub /\ Live /\ Attached /\ Held /\ Shaped

LEMMA TrackedSame ==
  ASSUME HubInv, NEW st \in Streams, Tracked(st), hub'[st] = hub[st], UNCHANGED <<server, emitting>>,
         hub[st] # NoSub => /\ sub'[hub[st]].ch = sub[hub[st]].ch /\ sub'[hub[st]].buffer = sub[hub[st]].buffer
                            /\ sub'[hub[st]].online => sub[hub[st]].online,
         rows'[Client(st)] = rows[Client(st)], view'[st] \in {view[st], Unknown}, Greeted(st) => Greeted(st)'
  PROVE  Tracked(st)'
<1>. SUFFICES ASSUME hub[st] # NoSub, view[st] # Unknown, view'[st] = view[st]
     PROVE  /\ sub'[hub[st]].online => rows'[Client(st)] = <<>>
            /\ \E v \in View : Follows(st, v)' /\ (Greeted(st)' \/ v = view'[st])
  BY DEF Tracked
<1>1. sub'[hub[st]].online => rows'[Client(st)] = <<>>
  BY DEF Tracked
<1>2. PICK v \in View : Follows(st, v) /\ (Greeted(st) \/ v = view[st])
  BY DEF Tracked
<1>3. Follows(st, v)'
  BY <1>2 DEF Follows
<1>. QED  BY <1>1, <1>2, <1>3

LEMMA HubOne ==
  ASSUME HubInv, NEW st \in Streams, NEW i \in Subs, hub[st] = i
  PROVE  /\ sub[i].stream = st /\ ~sub[i].closed /\ i # NoSub /\ sub[i] \in SubRecord /\ Client(st) \in Clients
         /\ sub[i].buffer \in Seq(Proper) /\ sub[i].ch \in Seq(Proper) /\ Len(sub[i].ch) <= ChanSize
         /\ rows[Client(st)] \in Seq(RowRecord)
         /\ \A t \in Streams : hub[t] = i => t = st
<1>1. i # NoSub
  BY BoundsAssumption DEF Subs, NoSub
<1>2. sub[i] \in SubRecord /\ Fit(sub[i]) /\ \A t \in Streams : hub[t] = i => ~sub[i].closed /\ sub[i].stream = t
  BY <1>1, Parts DEF SubsFine, OpenServed, Fits
<1>3. Client(st) \in Clients
  BY StreamsAssumption DEF Client
<1>4. rows[Client(st)] \in Seq(RowRecord)
  BY <1>3, Parts DEF ListingsFine
<1>. QED  BY <1>1, <1>2, <1>3, <1>4 DEF SubRecord, Fit

(***************************************************************************)
(* What keeps the rest of the invariant: subscribers that stay of the same *)
(* stream and as open as they were, connections that go on or end.         *)
(***************************************************************************)
SameSubs == \A i \in Subs : sub'[i].stream = sub[i].stream /\ sub'[i].closed = sub[i].closed
GoesOn(k, c) ==
  \/ c.pc = "idle"
  \/ /\ c.stream = conn[k].stream /\ c.ch = conn[k].ch /\ conn[k].pc # "idle"
     /\ c.pc \in {"subscribed", "resumed"} => conn[k].pc \in {"subscribed", "resumed"}

LEMMA ChangedSame ==
  ASSUME HubInv, NEW i \in Subs, NEW x, sub' = [sub EXCEPT ![i] = x],
         x.stream = sub[i].stream, x.closed = sub[i].closed
  PROVE  SameSubs /\ \A j \in Subs : sub'[j] = IF j = i THEN x ELSE sub[j]
BY Parts DEF SubsFine, SameSubs

LEMMA HubKept ==
  ASSUME HubInv, ConvInv, SameSubs, UNCHANGED <<hub, server, emitting>>
  PROVE  InHub' /\ Held' /\ Shaped'
<1>1. InHub'
  BY DEF ConvInv, InHub, SameSubs
<1>2. Held'
  <2>1. \A f \in Files : \A m \in emitting[f].to : m.sub \in Subs
    BY Parts DEF FilesFine, EmissionRecord, Message
  <2>. QED  BY <2>1 DEF ConvInv, Held, SameSubs
<1>. QED  BY <1>1, <1>2 DEF ConvInv, Shaped

LEMMA ConnsKept ==
  ASSUME HubInv, ConvInv, SameSubs, UNCHANGED <<hub, conn>>
  PROVE  Live' /\ Attached' /\ \A st \in Streams : Greeted(st)' <=> Greeted(st)
<1>1. \A k \in Conns : conn[k].pc # "idle" => conn[k].ch \in Subs
  BY Parts DEF HandlersFine
<1>2. Live'
  BY DEF ConvInv, Live, Connected
<1>3. Attached'
  BY <1>1 DEF ConvInv, Attached, SameSubs
<1>. QED  BY <1>2, <1>3 DEF Greeted

LEMMA GreetedKept ==
  ASSUME HubInv, NEW k \in Conns, NEW c, conn' = [conn EXCEPT ![k] = c], NEW st \in Streams, Greeted(st),
         conn[k].pc # "subscribed" \/ conn[k].stream # st
  PROVE  Greeted(st)'
<1>1. \A j \in Conns : conn'[j] = IF j = k THEN c ELSE conn[j]
  BY Parts DEF HandlersFine
<1>. QED  BY <1>1 DEF Greeted

LEMMA ConnMoves ==
  ASSUME HubInv, ConvInv, SameSubs, hub' = hub, NEW k \in Conns, NEW c, conn' = [conn EXCEPT ![k] = c],
         GoesOn(k, c)
  PROVE  Live' /\ Attached'
<1>1. /\ \A j \in Conns : conn[j].pc # "idle" => conn[j].ch \in Subs
      /\ \A j \in Conns : conn'[j] = IF j = k THEN c ELSE conn[j]
  BY Parts DEF HandlersFine
<1>2. \A j \in Conns : Connected(j)' => Connected(j) /\ conn'[j].stream = conn[j].stream /\ conn'[j].ch = conn[j].ch
  BY <1>1 DEF Connected, GoesOn
<1>3. Live'
  BY <1>2 DEF ConvInv, Live
<1>4. Attached'
  <2>1. \A j \in Conns : conn'[j].pc # "idle" =>
           conn[j].pc # "idle" /\ conn'[j].stream = conn[j].stream /\ conn'[j].ch = conn[j].ch
    BY <1>1 DEF GoesOn
  <2>. QED  BY <1>1, <2>1 DEF ConvInv, Attached, SameSubs
<1>. QED  BY <1>3, <1>4

LEMMA FrameConv ==
  ASSUME HubInv, ConvInv, SameSubs, UNCHANGED <<hub, server, emitting>>, Followed', Live', Attached'
  PROVE  ConvInv'
BY HubKept DEF ConvInv

-----------------------------------------------------------------------------
(***************************************************************************)
(* A flush leaves the stream of its subscriber followed, or the client is  *)
(* known to have missed something.                                         *)
(***************************************************************************)
LEMMA SentAll ==
  ASSUME NEW ch \in Seq(Proper), NEW events \in Seq(Proper), Len(ch) + Len(events) <= ChanSize
  PROVE  Sent(ch, events) = ch \o events
<1>1. PICK n : n = IF Len(events) < ChanSize - Len(ch) THEN Len(events) ELSE ChanSize - Len(ch)
  OBVIOUS
<1>2. n = Len(events)
  <2>1. ChanSize \in Nat /\ Len(ch) \in Nat /\ Len(events) \in Nat
    BY BoundsAssumption, LenProperties
  <2>. QED  BY <1>1, <2>1
<1>3. SubSeq(events, 1, n) = events
  BY <1>2, SubSeqFull
<1>4. Sent(ch, events) = ch \o SubSeq(events, 1, n)
  BY <1>1 DEF Sent
<1>. QED  BY <1>3, <1>4

\* the stream of one subscriber, and the others
LEMMA OthersTracked ==
  ASSUME HubInv, ConvInv, OneStreamEach, NEW i \in Subs, NEW st \in Streams, hub[st] = i,
         \A j \in Subs : j # i => sub'[j] = sub[j],
         \A c \in Clients : c # Client(st) => rows'[c] = rows[c],
         \A t \in Streams : t # st => view'[t] = view[t],
         \A t \in Streams : t # st => (Greeted(t) => Greeted(t)'),
         UNCHANGED <<hub, server, emitting>>, Tracked(st)'
  PROVE  Followed'
<1>. SUFFICES ASSUME NEW t \in Streams, t # st PROVE Tracked(t)'
  BY DEF Followed
<1>1. hub[t] # NoSub => hub[t] \in Subs /\ hub[t] # i
  BY HubOne, Parts DEF HandlersFine
<1>2. Client(t) \in Clients /\ Client(t) # Client(st)
  BY StreamsAssumption DEF OneStreamEach, Client
<1>3. hub[t] # NoSub => sub'[hub[t]] = sub[hub[t]]
  BY <1>1
<1>4. rows'[Client(t)] = rows[Client(t)] /\ view'[t] = view[t]
  BY <1>2
<1>5. Tracked(t)
  BY DEF ConvInv, Followed
<1>. QED  BY <1>3, <1>4, <1>5, TrackedSame

LEMMA FollowsOn ==
  ASSUME HubInv, NEW st \in Streams, NEW i \in Subs, hub[st] = i, UNCHANGED <<hub, server, emitting>>,
         NEW v \in View, Follows(st, v), NEW u \in View,
         \A f \in Files : \A w \in Names \cup {None} :
            Carries(sub[i].ch, rows[Client(st)], sub[i].buffer, f, v[f], w)
              => Carries(sub'[i].ch, rows'[Client(st)], sub'[i].buffer, f, u[f], w)
  PROVE  Follows(st, u)'
BY DEF Follows

LEMMA TrackedOn ==
  ASSUME NEW st \in Streams, hub[st] \in Subs, hub' = hub,
         Greeted(st) => Greeted(st)', view'[st] = view[st], Tracked(st),
         sub'[hub[st]].online => rows'[Client(st)] = <<>>,
         \A v \in View : Follows(st, v) => Follows(st, v)'
  PROVE  Tracked(st)'
<1>. SUFFICES ASSUME hub[st] # NoSub, view[st] # Unknown
     PROVE  \E v \in View : Follows(st, v)' /\ (Greeted(st)' \/ v = view[st])
  BY DEF Tracked
<1>1. PICK v \in View : Follows(st, v) /\ (Greeted(st) \/ v = view[st])
  BY DEF Tracked
<1>. QED  BY <1>1

LEMMA FlushTracks ==
  ASSUME HubInv, ConvInv, OneStreamEach, NEW i \in Subs, NEW s \in SubRecord,
         s.closed = sub[i].closed, s.stream = sub[i].stream, s.ch = sub[i].ch, s.buffer = sub[i].buffer,
         s.timer => s.flushes < MaxFlushes, s.online => sub[i].online, FlushLocked(i, s),
         UNCHANGED <<hub, server, emitting>>, \A st \in Streams : Greeted(st) => Greeted(st)'
  PROVE  Followed' /\ SameSubs
<1>1. ASSUME sub' = [sub EXCEPT ![i] = s], rows' = rows, view' = view
      PROVE  Followed' /\ SameSubs
  <2>1. SameSubs /\ \A j \in Subs : sub'[j] = IF j = i THEN s ELSE sub[j]
    BY <1>1, ChangedSame
  <2>2. ASSUME NEW t \in Streams PROVE Tracked(t)'
    <3>1. hub[t] # NoSub => hub[t] \in Subs
      BY Parts DEF HandlersFine
    <3>2. Tracked(t) /\ view'[t] = view[t] /\ rows'[Client(t)] = rows[Client(t)]
      BY <1>1 DEF ConvInv, Followed
    <3>3. hub[t] # NoSub => /\ sub'[hub[t]].ch = sub[hub[t]].ch /\ sub'[hub[t]].buffer = sub[hub[t]].buffer
                            /\ sub'[hub[t]].online => sub[hub[t]].online
      BY <2>1, <3>1
    <3>. QED  BY <3>2, <3>3, TrackedSame
  <2>. QED  BY <2>1, <2>2 DEF Followed
<1>2. CASE s.buffer = <<>> \/ s.closed
  BY <1>1, <1>2 DEF FlushLocked
<1>3. CASE s.buffer # <<>> /\ ~s.closed
  <2>1. PICK st \in Streams : st = s.stream /\ hub[st] = i
    <3>1. s.stream \in Streams
      BY <1>3, Parts DEF SubsFine, Fits, Fit
    <3>. QED  BY <1>3, <3>1 DEF ConvInv, InHub
  <2>2. PICK c \in SubRecord : /\ c = Cleared(s) /\ c.stream = s.stream /\ c.closed = s.closed
                               /\ c.online = s.online /\ c.buffer = <<>> /\ c.ch = s.ch
    BY ClearedTyped
  <2>3. PICK r \in Seq(RowRecord) : r = rows[Client(st)]
    BY <2>1, HubOne
  <2>4. PICK b \in Seq(Proper), ch \in Seq(Proper) : b = s.buffer /\ ch = s.ch
    BY DEF SubRecord
  <2>5. Tracked(st) /\ view \in [Streams -> View \cup {Unknown}] /\ rows \in [Clients -> Seq(RowRecord)]
    BY Parts DEF ConvInv, Followed, ListingsFine
  <2>6. Client(st) \in Clients
    BY <2>1, HubOne
  <2>7. ASSUME view' = [view EXCEPT ![st] = Unknown]
        PROVE  Tracked(st)' /\ \A t \in Streams : t # st => view'[t] = view[t]
    BY <2>5, <2>7 DEF Tracked
  <2>8. CASE s.online
    <3>1. FlushOnline(i, s)
      BY <1>3, <2>8 DEF FlushLocked
    <3>2. PICK d \in Seq(Proper) : d = DebounceEvents(b)
      BY DebounceProper
    <3>3. PICK x : x = [c EXCEPT !.ch = Sent(ch, d)]
      OBVIOUS
    <3>4. /\ x.stream = s.stream /\ x.closed = s.closed /\ x.online = s.online
          /\ x.buffer = <<>> /\ x.ch = Sent(ch, d)
      BY <2>2, <3>3 DEF SubRecord
    <3>5. sub' = [sub EXCEPT ![i] = x] /\ rows' = rows
      BY <2>2, <2>4, <3>1, <3>2, <3>3 DEF FlushOnline
    <3>6. SameSubs /\ \A j \in Subs : sub'[j] = IF j = i THEN x ELSE sub[j]
      BY <3>4, <3>5, ChangedSame
    <3>7. PICK why \in BOOLEAN : why = (Len(ch) + Len(d) > ChanSize \/ \E f \in Files : DeletedTwice(b, f))
      OBVIOUS
    <3>8. IF why THEN view' = [view EXCEPT ![st] = Unknown] ELSE view' = view
      BY <2>1, <2>4, <3>1, <3>2, <3>7 DEF FlushOnline, MissedIf, Missed
    <3>9. \A t \in Streams : t # st => view'[t] = view[t]
      BY <2>7, <3>8
    <3>10. Tracked(st)'
      <4>1. CASE why
        BY <2>7, <3>8, <4>1
      <4>2. CASE ~why
        <5>1. view[st] = Unknown \/ r = <<>>
          BY <2>1, <2>3, <2>5, <2>8, HubOne DEF Tracked
        <5>2. CASE view[st] = Unknown
          BY <3>8, <4>2, <5>2 DEF Tracked
        <5>3. CASE r = <<>>
          <6>1. Len(ch) + Len(d) <= ChanSize /\ \A f \in Files : ~DeletedTwice(b, f)
            <7>1. Len(ch) \in Nat /\ Len(d) \in Nat /\ ChanSize \in Nat
              BY LenProperties, BoundsAssumption
            <7>2. ~(Len(ch) + Len(d) > ChanSize) /\ \A f \in Files : ~DeletedTwice(b, f)
              BY <3>7, <4>2
            <7>. QED  BY <7>1, <7>2
          <6>2. sub'[i].ch = ch \o DebounceEvents(b) /\ sub'[i].buffer = <<>>
            BY <3>2, <3>4, <3>6, <6>1, SentAll
          <6>3. ASSUME NEW v \in View, Follows(st, v) PROVE Follows(st, v)'
            <7>1. ASSUME NEW f \in Files, NEW w \in Names \cup {None},
                         Carries(sub[i].ch, rows[Client(st)], sub[i].buffer, f, v[f], w)
                  PROVE  Carries(sub'[i].ch, rows'[Client(st)], sub'[i].buffer, f, v[f], w)
              <8>1. Carries(ch, <<>>, b, f, v[f], w) /\ v[f] \in Names \cup {None}
                BY <2>3, <2>4, <5>3, <7>1 DEF View
              <8>2. Carries(ch \o DebounceEvents(b), <<>>, <<>>, f, v[f], w)
                BY <6>1, <8>1, CarriesFlushed
              <8>. QED  BY <2>3, <3>5, <5>3, <6>2, <8>2
            <7>. QED  BY <2>1, <6>3, <7>1, FollowsOn
          <6>4. view'[st] = view[st] /\ hub[st] \in Subs /\ rows'[Client(st)] = <<>>
            BY <2>1, <2>3, <3>5, <3>8, <4>2, <5>3
          <6>. QED  BY <2>5, <6>3, <6>4, TrackedOn
        <5>. QED  BY <5>1, <5>2, <5>3
      <4>. QED  BY <4>1, <4>2
    <3>. QED  BY <2>1, <3>5, <3>6, <3>9, <3>10, OthersTracked
  <2>9. ASSUME ~s.online, sub' = [sub EXCEPT ![i] = c],
               \A e \in Clients : e # Client(st) => rows'[e] = rows[e],
               \A t \in Streams : t # st => view'[t] = view[t], Tracked(st)'
        PROVE  Followed' /\ SameSubs
    <3>0. c.stream = sub[i].stream /\ c.closed = sub[i].closed /\ sub' = [sub EXCEPT ![i] = c]
      BY <2>2, <2>9
    <3>1. SameSubs /\ \A j \in Subs : sub'[j] = IF j = i THEN c ELSE sub[j]
      BY <3>0, ChangedSame
    <3>. QED  BY <2>1, <2>9, <3>1, OthersTracked
  <2>10. CASE ~s.online /\ StoreRows(i, s)
    <3>1. sub' = [sub EXCEPT ![i] = c] /\ view' = view
      BY <2>2, <2>10 DEF StoreRows
    <3>2. PICK new : new = [j \in DOMAIN b |-> [event |-> b[j], stream |-> st]]
      OBVIOUS
    <3>3. rows' = [rows EXCEPT ![Client(st)] = r \o new]
      BY <2>1, <2>3, <2>4, <2>10, <3>2 DEF StoreRows
    <3>4. rows'[Client(st)] = r \o new /\ \A e \in Clients : e # Client(st) => rows'[e] = rows[e]
      BY <2>5, <2>6, <3>3
    <3>5. sub'[i].ch = ch /\ sub'[i].buffer = <<>> /\ ~sub'[i].online
      <4>1. sub'[i] = c
        BY <3>1, Parts DEF SubsFine
      <4>. QED  BY <2>2, <2>4, <2>10, <4>1
    <3>6. ASSUME NEW v \in View, Follows(st, v) PROVE Follows(st, v)'
      <4>1. ASSUME NEW f \in Files, NEW w \in Names \cup {None},
                   Carries(sub[i].ch, rows[Client(st)], sub[i].buffer, f, v[f], w)
            PROVE  Carries(sub'[i].ch, rows'[Client(st)], sub'[i].buffer, f, v[f], w)
        <5>1. Carries(ch, r, b, f, v[f], w)
          BY <2>3, <2>4, <4>1
        <5>2. Carries(ch, r \o new, <<>>, f, v[f], w)
          BY <3>2, <5>1, CarriesStored
        <5>. QED  BY <3>4, <3>5, <5>2
      <4>. QED  BY <2>1, <3>6, <4>1, FollowsOn
    <3>7. Tracked(st)'
      <4>1. view'[st] = view[st] /\ hub[st] \in Subs /\ ~sub'[hub[st]].online
        BY <2>1, <3>1, <3>5
      <4>. QED  BY <2>5, <3>6, <4>1, TrackedOn
    <3>. QED  BY <2>9, <2>10, <3>1, <3>4, <3>7
  <2>11. CASE ~s.online /\ RowsLost(i, s)
    <3>1. sub' = [sub EXCEPT ![i] = c] /\ rows' = rows /\ view' = [view EXCEPT ![st] = Unknown]
      BY <2>1, <2>2, <2>11 DEF RowsLost, Missed
    <3>. QED  BY <2>7, <2>9, <2>11, <3>1
  <2>12. CASE ~s.online /\ OwnerUnknown(i, s)
    <3>1. sub' = [sub EXCEPT ![i] = s] /\ rows' = rows /\ view' = view
      BY <2>12 DEF OwnerUnknown
    <3>. QED  BY <1>1, <3>1
  <2>. QED  BY <1>3, <2>8, <2>10, <2>11, <2>12 DEF FlushLocked
<1>. QED  BY <1>2, <1>3

-----------------------------------------------------------------------------
(***************************************************************************)
(* The steps of timers and handlers.                                       *)
(***************************************************************************)
LEMMA TimerFiresConv ==
  ASSUME HubInv, ConvInv, NEW i \in Subs, TimerFires(i)
  PROVE  ConvInv'
<1>1. PICK n : n = sub[i].flushes + 1
  OBVIOUS
<1>2. PICK x : x = [sub[i] EXCEPT !.timer = FALSE, !.flushes = n]
  OBVIOUS
<1>3. /\ x.buffer = sub[i].buffer /\ x.ch = sub[i].ch /\ x.online = sub[i].online
      /\ x.closed = sub[i].closed /\ x.stream = sub[i].stream
  <2>1. sub[i] \in SubRecord
    BY Parts DEF SubsFine
  <2>. QED  BY <1>2, <2>1 DEF SubRecord
<1>4. sub' = [sub EXCEPT ![i] = x] /\ UNCHANGED <<server, emitting, hub, up, rows, conn, view, faults>>
  BY <1>1, <1>2, Parts DEF TimerFires, fileVars, SubsFine
<1>5. SameSubs /\ \A j \in Subs : sub'[j] = IF j = i THEN x ELSE sub[j]
  BY <1>3, <1>4, ChangedSame
<1>6. Live' /\ Attached' /\ \A st \in Streams : Greeted(st)' <=> Greeted(st)
  BY <1>4, <1>5, ConnsKept
<1>7. ASSUME NEW st \in Streams PROVE Tracked(st)'
  <2>1. hub[st] # NoSub => hub[st] \in Subs
    BY Parts DEF HandlersFine
  <2>2. Tracked(st)
    BY DEF ConvInv, Followed
  <2>3. hub[st] # NoSub => /\ sub'[hub[st]].ch = sub[hub[st]].ch /\ sub'[hub[st]].buffer = sub[hub[st]].buffer
                           /\ sub'[hub[st]].online => sub[hub[st]].online
    BY <1>3, <1>5, <2>1
  <2>. QED  BY <1>4, <1>6, <2>2, <2>3, TrackedSame
<1>. QED  BY <1>4, <1>5, <1>6, <1>7, FrameConv DEF Followed

LEMMA FlushConv ==
  ASSUME HubInv, ConvInv, OneStreamEach, NEW i \in Subs, Flush(i)
  PROVE  ConvInv'
<1>1. sub[i] \in SubRecord
  BY Parts DEF SubsFine
<1>2. PICK n : n = sub[i].flushes - 1
  OBVIOUS
<1>3. n \in 0 .. MaxFlushes /\ n < MaxFlushes
  BY <1>1, <1>2, BoundsAssumption DEF Flush, SubRecord
<1>4. PICK s : s = [sub[i] EXCEPT !.flushes = n]
  OBVIOUS
<1>5. /\ s \in SubRecord /\ s.flushes = n /\ s.buffer = sub[i].buffer /\ s.ch = sub[i].ch
      /\ s.closed = sub[i].closed /\ s.stream = sub[i].stream /\ s.online = sub[i].online
  BY <1>1, <1>3, <1>4 DEF SubRecord
<1>6. FlushLocked(i, s) /\ UNCHANGED <<server, emitting, hub, up, conn>>
  BY <1>2, <1>4 DEF Flush, fileVars
<1>7. \A st \in Streams : Greeted(st) => Greeted(st)'
  BY <1>6 DEF Greeted
<1>8. Followed' /\ SameSubs
  BY <1>3, <1>5, <1>6, <1>7, FlushTracks
<1>9. Live' /\ Attached'
  BY <1>6, <1>8, ConnsKept
<1>. QED  BY <1>6, <1>8, <1>9, FrameConv

\* everything but the connection of a handler stays, and it is not greeted now
LEMMA OnlyMoves ==
  ASSUME HubInv, ConvInv, NEW k \in Conns, NEW c, conn' = [conn EXCEPT ![k] = c], GoesOn(k, c),
         UNCHANGED <<server, emitting, hub, sub, rows>>,
         \A st \in Streams : view'[st] \in {view[st], Unknown},
         \A st \in Streams : conn[k].pc = "subscribed" /\ conn[k].stream = st => view'[st] = Unknown \/ hub[st] = NoSub
  PROVE  ConvInv'
<1>1. SameSubs
  BY DEF SameSubs
<1>2. Live' /\ Attached'
  BY <1>1, ConnMoves
<1>3. ASSUME NEW st \in Streams PROVE Tracked(st)'
  <2>1. CASE conn[k].pc = "subscribed" /\ conn[k].stream = st
    BY <2>1 DEF Tracked
  <2>2. CASE conn[k].pc # "subscribed" \/ conn[k].stream # st
    <3>1. Greeted(st) => Greeted(st)'
      BY <2>2, GreetedKept
    <3>2. Tracked(st)
      BY DEF ConvInv, Followed
    <3>. QED  BY <3>1, <3>2, TrackedSame
  <2>. QED  BY <2>1, <2>2
<1>. QED  BY <1>1, <1>2, <1>3, FrameConv DEF Followed

LEMMA GoesOnTo ==
  ASSUME HubInv, NEW k \in Conns, conn[k].pc # "idle",
         NEW pc \in {"subscribed", "resumed", "left", "stopping"}, conn' = [conn EXCEPT ![k].pc = pc],
         pc \in {"subscribed", "resumed"} => conn[k].pc \in {"subscribed", "resumed"}
  PROVE  \E c : /\ conn' = [conn EXCEPT ![k] = c] /\ GoesOn(k, c) /\ c.pc = pc
                /\ c.stream = conn[k].stream /\ c.ch = conn[k].ch
<1>1. conn[k] \in ConnRecord
  BY Parts DEF HandlersFine
<1>2. PICK c : c = [conn[k] EXCEPT !.pc = pc]
  OBVIOUS
<1>3. c.pc = pc /\ c.stream = conn[k].stream /\ c.ch = conn[k].ch
  BY <1>1, <1>2 DEF ConnRecord
<1>4. conn' = [conn EXCEPT ![k] = c]
  <2>1. conn' = [conn EXCEPT ![k].pc = pc]
    OBVIOUS
  <2>. QED  BY ONLY <1>2, <2>1
<1>5. GoesOn(k, c)
  BY <1>3 DEF GoesOn
<1>. QED  BY <1>3, <1>4, <1>5

LEMMA ClientLeavesConv ==
  ASSUME HubInv, ConvInv, NEW k \in Conns, ClientLeaves(k)
  PROVE  ConvInv'
<1>1. /\ conn[k].pc \in {"subscribed", "resumed"} /\ conn[k].stream \in Streams
      /\ conn' = [conn EXCEPT ![k].pc = "left"]
      /\ MissedIf(conn[k].stream, conn[k].pc = "subscribed")
      /\ UNCHANGED <<server, emitting, hub, sub, rows>>
  BY Parts DEF ClientLeaves, HandlersFine, fileVars
<1>2. PICK c : conn' = [conn EXCEPT ![k] = c] /\ GoesOn(k, c)
  BY <1>1, GoesOnTo
<1>3. /\ \A st \in Streams : view'[st] \in {view[st], Unknown}
      /\ conn[k].pc = "subscribed" => view'[conn[k].stream] = Unknown
  BY <1>1, Parts DEF MissedIf, Missed, ListingsFine
<1>. QED  BY <1>1, <1>2, <1>3, OnlyMoves

LEMMA HandlerEndsConv ==
  ASSUME HubInv, ConvInv, NEW k \in Conns, HandlerEnds(k)
  PROVE  ConvInv'
<1>1. /\ conn[k].pc # "idle" /\ conn[k].stream \in Streams /\ conn[k].ch \in Subs /\ sub[conn[k].ch].closed
      /\ conn' = [conn EXCEPT ![k] = Idle]
      /\ UNCHANGED <<server, emitting, hub, sub, rows, view>>
  BY Parts DEF HandlerEnds, HandlersFine, fileVars
<1>2. GoesOn(k, Idle)
  BY IdleFine DEF GoesOn
<1>3. conn[k].pc = "subscribed" => hub[conn[k].stream] = NoSub
  <2>1. conn[k].pc = "subscribed" => hub[conn[k].stream] \in {NoSub, conn[k].ch}
    BY DEF ConvInv, Live, Connected
  <2>2. hub[conn[k].stream] # conn[k].ch
    BY <1>1, HubOne
  <2>. QED  BY <2>1, <2>2
<1>. QED  BY <1>1, <1>2, <1>3, OnlyMoves

LEMMA StopConv ==
  ASSUME HubInv, ConvInv, OneStreamEach, NEW k \in Conns, Stop(k)
  PROVE  ConvInv'
<1>1. /\ conn[k].pc = "left" /\ conn[k].stream \in Streams
      /\ UNCHANGED <<server, emitting, hub, up>>
  BY Parts DEF Stop, HandlersFine, fileVars
<1>2. PICK i : i = hub[conn[k].stream]
  OBVIOUS
<1>3. CASE ~up \/ i = NoSub
  <2>1. conn' = [conn EXCEPT ![k] = Idle] /\ UNCHANGED <<sub, rows, view>>
    BY <1>2, <1>3 DEF Stop
  <2>2. GoesOn(k, Idle)
    BY IdleFine DEF GoesOn
  <2>. QED  BY <1>1, <2>1, <2>2, OnlyMoves
<1>4. CASE up /\ i # NoSub
  <2>1. i \in Subs /\ sub[i] \in SubRecord
    BY <1>1, <1>2, <1>4, Parts DEF HandlersFine, SubsFine
  <2>2. conn' = [conn EXCEPT ![k].pc = "stopping"] /\ FlushLocked(i, [sub[i] EXCEPT !.timer = FALSE])
    BY <1>2, <1>4 DEF Stop
  <2>3. PICK c : conn' = [conn EXCEPT ![k] = c] /\ GoesOn(k, c)
    BY <1>1, <2>2, GoesOnTo
  <2>4. PICK s : s = [sub[i] EXCEPT !.timer = FALSE]
    OBVIOUS
  <2>5. /\ s \in SubRecord /\ s.timer = FALSE /\ s.buffer = sub[i].buffer /\ s.ch = sub[i].ch
        /\ s.closed = sub[i].closed /\ s.stream = sub[i].stream /\ s.online = sub[i].online
    BY <2>1, <2>4 DEF SubRecord
  <2>6. \A st \in Streams : Greeted(st) => Greeted(st)'
    BY <1>1, <2>3, GreetedKept
  <2>7. Followed' /\ SameSubs
    BY <1>1, <2>1, <2>2, <2>4, <2>5, <2>6, FlushTracks
  <2>8. Live' /\ Attached'
    BY <1>1, <2>3, <2>7, ConnMoves
  <2>. QED  BY <1>1, <2>7, <2>8, FrameConv
<1>. QED  BY <1>3, <1>4

LEMMA SetOfflineConv ==
  ASSUME HubInv, ConvInv, OneStreamEach, NEW k \in Conns, SetOffline(k)
  PROVE  ConvInv'
<1>1. PICK i : i = hub[conn[k].stream]
  OBVIOUS
<1>2. i \in Subs /\ sub[i] \in SubRecord /\ conn[k].pc = "stopping"
  BY <1>1, Parts DEF SetOffline, HandlersFine, SubsFine
<1>3. PICK s : s = [sub[i] EXCEPT !.online = FALSE, !.timer = FALSE]
  OBVIOUS
<1>4. /\ s \in SubRecord /\ s.timer = FALSE /\ s.buffer = sub[i].buffer /\ s.ch = sub[i].ch
      /\ s.closed = sub[i].closed /\ s.stream = sub[i].stream /\ s.online = FALSE
  BY <1>2, <1>3 DEF SubRecord
<1>5. /\ FlushLocked(i, s) /\ conn' = [conn EXCEPT ![k] = Idle]
      /\ UNCHANGED <<server, emitting, hub, up>>
  BY <1>1, <1>3 DEF SetOffline, fileVars
<1>6. \A st \in Streams : Greeted(st) => Greeted(st)'
  BY <1>2, <1>5, GreetedKept
<1>7. Followed' /\ SameSubs
  BY <1>2, <1>4, <1>5, <1>6, FlushTracks
<1>8. GoesOn(k, Idle)
  BY IdleFine DEF GoesOn
<1>9. Live' /\ Attached'
  BY <1>5, <1>7, <1>8, ConnMoves
<1>. QED  BY <1>5, <1>7, <1>9, FrameConv

LEMMA ApplyBrings ==
  ASSUME NEW v \in View, NEW e \in Proper, NEW f \in Files
  PROVE  Apply(v, e)[f] = Brings(e, f, v[f])
<1>1. e.file \in Files /\ e.type \in Types
  BY DEF Proper, Event
<1>2. PICK n : n = CASE e.type = "create" -> e.from [] e.type = "rename" -> e.to
                     [] e.type = "delete" -> None [] e.type = "modify" -> v[e.file]
  OBVIOUS
<1>3. Apply(v, e) = [v EXCEPT ![e.file] = n]
  BY <1>2 DEF Apply
<1>4. Apply(v, e)[f] = IF e.file = f THEN n ELSE v[f]
  BY <1>1, <1>3 DEF View
<1>. QED  BY <1>1, <1>2, <1>4 DEF Brings, Value, Types

LEMMA HandlerSendsConv ==
  ASSUME HubInv, ConvInv, NEW k \in Conns, HandlerSends(k)
  PROVE  ConvInv'
<1>1. conn[k].pc \in {"subscribed", "resumed", "left"} /\ conn[k].stream \in Streams /\ conn[k].ch \in Subs
  BY Parts DEF HandlerSends, HandlersFine
<1>2. PICK i \in Subs, st \in Streams : i = conn[k].ch /\ st = conn[k].stream
  BY <1>1
<1>3. /\ sub \in [Subs -> SubRecord] /\ sub[i] \in SubRecord /\ sub[i].ch # <<>> /\ sub[i].stream = st
      /\ view \in [Streams -> View \cup {Unknown}]
  BY <1>1, <1>2, Parts DEF SubsFine, ListingsFine, HandlerSends, ConvInv, Attached
<1>4. PICK ch \in Seq(Proper) : ch = sub[i].ch
  BY <1>3 DEF SubRecord
<1>5. ch # <<>> /\ Head(ch) \in Proper /\ Tail(ch) \in Seq(Proper)
  BY <1>3, <1>4, HeadTailProperties
<1>6. PICK x : x = [sub[i] EXCEPT !.ch = Tail(ch)]
  OBVIOUS
<1>7. /\ x.ch = Tail(ch) /\ x.buffer = sub[i].buffer /\ x.online = sub[i].online
      /\ x.closed = sub[i].closed /\ x.stream = sub[i].stream
  BY <1>3, <1>5, <1>6 DEF SubRecord
<1>8. sub' = [sub EXCEPT ![i] = x] /\ UNCHANGED <<server, emitting, hub, rows, conn>>
  BY <1>2, <1>3, <1>4, <1>6 DEF HandlerSends, fileVars
<1>9. view' = [view EXCEPT ![st] = IF conn[k].pc = "left" \/ view[st] = Unknown THEN Unknown
                                   ELSE IF conn[k].pc = "subscribed" THEN view[st]
                                   ELSE Apply(view[st], Head(ch))]
  BY <1>2, <1>3, <1>4 DEF HandlerSends
<1>10. /\ \A t \in Streams : t # st => view'[t] = view[t]
       /\ conn[k].pc = "left" \/ view[st] = Unknown => view'[st] = Unknown
       /\ conn[k].pc = "subscribed" /\ view[st] # Unknown => view'[st] = view[st]
       /\ conn[k].pc = "resumed" /\ view[st] # Unknown => view'[st] = Apply(view[st], Head(ch))
  BY <1>3, <1>9
<1>11. SameSubs /\ \A j \in Subs : sub'[j] = IF j = i THEN x ELSE sub[j]
  BY <1>7, <1>8, ChangedSame
<1>12. Live' /\ Attached' /\ \A t \in Streams : Greeted(t)' <=> Greeted(t)
  BY <1>8, <1>11, ConnsKept
<1>13. ASSUME NEW t \in Streams, t # st PROVE Tracked(t)'
  <2>1. hub[t] # NoSub => hub[t] \in Subs /\ hub[t] # i
    BY <1>3, <1>13, HubOne, Parts DEF HandlersFine
  <2>2. hub[t] # NoSub => sub'[hub[t]] = sub[hub[t]]
    BY <1>11, <2>1
  <2>3. Tracked(t) /\ view'[t] = view[t]
    BY <1>10, <1>13 DEF ConvInv, Followed
  <2>. QED  BY <1>8, <1>12, <2>2, <2>3, TrackedSame
<1>14. CASE conn[k].pc = "left" \/ view[st] = Unknown \/ hub[st] = NoSub
  <2>1. Tracked(st)'
    BY <1>8, <1>10, <1>14 DEF Tracked
  <2>. QED  BY <1>8, <1>11, <1>12, <1>13, <2>1, FrameConv DEF Followed
<1>15. CASE conn[k].pc # "left" /\ view[st] # Unknown /\ hub[st] # NoSub
  <2>1. Connected(k) /\ hub[st] = i
    BY <1>1, <1>2, <1>15 DEF ConvInv, Live, Connected
  <2>2. PICK v \in View : Follows(st, v) /\ (Greeted(st) \/ v = view[st])
    BY <1>15 DEF ConvInv, Followed, Tracked
  <2>3. PICK u \in View : u = Apply(v, Head(ch))
    BY <1>5, ApplyTyped
  <2>4. ASSUME NEW f \in Files, NEW w \in Names \cup {None},
               Carries(sub[i].ch, rows[Client(st)], sub[i].buffer, f, v[f], w)
        PROVE  Carries(sub'[i].ch, rows'[Client(st)], sub'[i].buffer, f, u[f], w)
    <3>1. Carries(Tail(ch), rows[Client(st)], sub[i].buffer, f, Brings(Head(ch), f, v[f]), w)
      BY <1>4, <1>5, <2>4, CarriesSent
    <3>2. u[f] = Brings(Head(ch), f, v[f])
      BY <1>5, <2>3, ApplyBrings
    <3>. QED  BY <1>7, <1>8, <1>11, <3>1, <3>2
  <2>5. Follows(st, u)'
    BY <1>8, <2>1, <2>2, <2>4, FollowsOn
  <2>6. Greeted(st)' \/ u = view'[st]
    <3>1. CASE conn[k].pc = "subscribed"
      BY <1>2, <1>8, <3>1 DEF Greeted
    <3>2. CASE conn[k].pc = "resumed"
      <4>1. ~Greeted(st)
        BY <1>2, <2>1, <3>2 DEF ConvInv, Live, Connected, Greeted
      <4>. QED  BY <1>10, <1>15, <2>2, <2>3, <3>2, <4>1
    <3>. QED  BY <1>1, <1>15, <3>1, <3>2
  <2>7. sub'[i].online => rows'[Client(st)] = <<>>
    BY <1>7, <1>8, <1>11, <1>15, <2>1 DEF ConvInv, Followed, Tracked
  <2>8. Tracked(st)'
    BY <1>8, <2>1, <2>5, <2>6, <2>7 DEF Tracked
  <2>. QED  BY <1>8, <1>11, <1>12, <1>13, <2>8, FrameConv DEF Followed
<1>. QED  BY <1>14, <1>15

LEMMA ListingTyped ==
  ASSUME HubInv, NEW st \in Streams
  PROVE  Listing(st) \in View /\ \A f \in Files : Listing(st)[f] = NameIn(st, server[f])
<1>1. \A f \in Files : server[f] # None => server[f][2] \in Names
  BY Parts DEF FilesFine, Places
<1>2. \A f \in Files : NameIn(st, server[f]) \in Names \cup {None}
  BY <1>1 DEF NameIn
<1>3. Listing(st) = [f \in Files |-> NameIn(st, server[f])]
  BY DEF Listing, NameIn
<1>. QED  BY <1>2, <1>3 DEF View

LEMMA ClientListsConv ==
  ASSUME HubInv, ConvInv, NEW k \in Conns, ClientLists(k)
  PROVE  ConvInv'
<1>1. /\ conn[k].pc = "subscribed" /\ conn[k].stream \in Streams /\ conn[k].ch \in Subs
      /\ conn' = [conn EXCEPT ![k].pc = "resumed"]
      /\ UNCHANGED <<server, emitting, hub, sub, rows>>
  BY Parts DEF ClientLists, HandlersFine, fileVars
<1>2. PICK st \in Streams, i \in Subs : st = conn[k].stream /\ i = conn[k].ch
  BY <1>1
<1>3. PICK c : conn' = [conn EXCEPT ![k] = c] /\ GoesOn(k, c)
  BY <1>1, GoesOnTo
<1>4. PICK ahead \in BOOLEAN : ahead = (sub[i].buffer # <<>> \/ rows[Client(st)] # <<>>
                                          \/ \E f \in Files : emitting[f] # Quiet)
  OBVIOUS
<1>5. view' = [view EXCEPT ![st] = IF ahead \/ view[st] = Unknown THEN Unknown ELSE Listing(st)]
  BY <1>2, <1>4 DEF ClientLists
<1>6. view \in [Streams -> View \cup {Unknown}]
  BY Parts DEF ListingsFine
<1>7. CASE ahead \/ view[st] = Unknown
  <2>1. view'[st] = Unknown /\ \A t \in Streams : view'[t] \in {view[t], Unknown}
    BY <1>5, <1>6, <1>7
  <2>. QED  BY <1>1, <1>2, <1>3, <2>1, OnlyMoves
<1>8. CASE hub[st] = NoSub
  <2>1. SameSubs
    BY <1>1 DEF SameSubs
  <2>2. Live' /\ Attached'
    BY <1>1, <1>3, <2>1, ConnMoves
  <2>3. ASSUME NEW t \in Streams PROVE Tracked(t)'
    <3>1. CASE t = st
      BY <1>1, <1>8, <3>1 DEF Tracked
    <3>2. CASE t # st
      <4>1. Greeted(t) => Greeted(t)'
        BY <1>2, <1>3, <3>2, GreetedKept
      <4>2. Tracked(t) /\ view'[t] = view[t]
        BY <1>5, <1>6, <3>2 DEF ConvInv, Followed
      <4>. QED  BY <1>1, <4>1, <4>2, TrackedSame
    <3>. QED  BY <3>1, <3>2
  <2>. QED  BY <1>1, <2>1, <2>2, <2>3, FrameConv DEF Followed
<1>9. CASE ~ahead /\ view[st] # Unknown /\ hub[st] # NoSub
  <2>1. SameSubs /\ hub[st] = i
    BY <1>1, <1>2, <1>9 DEF SameSubs, ConvInv, Live, Connected
  <2>2. Live' /\ Attached'
    BY <1>1, <1>3, <2>1, ConnMoves
  <2>3. /\ view'[st] = Listing(st) /\ \A t \in Streams : t # st => view'[t] = view[t]
        /\ Listing(st) \in View /\ \A f \in Files : Listing(st)[f] = NameIn(st, server[f])
    BY <1>5, <1>6, <1>9, ListingTyped
  <2>4. PICK v \in View : Follows(st, v)
    BY <1>9 DEF ConvInv, Followed, Tracked
  <2>5. sub[i].buffer = <<>> /\ rows[Client(st)] = <<>> /\ \A f \in Files : emitting[f] = Quiet
    BY <1>4, <1>9
  <2>6. ASSUME NEW f \in Files
        PROVE  \E w \in Names \cup {None} :
                 /\ Carries(sub[i].ch, rows[Client(st)], sub[i].buffer, f, Listing(st)[f], w)
                 /\ Arrives(st, i, emitting[f], server[f], f, w)
    <3>1. PICK w \in Names \cup {None} : /\ Carries(sub[i].ch, <<>>, <<>>, f, v[f], w)
                                         /\ Arrives(st, i, emitting[f], server[f], f, w)
      BY <2>1, <2>4, <2>5 DEF Follows
    <3>2. w = NameIn(st, server[f])
      BY <2>5, <3>1 DEF Arrives, Quiet
    <3>3. Carries(sub[i].ch, <<>>, <<>>, f, w, w)
      BY <3>1, CarriesAgain
    <3>. QED  BY <2>3, <2>5, <3>1, <3>2, <3>3
  <2>7. Follows(st, Listing(st))'
    <3>1. Follows(st, Listing(st))
      BY <2>1, <2>6 DEF Follows
    <3>2. Listing(st)' = Listing(st)
      BY <1>1 DEF Listing
    <3>. QED  BY <1>1, <3>1, <3>2 DEF Follows
  <2>8. Tracked(st)'
    <3>1. sub[i].online => rows[Client(st)] = <<>>
      BY <2>5
    <3>2. Listing(st)' = Listing(st)
      BY <1>1 DEF Listing
    <3>. QED  BY <1>1, <2>1, <2>3, <2>7, <3>1, <3>2 DEF Tracked
  <2>9. ASSUME NEW t \in Streams, t # st PROVE Tracked(t)'
    <3>1. Greeted(t) => Greeted(t)'
      BY <1>2, <1>3, <2>9, GreetedKept
    <3>2. Tracked(t) /\ view'[t] = view[t]
      BY <2>3, <2>9 DEF ConvInv, Followed
    <3>. QED  BY <1>1, <3>1, <3>2, TrackedSame
  <2>. QED  BY <1>1, <2>1, <2>2, <2>8, <2>9, FrameConv DEF Followed
<1>. QED  BY <1>7, <1>8, <1>9

-----------------------------------------------------------------------------
(***************************************************************************)
(* A handler subscribes; subscribers are closed.                           *)
(***************************************************************************)
LEMMA OpensLive ==
  ASSUME HubInv, ConvInv, NEW k \in Conns, NEW st \in Streams, NEW i \in Subs, NEW pc \in {"subscribed", "resumed"},
         Open(k, st, i, pc), conn[k].pc = "idle", \A j \in Conns : conn[j].stream = st => conn[j].pc = "left",
         hub'[st] = i, sub'[i].stream = st, \A t \in Streams : t # st => hub'[t] = hub[t],
         \A j \in Subs : sub[j].stream # None => sub'[j].stream = sub[j].stream
  PROVE  /\ Live' /\ Attached' /\ conn'[k].pc = pc /\ conn'[k].stream = st
         /\ ~Greeted(st) /\ \A t \in Streams : Greeted(t) => Greeted(t)'
<1>1. PICK c : c = [pc |-> pc, stream |-> st, ch |-> i]
  OBVIOUS
<1>2. c.pc = pc /\ c.stream = st /\ c.ch = i /\ conn' = [conn EXCEPT ![k] = c]
  BY <1>1 DEF Open
<1>3. /\ \A j \in Conns : conn'[j] = IF j = k THEN c ELSE conn[j]
      /\ \A j \in Conns : conn[j].pc # "idle" => conn[j].ch \in Subs /\ conn[j].stream \in Streams
  BY <1>2, Parts DEF HandlersFine
<1>4. ASSUME NEW j \in Conns, Connected(j)'
      PROVE  /\ hub'[conn'[j].stream] \in {NoSub, conn'[j].ch}
             /\ \A l \in Conns : Connected(l)' /\ conn'[l].stream = conn'[j].stream => l = j
  <2>1. \A l \in Conns : l # k /\ Connected(l)' => Connected(l) /\ conn'[l] = conn[l] /\ conn[l].stream # st
    BY <1>3 DEF Connected
  <2>2. CASE j = k
    BY <1>2, <1>3, <2>1, <2>2
  <2>3. CASE j # k
    <3>1. Connected(j) /\ conn'[j] = conn[j] /\ conn[j].stream # st /\ conn[j].stream \in Streams
      BY <1>3, <1>4, <2>1, <2>3 DEF Connected
    <3>2. \A l \in Conns : Connected(l)' /\ conn'[l].stream = conn[j].stream => l # k
      BY <1>2, <1>3, <3>1
    <3>. QED  BY <2>1, <3>1, <3>2 DEF ConvInv, Live
  <2>. QED  BY <2>2, <2>3
<1>5. Live'
  BY <1>4 DEF Live
<1>6. Attached'
  <2>. SUFFICES ASSUME NEW j \in Conns, conn'[j].pc # "idle" PROVE sub'[conn'[j].ch].stream = conn'[j].stream
    BY DEF Attached
  <2>1. CASE j = k
    BY <1>2, <1>3, <2>1
  <2>2. CASE j # k
    <3>1. conn'[j] = conn[j] /\ conn[j].pc # "idle" /\ sub[conn[j].ch].stream = conn[j].stream
      BY <1>3, <2>2 DEF ConvInv, Attached
    <3>. QED  BY <1>3, <3>1, NoneAssumption
  <2>. QED  BY <2>1, <2>2
<1>7. ~Greeted(st)
  BY DEF Greeted
<1>8. \A t \in Streams : Greeted(t) => Greeted(t)'
  BY <1>2, GreetedKept
<1>. QED  BY <1>2, <1>3, <1>5, <1>6, <1>7, <1>8

LEMMA SetOnlineConv ==
  ASSUME HubInv, ConvInv, OneStreamEach, NEW k \in Conns, NEW st \in Streams, NEW i \in Subs, hub[st] = i,
         SetOnline(k, st, i) \/ SetOnlineFails(k, st, i), UNCHANGED <<server, emitting>>,
         conn[k].pc = "idle", \A j \in Conns : conn[j].stream = st => conn[j].pc = "left"
  PROVE  ConvInv'
<1>1. /\ sub[i] \in SubRecord /\ sub[i].stream = st /\ i # NoSub
      /\ view \in [Streams -> View \cup {Unknown}] /\ rows \in [Clients -> Seq(RowRecord)]
      /\ Client(st) \in Clients
  BY HubOne, Parts DEF ListingsFine
<1>2. PICK r \in Seq(RowRecord), b \in Seq(Proper), ch \in Seq(Proper) :
        r = rows[Client(st)] /\ b = sub[i].buffer /\ ch = sub[i].ch
  BY HubOne
<1>3. Events(r) \in Seq(Proper) /\ Events(r) = [j \in DOMAIN r |-> r[j].event]
  BY EventsOfRows DEF Events
<1>4. hub' = hub /\ Open(k, st, i, "resumed")
  BY DEF SetOnline, SetOnlineFails
<1>5. ASSUME SameSubs PROVE Live' /\ Attached' /\ \A t \in Streams : Greeted(t) => Greeted(t)'
  BY <1>1, <1>4, <1>5, OpensLive DEF SameSubs
<1>6. CASE SetOnlineFails(k, st, i)
  <2>1. PICK x : x = [sub[i] EXCEPT !.online = TRUE]
    OBVIOUS
  <2>2. x.closed = sub[i].closed /\ x.stream = sub[i].stream
    BY <1>1, <2>1 DEF SubRecord
  <2>3. sub' = [sub EXCEPT ![i] = x] /\ view' = [view EXCEPT ![st] = Unknown] /\ rows' = rows
    BY <1>6, <2>1, Parts DEF SetOnlineFails, Missed, SubsFine
  <2>4. SameSubs /\ \A j \in Subs : sub'[j] = IF j = i THEN x ELSE sub[j]
    <3>1. HubInv /\ sub' = [sub EXCEPT ![i] = x] /\ x.stream = sub[i].stream /\ x.closed = sub[i].closed
      BY <2>2, <2>3
    <3>. QED  BY ONLY <3>1, i \in Subs, ChangedSame
  <2>5. Live' /\ Attached' /\ \A t \in Streams : Greeted(t) => Greeted(t)'
    BY <1>5, <2>4
  <2>6. Tracked(st)' /\ \A t \in Streams : t # st => view'[t] = view[t]
    BY <1>1, <2>3 DEF Tracked
  <2>7. Followed'
    BY <1>4, <2>3, <2>4, <2>5, <2>6, OthersTracked
  <2>. QED  BY <1>4, <2>4, <2>5, <2>7, FrameConv
<1>7. CASE SetOnline(k, st, i)
  <2>1. PICK all \in Seq(Proper) : all = b \o Events(r)
    BY <1>3, ConcatProperties
  <2>2. PICK t \in BOOLEAN : t = (sub[i].timer \/ all # <<>>)
    OBVIOUS
  <2>3. PICK x : x = [sub[i] EXCEPT !.online = TRUE, !.buffer = all, !.timer = t]
    OBVIOUS
  <2>4. /\ x.closed = sub[i].closed /\ x.stream = sub[i].stream /\ x.buffer = all /\ x.ch = ch
    BY <1>1, <1>2, <2>3 DEF SubRecord
  <2>5. /\ sub' = [sub EXCEPT ![i] = x]
        /\ rows' = [rows EXCEPT ![Client(st)] = <<>>]
    <3>1. sub' = [sub EXCEPT ![i].online = TRUE, ![i].buffer = all, ![i].timer = sub[i].timer \/ all # <<>>]
      <4>1. all = sub[i].buffer \o [j \in DOMAIN rows[Client(st)] |-> rows[Client(st)][j].event]
        BY <1>2, <1>3, <2>1
      <4>. QED  BY <1>7, <4>1 DEF SetOnline
    <3>2. sub \in [Subs -> SubRecord]
      BY Parts DEF SubsFine
    <3>3. sub' = [sub EXCEPT ![i] = x]
      BY ONLY <2>2, <2>3, <3>1, <3>2
    <3>. QED  BY <1>7, <3>3 DEF SetOnline
  <2>6. view' = [view EXCEPT ![st] = Unknown] \/ (view' = view /\ (b = <<>> \/ r = <<>>))
    BY <1>2, <1>7 DEF SetOnline, MissedIf, Missed
  <2>7. SameSubs /\ \A j \in Subs : sub'[j] = IF j = i THEN x ELSE sub[j]
    <3>1. x.closed = sub[i].closed /\ x.stream = sub[i].stream /\ sub' = [sub EXCEPT ![i] = x] /\ HubInv
      BY <2>4, <2>5
    <3>. QED  BY ONLY <3>1, ChangedSame
  <2>8. Live' /\ Attached' /\ \A u \in Streams : Greeted(u) => Greeted(u)'
    BY <1>5, <2>7
  <2>9. rows'[Client(st)] = <<>> /\ \A c \in Clients : c # Client(st) => rows'[c] = rows[c]
    BY <1>1, <2>5
  <2>10. \A u \in Streams : u # st => view'[u] = view[u]
    BY <1>1, <2>6
  <2>11. Tracked(st)'
    <3>1. CASE view' = [view EXCEPT ![st] = Unknown]
      BY <1>1, <3>1 DEF Tracked
    <3>2. CASE view' = view /\ (b = <<>> \/ r = <<>>)
      <4>1. ASSUME NEW v \in View, Follows(st, v) PROVE Follows(st, v)'
        <5>1. ASSUME NEW f \in Files, NEW w \in Names \cup {None},
                     Carries(sub[i].ch, rows[Client(st)], sub[i].buffer, f, v[f], w)
              PROVE  Carries(sub'[i].ch, rows'[Client(st)], sub'[i].buffer, f, v[f], w)
          <6>1. Carries(ch, r, b, f, v[f], w)
            BY <1>2, <5>1
          <6>2. Carries(ch, <<>>, all, f, v[f], w)
            BY <2>1, <3>2, <6>1, CarriesResumed
          <6>. QED  BY <2>4, <2>7, <2>9, <6>2
        <5>. QED  BY <1>4, <4>1, <5>1, FollowsOn
      <4>2. Tracked(st)
        BY DEF ConvInv, Followed
      <4>. QED  BY <1>4, <2>8, <2>9, <3>2, <4>1, <4>2, TrackedOn
    <3>. QED  BY <2>6, <3>1, <3>2
  <2>12. Followed'
    BY <1>4, <2>7, <2>8, <2>9, <2>10, <2>11, OthersTracked
  <2>. QED  BY <1>4, <2>7, <2>8, <2>12, FrameConv
<1>. QED  BY <1>6, <1>7

LEMMA SubscribeNewConv ==
  ASSUME HubInv, ConvInv, NEW k \in Conns, NEW st \in Streams, hub[st] = NoSub,
         SubscribeNew(k, st), UNCHANGED <<server, emitting>>,
         conn[k].pc = "idle", \A j \in Conns : conn[j].stream = st => conn[j].pc = "left"
  PROVE  ConvInv'
<1>1. PICK i \in Subs :
        /\ sub[i] = Unused
        /\ sub' = [sub EXCEPT ![i] = NewSubscriber(st)]
        /\ hub' = [hub EXCEPT ![st] = i]
        /\ view' = [view EXCEPT ![st] = IF rows[Client(st)] = <<>> THEN EmptyView ELSE Unknown]
        /\ Open(k, st, i, "subscribed")
        /\ UNCHANGED <<rows, faults>>
  BY DEF SubscribeNew
<1>2. /\ sub \in [Subs -> SubRecord] /\ hub \in [Streams -> {NoSub} \cup Subs]
      /\ view \in [Streams -> View \cup {Unknown}]
  BY Parts DEF SubsFine, HandlersFine, ListingsFine
<1>3. PICK x \in SubRecord : /\ x = NewSubscriber(st) /\ x.stream = st /\ ~x.closed /\ x.buffer = <<>>
                             /\ x.ch = <<>>
  <2>1. PICK u : u = Unused
    OBVIOUS
  <2>2. u \in SubRecord /\ u.ch = <<>>
    BY <2>1, UnusedFine DEF Unused
  <2>3. PICK x : x = [u EXCEPT !.stream = st, !.online = TRUE, !.closed = FALSE]
    OBVIOUS
  <2>4. x.ch = <<>> /\ x = NewSubscriber(st)
    BY <2>1, <2>2, <2>3 DEF NewSubscriber, SubRecord
  <2>. QED  BY <2>4, UnusedFine
<1>4. /\ \A j \in Subs : sub'[j] = IF j = i THEN x ELSE sub[j]
      /\ \A t \in Streams : hub'[t] = IF t = st THEN i ELSE hub[t]
      /\ \A t \in Streams : t # st => view'[t] = view[t]
      /\ sub[i].closed /\ sub[i].stream = None /\ i # NoSub
  BY <1>1, <1>2, <1>3, UnusedFine, BoundsAssumption DEF Subs, NoSub
<1>5. InHub'
  <2>. SUFFICES ASSUME NEW j \in Subs, ~sub'[j].closed PROVE hub'[sub'[j].stream] = j
    BY DEF InHub
  <2>1. CASE j = i
    BY <1>3, <1>4, <2>1
  <2>2. CASE j # i
    <3>1. sub'[j] = sub[j] /\ hub[sub[j].stream] = j
      BY <1>4, <2>2 DEF ConvInv, InHub
    <3>2. sub[j].stream \in Streams /\ j # NoSub
      BY <3>1, <1>4, Parts, BoundsAssumption DEF SubsFine, Fits, Fit, Subs, NoSub
    <3>. QED  BY <1>4, <3>1, <3>2
  <2>. QED  BY <2>1, <2>2
<1>6. \A f \in Files : \A m \in emitting[f].to : m.sub \in Subs /\ m.sub # i
  BY <1>4, Parts DEF FilesFine, EmissionRecord, Message, ConvInv, Held
<1>7. Held' /\ Shaped'
  BY <1>4, <1>6 DEF ConvInv, Held, Shaped
<1>8. /\ Live' /\ Attached' /\ conn'[k].pc = "subscribed" /\ conn'[k].stream = st
      /\ \A t \in Streams : Greeted(t) => Greeted(t)'
  BY <1>1, <1>3, <1>4, OpensLive
<1>9. ASSUME NEW t \in Streams, t # st PROVE Tracked(t)'
  <2>1. hub'[t] = hub[t] /\ (hub[t] # NoSub => hub[t] \in Subs)
    BY <1>2, <1>4, <1>9
  <2>2. hub[t] # NoSub => hub[t] # i
    BY <1>4, <2>1, HubOne
  <2>3. hub[t] # NoSub => sub'[hub[t]] = sub[hub[t]]
    BY <1>4, <2>1, <2>2
  <2>4. Tracked(t) /\ view'[t] = view[t] /\ rows' = rows
    BY <1>1, <1>4, <1>9 DEF ConvInv, Followed
  <2>. QED  BY <1>8, <2>1, <2>3, <2>4, TrackedSame
<1>10. Tracked(st)'
  <2>1. CASE rows[Client(st)] # <<>>
    <3>1. view'[st] = Unknown
      BY <1>1, <1>2, <2>1
    <3>. QED  BY <3>1 DEF Tracked
  <2>2. CASE rows[Client(st)] = <<>>
    <3>1. PICK v : v = [f \in Files |-> IF emitting[f].op \in {"none", "publish"} THEN NameIn(st, server[f])
                                        ELSE NameIn(st, emitting[f].old)]
      OBVIOUS
    <3>2. v \in View
      <4>1. \A p \in Places \cup {None} : NameIn(st, p) \in Names \cup {None}
        BY DEF NameIn, Places
      <4>2. \A f \in Files : server[f] \in Places \cup {None} /\ emitting[f].old \in Places \cup {None}
        BY Parts DEF FilesFine, EmissionRecord
      <4>. QED  BY <3>1, <4>1, <4>2 DEF View
    <3>3. ASSUME NEW f \in Files
          PROVE  Arrives(st, i, emitting[f], server[f], f, v[f])
      BY <1>6, <3>1 DEF Arrives, Due
    <3>4. ASSUME NEW f \in Files
          PROVE  /\ v[f] \in Names \cup {None}
                 /\ Carries(<<>>, <<>>, <<>>, f, v[f], v[f])
      BY <3>2, CarriesNothing DEF View
    <3>5. /\ hub'[st] = i /\ sub'[i].ch = <<>> /\ sub'[i].buffer = <<>> /\ rows'[Client(st)] = <<>>
          /\ emitting' = emitting /\ server' = server
      BY <1>1, <1>3, <1>4, <2>2
    <3>6. Follows(st, v)'
      BY <3>3, <3>4, <3>5 DEF Follows
    <3>7. Greeted(st)'
      BY <1>8 DEF Greeted
    <3>. QED  BY <3>2, <3>5, <3>6, <3>7 DEF Tracked
  <2>. QED  BY <2>1, <2>2
<1>. QED  BY <1>5, <1>7, <1>8, <1>9, <1>10 DEF ConvInv, Followed

LEMMA SubscribeConv ==
  ASSUME HubInv, ConvInv, OneStreamEach, NEW k \in Conns, NEW st \in Streams, Subscribe(k, st)
  PROVE  ConvInv'
<1>1. /\ conn[k].pc = "idle" /\ UNCHANGED <<server, emitting>>
      /\ \A j \in Conns : conn[j].stream = st => conn[j].pc = "left"
  BY DEF Subscribe, fileVars
<1>2. CASE hub[st] = NoSub
  <2>1. SubscribeNew(k, st)
    BY <1>2 DEF Subscribe
  <2>. QED  BY <1>1, <1>2, <2>1, SubscribeNewConv
<1>3. CASE hub[st] # NoSub
  <2>1. PICK i \in Subs : i = hub[st]
    BY <1>3, Parts DEF HandlersFine
  <2>2. SetOnline(k, st, i) \/ SetOnlineFails(k, st, i)
    BY <1>3, <2>1 DEF Subscribe
  <2>. QED  BY <1>1, <2>1, <2>2, SetOnlineConv
<1>. QED  BY <1>2, <1>3

LEMMA CloseConv ==
  ASSUME HubInv, ConvInv, OneStreamEach, NEW sts \in SUBSET Streams,
         NEW is \in SUBSET Subs, is = {hub[st] : st \in sts} \ {NoSub}, CloseSubs(is),
         hub' = [st \in Streams |-> IF st \in sts THEN NoSub ELSE hub[st]],
         UNCHANGED <<server, emitting, conn, view>>
  PROVE  ConvInv'
<1>1. /\ sub \in [Subs -> SubRecord] /\ rows \in [Clients -> Seq(RowRecord)]
      /\ hub \in [Streams -> {NoSub} \cup Subs]
  BY Parts DEF SubsFine, ListingsFine, HandlersFine
<1>2. ASSUME NEW i \in Subs
      PROVE  /\ sub'[i].stream = sub[i].stream /\ (i \in is => sub'[i].closed)
             /\ i \notin is => sub'[i] = sub[i]
  <2>1. CASE i \in is
    <3>1. PICK x : x = [sub[i] EXCEPT !.closed = TRUE, !.timer = FALSE, !.buffer = <<>>]
      OBVIOUS
    <3>2. x.stream = sub[i].stream /\ x.closed = TRUE
      <4>1. sub[i] \in SubRecord
        BY <1>1
      <4>. QED  BY <3>1, <4>1 DEF SubRecord
    <3>3. sub'[i] = x
      BY <2>1, <3>1 DEF CloseSubs
    <3>. QED  BY <2>1, <3>2, <3>3
  <2>2. CASE i \notin is
    BY <1>1, <2>2 DEF CloseSubs
  <2>. QED  BY <2>1, <2>2
<1>3. InHub'
  <2>. SUFFICES ASSUME NEW j \in Subs, ~sub'[j].closed PROVE hub'[sub'[j].stream] = j
    BY DEF InHub
  <2>1. j \notin is /\ sub'[j] = sub[j] /\ hub[sub[j].stream] = j /\ sub[j].stream \in Streams /\ j # NoSub
    BY <1>2, Parts, BoundsAssumption DEF ConvInv, InHub, SubsFine, Fits, Fit, Subs, NoSub
  <2>. QED  BY <2>1
<1>4. Held'
  <2>1. \A f \in Files : \A m \in emitting[f].to : m.sub \in Subs
    BY Parts DEF FilesFine, EmissionRecord, Message
  <2>. QED  BY <1>2, <2>1 DEF ConvInv, Held
<1>5. Live' /\ Attached'
  <2>1. \A k \in Conns : conn[k].pc # "idle" => conn[k].stream \in Streams /\ conn[k].ch \in Subs
    BY Parts DEF HandlersFine
  <2>2. \A k \in Conns : Connected(k) => hub'[conn[k].stream] \in {NoSub, conn[k].ch}
    BY <2>1 DEF ConvInv, Live, Connected
  <2>3. Live'
    BY <2>2 DEF ConvInv, Live, Connected
  <2>4. Attached'
    BY <1>2, <2>1 DEF ConvInv, Attached
  <2>. QED  BY <2>3, <2>4
<1>6. ASSUME NEW t \in Streams PROVE Tracked(t)'
  <2>1. CASE t \in sts \/ hub[t] = NoSub
    BY <2>1 DEF Tracked
  <2>2. CASE t \notin sts /\ hub[t] # NoSub
    <3>1. hub'[t] = hub[t] /\ hub[t] \in Subs
      BY <1>1, <2>2
    <3>2. hub[t] \notin is
      <4>. SUFFICES ASSUME NEW s \in sts, hub[s] = hub[t] PROVE FALSE
        OBVIOUS
      <4>. QED  BY <2>2, <3>1, HubOne
    <3>3. sub'[hub[t]] = sub[hub[t]]
      BY <1>2, <3>1, <3>2
    <3>4. rows'[Client(t)] = rows[Client(t)]
      <4>1. Client(t) \in Clients
        BY StreamsAssumption DEF Client
      <4>2. \A s \in sts : hub[s] # NoSub => sub[hub[s]].stream = s
        BY <1>1, HubOne
      <4>3. {sub[i].stream : i \in is} \subseteq sts
        BY <4>2
      <4>4. Client(t) \notin Clients_({sub[i].stream : i \in is})
        BY <2>2, <4>3 DEF Clients_, OneStreamEach
      <4>. QED  BY <4>1, <4>4 DEF CloseSubs
    <3>5. Tracked(t) /\ (Greeted(t) => Greeted(t)')
      BY DEF ConvInv, Followed, Greeted
    <3>. QED  BY <3>1, <3>3, <3>4, <3>5, TrackedSame
  <2>. QED  BY <2>1, <2>2
<1>. QED  BY <1>3, <1>4, <1>5, <1>6 DEF ConvInv, Followed, Shaped

LEMMA ExpireConv ==
  ASSUME HubInv, ConvInv, OneStreamEach, NEW st \in Streams, Expire(st)
  PROVE  ConvInv'
<1>1. hub \in [Streams -> {NoSub} \cup Subs]
  BY Parts DEF HandlersFine
<1>2. /\ hub[st] \in Subs /\ CloseSubs({hub[st]}) /\ hub' = [hub EXCEPT ![st] = NoSub]
      /\ UNCHANGED <<server, emitting, conn, view>>
  BY <1>1 DEF Expire, fileVars
<1>3. {st} \in SUBSET Streams /\ {hub[st]} = {hub[t] : t \in {st}} \ {NoSub} /\ {hub[st]} \in SUBSET Subs
  <2>1. hub[st] # NoSub
    BY DEF Expire
  <2>. QED  BY <1>2, <2>1
<1>4. hub' = [t \in Streams |-> IF t \in {st} THEN NoSub ELSE hub[t]]
  BY <1>1, <1>2
<1>. QED  BY <1>2, <1>3, <1>4, CloseConv

LEMMA CloseAllConv ==
  ASSUME HubInv, ConvInv, OneStreamEach, Close
  PROVE  ConvInv'
<1>1. hub \in [Streams -> {NoSub} \cup Subs]
  BY Parts DEF HandlersFine
<1>2. /\ CloseSubs({hub[st] : st \in Streams} \ {NoSub}) /\ hub' = [st \in Streams |-> NoSub]
      /\ UNCHANGED <<server, emitting, conn, view>>
  BY DEF Close, fileVars
<1>3. {hub[st] : st \in Streams} \ {NoSub} \in SUBSET Subs /\ Streams \in SUBSET Streams
  BY <1>1
<1>4. hub' = [t \in Streams |-> IF t \in Streams THEN NoSub ELSE hub[t]]
  BY <1>2
<1>. QED  BY <1>2, <1>3, <1>4, CloseConv

LEMMA RestartConv ==
  ASSUME HubInv, ConvInv, Restart
  PROVE  ConvInv'
<1>1. /\ hub' = [st \in Streams |-> NoSub] /\ sub' = [i \in Subs |-> Unused]
      /\ emitting' = [f \in Files |-> Quiet] /\ conn' = [k \in Conns |-> Idle]
  BY DEF Restart
<1>2. \A f \in Files : emitting'[f] = Quiet
  BY <1>1
<1>3. Held' /\ Shaped'
  BY <1>2 DEF Held, Shaped, Shape, Quiet
<1>4. Followed' /\ InHub' /\ Live' /\ Attached'
  <2>1. \A k \in Conns : conn'[k].pc = "idle"
    BY <1>1, IdleFine
  <2>2. \A i \in Subs : sub'[i].closed
    BY <1>1, UnusedFine
  <2>3. \A st \in Streams : hub'[st] = NoSub
    BY <1>1
  <2>. QED  BY <2>1, <2>2, <2>3 DEF Followed, Tracked, InHub, Live, Connected, Attached
<1>. QED  BY <1>3, <1>4 DEF ConvInv

-----------------------------------------------------------------------------
(***************************************************************************)
(* Operations on files and the publishing of what they did.                *)
(***************************************************************************)
\* an operation goes on: e is what it has still to do, and its file is at place
LEMMA EmissionConv ==
  ASSUME HubInv, ConvInv, NEW f \in Files, NEW e, NEW place,
         emitting' = [emitting EXCEPT ![f] = e], server' = [server EXCEPT ![f] = place],
         UNCHANGED <<hub, sub, rows, conn, view>>,
         Shape(e, place), \A m \in e.to : sub[m.sub].stream # None,
         \A st \in Streams : hub[st] # NoSub =>
            \A w : Arrives(st, hub[st], emitting[f], server[f], f, w) => Arrives(st, hub[st], e, place, f, w)
  PROVE  ConvInv'
<1>1. \A g \in Files : emitting'[g] = (IF g = f THEN e ELSE emitting[g])
                       /\ server'[g] = (IF g = f THEN place ELSE server[g])
  BY Parts DEF FilesFine
<1>2. Held' /\ Shaped'
  BY <1>1 DEF ConvInv, Held, Shaped
<1>3. SameSubs
  BY DEF SameSubs
<1>4. Live' /\ Attached' /\ \A st \in Streams : Greeted(st)' <=> Greeted(st)
  BY <1>3, ConnsKept
<1>5. InHub'
  BY DEF ConvInv, InHub
<1>6. ASSUME NEW st \in Streams PROVE Tracked(st)'
  <2>. SUFFICES ASSUME hub[st] # NoSub, view[st] # Unknown
       PROVE  /\ sub[hub[st]].online => rows[Client(st)] = <<>>
              /\ \E v \in View : Follows(st, v)' /\ (Greeted(st)' \/ v = view[st])
    BY DEF Tracked
  <2>1. sub[hub[st]].online => rows[Client(st)] = <<>>
    BY DEF ConvInv, Followed, Tracked
  <2>2. PICK v \in View : Follows(st, v) /\ (Greeted(st) \/ v = view[st])
    BY DEF ConvInv, Followed, Tracked
  <2>3. ASSUME NEW g \in Files, NEW w, Arrives(st, hub[st], emitting[g], server[g], g, w)
        PROVE  Arrives(st, hub[st], emitting'[g], server'[g], g, w)
    BY <1>1, <2>3
  <2>4. Follows(st, v)'
    BY <2>2, <2>3 DEF Follows
  <2>. QED  BY <1>4, <2>1, <2>2, <2>4
<1>. QED  BY <1>2, <1>4, <1>5, <1>6 DEF ConvInv, Followed

LEMMA CommitConv ==
  ASSUME HubInv, ConvInv, NEW f \in Files, NEW o \in Emissions \ {"none", "publish"}, NEW new, Commit(f, o, new),
         o = "create" => server[f] = None,
         o = "modify" => new = server[f],
         o = "rename" => new[1] = server[f][1],
         o = "delete" => new = None,
         o = "move" => new[1] # server[f][1]
  PROVE  ConvInv'
<1>1. /\ emitting[f] = Quiet /\ server' = [server EXCEPT ![f] = new]
      /\ UNCHANGED <<hub, sub, rows, conn, view>>
  BY DEF Commit
<1>2. PICK e : e = [op |-> o, old |-> server[f], new |-> new, to |-> {}]
  OBVIOUS
<1>3. e.op = o /\ e.old = server[f] /\ e.new = new /\ e.to = {} /\ emitting' = [emitting EXCEPT ![f] = e]
  BY <1>2 DEF Commit
<1>4. Shape(e, new)
  BY <1>3 DEF Shape
<1>5. ASSUME NEW st \in Streams, NEW w, Arrives(st, hub[st], emitting[f], server[f], f, w)
      PROVE  Arrives(st, hub[st], e, new, f, w)
  BY <1>1, <1>3, <1>5 DEF Arrives, Quiet
<1>. QED  BY <1>1, <1>3, <1>4, <1>5, EmissionConv

LEMMA FileOperationConv ==
  ASSUME HubInv, ConvInv, FileOperation
  PROVE  ConvInv'
<1>1. PICK f \in Files :
        \/ \E t \in Topics, n \in Names : FileCreated(f, t, n)
        \/ FileModified(f) \/ FileDeleted(f)
        \/ \E n \in Names : FileRenamed(f, n)
        \/ \E t \in Topics : FileMoved(f, t)
  BY DEF FileOperation
<1>2. ASSUME NEW t \in Topics, NEW n \in Names, FileCreated(f, t, n) PROVE ConvInv'
  BY <1>2, CommitConv DEF FileCreated, Emissions
<1>3. CASE FileModified(f)
  BY <1>3, CommitConv DEF FileModified, Emissions
<1>4. CASE FileDeleted(f)
  BY <1>4, CommitConv DEF FileDeleted, Emissions
<1>5. ASSUME NEW n \in Names, FileRenamed(f, n) PROVE ConvInv'
  <2>1. PICK new : new = <<server[f][1], n>>
    OBVIOUS
  <2>2. Commit(f, "rename", new) /\ new[1] = server[f][1]
    BY <1>5, <2>1 DEF FileRenamed
  <2>. QED  BY <2>2, CommitConv DEF Emissions
<1>6. ASSUME NEW t \in Topics, FileMoved(f, t) PROVE ConvInv'
  <2>1. PICK new : new = <<t, server[f][2]>>
    OBVIOUS
  <2>2. Commit(f, "move", new) /\ new[1] # server[f][1]
    BY <1>6, <2>1 DEF FileMoved
  <2>. QED  BY <2>2, CommitConv DEF Emissions
<1>. QED  BY <1>1, <1>2, <1>3, <1>4, <1>5, <1>6

\* an event sent to the subscribers of some streams
Told(sts, ev) == {[sub |-> hub[st], event |-> ev] : st \in sts}

\* what is sent to some streams reaches one of them once
LEMMA SendOne ==
  ASSUME NEW st \in Streams, NEW sts \in SUBSET Streams, NEW ev, NEW all, HubInv, hub[st] # NoSub,
         all = Told(sts, ev)
  PROVE  /\ st \in sts => \E m \in all : m.sub = hub[st] /\ m.event = ev
         /\ \A m \in all : m.sub = hub[st] => st \in sts /\ m = [sub |-> hub[st], event |-> ev]
<1>1. PICK h \in Subs : h = hub[st] /\ \A t \in Streams : hub[t] = h => t = st
  <2>1. hub[st] \in Subs
    BY Parts DEF HandlersFine
  <2>. QED  BY <2>1, HubOne
<1>2. PICK one : one = [sub |-> h, event |-> ev]
  OBVIOUS
<1>3. one.sub = h /\ one.event = ev
  BY <1>2
<1>4. st \in sts => one \in all
  BY <1>1, <1>2 DEF Told
<1>5. ASSUME NEW m \in all, m.sub = h PROVE st \in sts /\ m = one
  <2>1. PICK s \in sts : m = [sub |-> hub[s], event |-> ev]
    BY DEF Told
  <2>2. hub[s] = h
    BY <1>5, <2>1
  <2>. QED  BY <1>1, <1>2, <2>1, <2>2
<1>. QED  BY <1>1, <1>2, <1>3, <1>4, <1>5

LEMMA DueSent ==
  ASSUME NEW st \in Streams, NEW sts \in SUBSET Streams, NEW ev, NEW others, NEW x, NEW f, NEW w, NEW there,
         HubInv, hub[st] # NoSub,
         \A m \in others : m.sub # hub[st],
         x.to = Told(sts, ev) \cup others,
         st \in sts => ev.file = f /\ Suits(ev, w) /\ Brings(ev, f, w) = there,
         st \notin sts => w = there
  PROVE  Due(hub[st], x, f, w, there)
<1>1. PICK all : all = Told(sts, ev)
  OBVIOUS
<1>2. /\ st \in sts => \E m \in all : m.sub = hub[st] /\ m.event = ev
      /\ \A m \in all : m.sub = hub[st] => st \in sts /\ m = [sub |-> hub[st], event |-> ev]
  <2>1. HubInv /\ hub[st] # NoSub
    OBVIOUS
  <2>. QED  BY ONLY <1>1, <2>1, st \in Streams, sts \in SUBSET Streams, SendOne
<1>3. x.to = all \cup others
  BY <1>1
<1>4. CASE st \in sts
  <2>1. PICK m \in x.to : m.sub = hub[st] /\ m.event = ev
    BY <1>2, <1>3, <1>4
  <2>2. \A o \in x.to : o.sub = hub[st] => o = m
    BY <1>2, <1>3, <2>1
  <2>3. m.event.file = f /\ Suits(m.event, w) /\ Brings(m.event, f, w) = there
    BY <1>4, <2>1
  <2>. QED  BY <2>1, <2>2, <2>3 DEF Due
<1>5. CASE st \notin sts
  <2>1. \A m \in x.to : m.sub # hub[st]
    BY <1>2, <1>3, <1>5
  <2>. QED  BY <1>5, <2>1 DEF Due
<1>. QED  BY <1>4, <1>5

\* so an operation sends each client what takes it from where the file was to where it is
LEMMA EventsDue ==
  ASSUME NEW f \in Files, NEW st \in Streams, NEW x, HubInv, ConvInv, OneStreamEach,
         emitting[f].op \notin {"none", "publish"}, hub[st] # NoSub, x.to = EventsOf(f, emitting[f])
  PROVE  Due(hub[st], x, f, NameIn(st, emitting[f].old), NameIn(st, emitting[f].new))
<1>1. PICK e : e = emitting[f]
  OBVIOUS
<1>2. e \in EmissionRecord /\ Placed(e) /\ Shape(e, server[f])
  BY <1>1, Parts DEF FilesFine, ConvInv, Shaped
<1>3. PICK h : h = hub[st]
  OBVIOUS
<1>4. /\ \A p : Subscribed(p) \in SUBSET Streams
      /\ \A p \in Places : p # None /\ p[2] \in Names /\ (st \in Subscribed(p) <=> p[1] = Topic(st))
      /\ NameIn(st, None) = None /\ None \notin Names
      /\ \A p \in Places : NameIn(st, p) = IF p[1] = Topic(st) THEN p[2] ELSE None
  BY NoneAssumption DEF Subscribed, Places, NameIn
<1>5. \A n \in Names : /\ EventOf("create", f, n, None) = [type |-> "create", file |-> f, from |-> n, to |-> None]
                       /\ EventOf("modify", f, n, None) = [type |-> "modify", file |-> f, from |-> n, to |-> None]
                       /\ EventOf("delete", f, n, None) = [type |-> "delete", file |-> f, from |-> n, to |-> None]
  BY DEF EventOf
<1>6. PICK none : none = {}
  OBVIOUS
<1>7. CASE e.op = "create"
  <2>1. e.new \in Places /\ e.old = None
    BY <1>2, <1>7 DEF Placed, Shape
  <2>2. PICK ev : ev = EventOf("create", f, e.new[2], None)
    OBVIOUS
  <2>3. EventsOf(f, e) = Told(Subscribed(e.new), ev) \cup none
    BY <1>7, <1>6, <2>2 DEF EventsOf, Told
  <2>4. ev.file = f /\ ev.type = "create" /\ ev.from = e.new[2]
    BY <1>4, <1>5, <2>1, <2>2
  <2>5. Suits(ev, None) /\ Brings(ev, f, None) = e.new[2]
    BY <2>4 DEF Suits, Brings, Value
  <2>8. /\ x.to = Told(Subscribed(e.new), ev) \cup none
        /\ st \in Subscribed(e.new) => Suits(ev, NameIn(st, e.old)) /\ Brings(ev, f, NameIn(st, e.old)) = NameIn(st, e.new)
        /\ st \notin Subscribed(e.new) => NameIn(st, e.old) = NameIn(st, e.new)
        /\ \A m \in none : m.sub # hub[st]
        /\ Subscribed(e.new) \in SUBSET Streams
    BY <1>1, <1>4, <1>6, <2>1, <2>3, <2>5
  <2>9. HubInv /\ hub[st] # NoSub /\ ev.file = f
    BY <2>4
  <2>10. Due(hub[st], x, f, NameIn(st, e.old), NameIn(st, e.new))
    BY ONLY <2>8, <2>9, st \in Streams, DueSent
  <2>. QED  BY <1>1, <2>10
<1>8. CASE e.op = "modify"
  <2>1. e.old \in Places /\ e.new = e.old
    BY <1>2, <1>8 DEF Placed, Shape
  <2>2. PICK ev : ev = EventOf("modify", f, e.old[2], None)
    OBVIOUS
  <2>3. EventsOf(f, e) = Told(Subscribed(e.old), ev) \cup none
    BY <1>8, <1>6, <2>2 DEF EventsOf, Told
  <2>4. ev.file = f /\ ev.type = "modify"
    BY <1>4, <1>5, <2>1, <2>2
  <2>5. Suits(ev, e.old[2]) /\ Brings(ev, f, e.old[2]) = e.old[2]
    BY <1>4, <2>1, <2>4 DEF Suits, Brings
  <2>8. /\ x.to = Told(Subscribed(e.old), ev) \cup none
        /\ st \in Subscribed(e.old) => Suits(ev, NameIn(st, e.old)) /\ Brings(ev, f, NameIn(st, e.old)) = NameIn(st, e.new)
        /\ st \notin Subscribed(e.old) => NameIn(st, e.old) = NameIn(st, e.new)
        /\ \A m \in none : m.sub # hub[st]
        /\ Subscribed(e.old) \in SUBSET Streams
    BY <1>1, <1>4, <1>6, <2>1, <2>3, <2>5
  <2>9. HubInv /\ hub[st] # NoSub /\ ev.file = f
    BY <2>4
  <2>10. Due(hub[st], x, f, NameIn(st, e.old), NameIn(st, e.new))
    BY ONLY <2>8, <2>9, st \in Streams, DueSent
  <2>. QED  BY <1>1, <2>10
<1>9. CASE e.op = "rename"
  <2>1. e.old \in Places /\ e.new \in Places /\ e.new[1] = e.old[1]
    BY <1>2, <1>9 DEF Placed, Shape
  <2>2. PICK ev : ev = EventOf("rename", f, e.old[2], e.new[2])
    OBVIOUS
  <2>3. EventsOf(f, e) = Told(Subscribed(e.old), ev) \cup none
    BY <1>9, <1>6, <2>2 DEF EventsOf, Told
  <2>4. ev.file = f /\ ev.type = "rename" /\ ev.from = e.old[2] /\ ev.to = e.new[2]
    BY <2>2 DEF EventOf
  <2>5. Suits(ev, e.old[2]) /\ Brings(ev, f, e.old[2]) = e.new[2]
    BY <2>4 DEF Suits, Brings, Value
  <2>8. /\ x.to = Told(Subscribed(e.old), ev) \cup none
        /\ st \in Subscribed(e.old) => Suits(ev, NameIn(st, e.old)) /\ Brings(ev, f, NameIn(st, e.old)) = NameIn(st, e.new)
        /\ st \notin Subscribed(e.old) => NameIn(st, e.old) = NameIn(st, e.new)
        /\ \A m \in none : m.sub # hub[st]
        /\ Subscribed(e.old) \in SUBSET Streams
    BY <1>1, <1>4, <1>6, <2>1, <2>3, <2>5
  <2>9. HubInv /\ hub[st] # NoSub /\ ev.file = f
    BY <2>4
  <2>10. Due(hub[st], x, f, NameIn(st, e.old), NameIn(st, e.new))
    BY ONLY <2>8, <2>9, st \in Streams, DueSent
  <2>. QED  BY <1>1, <2>10
<1>10. CASE e.op = "delete"
  <2>1. e.old \in Places /\ e.new = None
    BY <1>2, <1>10 DEF Placed, Shape
  <2>2. PICK ev : ev = EventOf("delete", f, e.old[2], None)
    OBVIOUS
  <2>3. EventsOf(f, e) = Told(Subscribed(e.old), ev) \cup none
    BY <1>10, <1>6, <2>2 DEF EventsOf, Told
  <2>4. ev.file = f /\ ev.type = "delete"
    BY <1>4, <1>5, <2>1, <2>2
  <2>5. Suits(ev, e.old[2]) /\ Brings(ev, f, e.old[2]) = None
    BY <1>4, <2>1, <2>4 DEF Suits, Brings, Value
  <2>8. /\ x.to = Told(Subscribed(e.old), ev) \cup none
        /\ st \in Subscribed(e.old) => Suits(ev, NameIn(st, e.old)) /\ Brings(ev, f, NameIn(st, e.old)) = NameIn(st, e.new)
        /\ st \notin Subscribed(e.old) => NameIn(st, e.old) = NameIn(st, e.new)
        /\ \A m \in none : m.sub # hub[st]
        /\ Subscribed(e.old) \in SUBSET Streams
    BY <1>1, <1>4, <1>6, <2>1, <2>3, <2>5
  <2>9. HubInv /\ hub[st] # NoSub /\ ev.file = f
    BY <2>4
  <2>10. Due(hub[st], x, f, NameIn(st, e.old), NameIn(st, e.new))
    BY ONLY <2>8, <2>9, st \in Streams, DueSent
  <2>. QED  BY <1>1, <2>10
<1>11. CASE e.op = "move"
  <2>1. e.old \in Places /\ e.new \in Places /\ e.new[1] # e.old[1]
    BY <1>2, <1>11 DEF Placed, Shape
  <2>2. Clients_(Subscribed(e.old)) \cap Clients_(Subscribed(e.new)) = {}
    <3>1. \A s \in Subscribed(e.old), t \in Subscribed(e.new) :
            s \in Streams /\ t \in Streams /\ Topic(s) = e.old[1] /\ Topic(t) = e.new[1]
      BY DEF Subscribed
    <3>2. \A s \in Subscribed(e.old), t \in Subscribed(e.new) : Client(s) # Client(t)
      BY <2>1, <3>1 DEF OneStreamEach
    <3>. QED  BY <3>2 DEF Clients_
  <2>3. PICK gone, came : /\ gone = EventOf("delete", f, e.old[2], None)
                          /\ came = EventOf("create", f, e.new[2], None)
    OBVIOUS
  <2>4. PICK A, B : /\ A = Told(Subscribed(e.old), gone)
                    /\ B = Told(Subscribed(e.new), came)
    OBVIOUS
  <2>5. EventsOf(f, e) = A \cup B
    <3>1. PICK both : both = Clients_(Subscribed(e.old)) \cap Clients_(Subscribed(e.new))
      OBVIOUS
    <3>2. PICK R : R = {[sub |-> hub[s], event |-> EventOf("rename", f, e.old[2], e.new[2])] :
                           s \in {t \in Subscribed(e.old) : Client(t) \in both}}
      OBVIOUS
    <3>3. EventsOf(f, e) =
            R \cup Told({t \in Subscribed(e.old) : Client(t) \notin both}, gone)
              \cup Told({t \in Subscribed(e.new) : Client(t) \notin both}, came)
      BY <1>11, <2>3, <3>1, <3>2 DEF EventsOf, Told
    <3>4. /\ {t \in Subscribed(e.old) : Client(t) \in both} = {}
          /\ {t \in Subscribed(e.old) : Client(t) \notin both} = Subscribed(e.old)
          /\ {t \in Subscribed(e.new) : Client(t) \notin both} = Subscribed(e.new)
      BY <2>2, <3>1
    <3>5. R = {}
      BY <3>2, <3>4
    <3>. QED  BY <2>4, <3>3, <3>4, <3>5
  <2>6. gone.file = f /\ gone.type = "delete" /\ came.file = f /\ came.type = "create" /\ came.from = e.new[2]
    BY <1>4, <1>5, <2>1, <2>3
  <2>7. /\ Suits(gone, e.old[2]) /\ Brings(gone, f, e.old[2]) = None
        /\ Suits(came, None) /\ Brings(came, f, None) = e.new[2]
    BY <1>4, <2>1, <2>6 DEF Suits, Brings, Value
  <2>8. /\ st \notin Subscribed(e.new) => \A m \in B : m.sub # h
        /\ st \notin Subscribed(e.old) => \A m \in A : m.sub # h
    <3>1. HubInv /\ hub[st] # NoSub /\ Subscribed(e.old) \in SUBSET Streams /\ Subscribed(e.new) \in SUBSET Streams
      BY <1>4
    <3>2. \A m \in B : m.sub = hub[st] => st \in Subscribed(e.new)
      BY ONLY <2>4, <3>1, st \in Streams, SendOne
    <3>3. \A m \in A : m.sub = hub[st] => st \in Subscribed(e.old)
      BY ONLY <2>4, <3>1, st \in Streams, SendOne
    <3>. QED  BY <1>3, <3>2, <3>3
  <2>9. CASE st \in Subscribed(e.old)
    <3>1. st \notin Subscribed(e.new)
      BY <1>4, <2>1, <2>9
    <3>2. x.to = Told(Subscribed(e.old), gone) \cup B
      BY <1>1, <2>4, <2>5
    <3>3. NameIn(st, e.old) = e.old[2] /\ NameIn(st, e.new) = None
      BY <1>4, <2>1, <2>9, <3>1
    <3>4. /\ HubInv /\ hub[st] # NoSub /\ Subscribed(e.old) \in SUBSET Streams
          /\ \A m \in B : m.sub # hub[st]
      BY <1>3, <1>4, <2>8, <3>1
    <3>5. /\ gone.file = f /\ Suits(gone, NameIn(st, e.old)) /\ Brings(gone, f, NameIn(st, e.old)) = NameIn(st, e.new)
      BY <2>6, <2>7, <3>3
    <3>6. Due(hub[st], x, f, NameIn(st, e.old), NameIn(st, e.new))
      BY ONLY <2>9, <3>2, <3>4, <3>5, st \in Streams, DueSent
    <3>. QED  BY <1>1, <3>6
  <2>10. CASE st \notin Subscribed(e.old)
    <3>1. x.to = Told(Subscribed(e.new), came) \cup A
      BY <1>1, <2>4, <2>5
    <3>2. NameIn(st, e.old) = None /\ (st \in Subscribed(e.new) => NameIn(st, e.new) = e.new[2])
          /\ (st \notin Subscribed(e.new) => NameIn(st, e.new) = None)
      BY <1>4, <2>1, <2>10
    <3>4. /\ HubInv /\ hub[st] # NoSub /\ Subscribed(e.new) \in SUBSET Streams
          /\ \A m \in A : m.sub # hub[st]
      BY <1>3, <1>4, <2>8, <2>10
    <3>5. /\ st \in Subscribed(e.new) =>
                came.file = f /\ Suits(came, NameIn(st, e.old)) /\ Brings(came, f, NameIn(st, e.old)) = NameIn(st, e.new)
          /\ st \notin Subscribed(e.new) => NameIn(st, e.old) = NameIn(st, e.new)
      BY <2>6, <2>7, <3>2
    <3>6. Due(hub[st], x, f, NameIn(st, e.old), NameIn(st, e.new))
      BY ONLY <3>1, <3>4, <3>5, st \in Streams, DueSent
    <3>. QED  BY <1>1, <3>6
  <2>. QED  BY <2>9, <2>10
<1>. QED  BY <1>1, <1>2, <1>7, <1>8, <1>9, <1>10, <1>11 DEF EmissionRecord, Emissions

\* what is published goes to subscribers of the hub
LEMMA EventsToHub ==
  ASSUME NEW f, NEW e, NEW m \in EventsOf(f, e), e.op \in Emissions \ {"none", "publish"}
  PROVE  \E st \in Streams : hub[st] # NoSub /\ m.sub = hub[st]
<1>1. /\ Subscribed(e.old) \in SUBSET Streams /\ \A st \in Subscribed(e.old) : hub[st] # NoSub
      /\ Subscribed(e.new) \in SUBSET Streams /\ \A st \in Subscribed(e.new) : hub[st] # NoSub
  BY DEF Subscribed
<1>2. CASE e.op = "create"
  BY <1>1, <1>2 DEF EventsOf
<1>3. CASE e.op = "modify"
  BY <1>1, <1>3 DEF EventsOf
<1>4. CASE e.op = "rename"
  BY <1>1, <1>4 DEF EventsOf
<1>5. CASE e.op = "delete"
  BY <1>1, <1>5 DEF EventsOf
<1>6. CASE e.op = "move"
  BY <1>1, <1>6 DEF EventsOf
<1>. QED  BY <1>2, <1>3, <1>4, <1>5, <1>6 DEF Emissions

LEMMA GetSubscribersConv ==
  ASSUME HubInv, ConvInv, OneStreamEach, NEW f \in Files, GetSubscribers(f)
  PROVE  ConvInv'
<1>1. /\ emitting[f].op \notin {"none", "publish"} /\ server' = server
      /\ UNCHANGED <<hub, sub, rows, conn, view>>
  BY DEF GetSubscribers, fileVars
<1>2. PICK o, place : o = emitting[f] /\ place = server[f]
  OBVIOUS
<1>3. o \in EmissionRecord /\ Shape(o, place) /\ place = o.new /\ o.op \in Emissions \ {"none", "publish"}
  BY <1>1, <1>2, Parts DEF FilesFine, ConvInv, Shaped, Shape, EmissionRecord
<1>4. PICK x : x = [Quiet EXCEPT !.op = "publish", !.to = EventsOf(f, o)]
  OBVIOUS
<1>5. x.op = "publish" /\ x.to = EventsOf(f, o)
  BY <1>4 DEF Quiet
<1>6. PICK e : e = IF x.to = {} THEN Quiet ELSE x
  OBVIOUS
<1>7. emitting' = [emitting EXCEPT ![f] = e]
  BY <1>2, <1>4, <1>5, <1>6 DEF GetSubscribers
<1>8. server' = [server EXCEPT ![f] = place]
  BY <1>1, <1>2, Parts DEF FilesFine
<1>9. Quiet.op = "none" /\ Quiet.to = {}
  BY DEF Quiet
<1>10. Shape(e, place)
  BY <1>5, <1>6, <1>9 DEF Shape
<1>11. ASSUME NEW m \in e.to PROVE sub[m.sub].stream # None
  <2>1. m \in EventsOf(f, o)
    BY <1>5, <1>6, <1>9
  <2>2. PICK st \in Streams : hub[st] # NoSub /\ m.sub = hub[st]
    BY <1>3, <2>1, EventsToHub
  <2>3. PICK i \in Subs : i = hub[st]
    BY <2>2, Parts DEF HandlersFine
  <2>4. sub[i].stream = st
    BY <2>3, HubOne
  <2>. QED  BY <2>2, <2>3, <2>4, NoneAssumption
<1>12. ASSUME NEW st \in Streams, hub[st] # NoSub, NEW w, Arrives(st, hub[st], emitting[f], server[f], f, w)
       PROVE  Arrives(st, hub[st], e, place, f, w)
  <2>1. w = NameIn(st, o.old)
    BY <1>1, <1>2, <1>12 DEF Arrives
  <2>2. Due(hub[st], x, f, NameIn(st, o.old), NameIn(st, o.new))
    <3>1. Due(hub[st], x, f, NameIn(st, emitting[f].old), NameIn(st, emitting[f].new))
      <4>1. /\ HubInv /\ ConvInv /\ OneStreamEach /\ hub[st] # NoSub /\ x.to = EventsOf(f, emitting[f])
            /\ emitting[f].op \notin {"none", "publish"}
        BY <1>1, <1>2, <1>5, <1>12
      <4>. QED  BY ONLY <4>1, f \in Files, st \in Streams, EventsDue
    <3>. QED  BY <1>2, <3>1
  <2>3. Due(hub[st], x, f, w, NameIn(st, place))
    BY <1>3, <2>1, <2>2
  <2>4. CASE x.to = {}
    <3>1. w = NameIn(st, place)
      BY <2>3, <2>4 DEF Due
    <3>. QED  BY <1>6, <1>9, <2>4, <3>1 DEF Arrives
  <2>5. CASE x.to # {}
    BY <1>5, <1>6, <2>3, <2>5 DEF Arrives
  <2>. QED  BY <2>4, <2>5
<1>. QED  BY <1>1, <1>7, <1>8, <1>10, <1>11, <1>12, EmissionConv

\* one event less to publish: its subscriber has got it, the others still get theirs
LEMMA DueRest ==
  ASSUME NEW h, NEW o, NEW m \in o.to, NEW rest, NEW f, NEW w, NEW there,
         rest.to = o.to \ {m}, Due(h, o, f, w, there)
  PROVE  /\ m.sub # h => Due(h, rest, f, w, there)
         /\ m.sub = h => /\ m.event.file = f /\ Suits(m.event, w) /\ Brings(m.event, f, w) = there
                         /\ Due(h, rest, f, there, there)
<1>1. CASE m.sub # h
  BY <1>1 DEF Due
<1>2. CASE m.sub = h
  <2>1. PICK n \in o.to : /\ n.sub = h /\ \A p \in o.to : p.sub = h => p = n
                          /\ n.event.file = f /\ Suits(n.event, w) /\ Brings(n.event, f, w) = there
    BY <1>2 DEF Due
  <2>2. n = m
    BY <1>2, <2>1
  <2>3. \A p \in rest.to : p.sub # h
    BY <2>1, <2>2
  <2>. QED  BY <1>2, <2>1, <2>2, <2>3 DEF Due
<1>. QED  BY <1>1, <1>2

\* nothing left to publish: the operation is over
LEMMA ArrivesRest ==
  ASSUME NEW st, NEW h, NEW rest, NEW place, NEW f, NEW w,
         rest.op = "publish", Due(h, rest, f, w, NameIn(st, place)),
         NEW e, e = IF rest.to = {} THEN Quiet ELSE rest
  PROVE  Arrives(st, h, e, place, f, w)
<1>1. Quiet.op = "none"
  BY DEF Quiet
<1>2. CASE rest.to = {}
  <2>1. w = NameIn(st, place)
    BY <1>2 DEF Due
  <2>2. e.op = "none"
    BY <1>1, <1>2
  <2>. QED  BY <2>1, <2>2 DEF Arrives
<1>3. CASE rest.to # {}
  BY <1>3 DEF Arrives
<1>. QED  BY <1>2, <1>3

LEMMA PublishConv ==
  ASSUME HubInv, ConvInv, NEW f \in Files, NEW m, Publish(f, m)
  PROVE  ConvInv'
<1>1. PICK o : o = emitting[f]
  OBVIOUS
<1>2. /\ o \in EmissionRecord /\ o.op = "publish" /\ m \in o.to /\ m.sub \in Subs /\ m.event \in Proper
      /\ \A g \in Files : \A n \in emitting[g].to : n.sub \in Subs
      /\ UNCHANGED <<server, hub, rows, conn, view>>
  BY <1>1, Parts DEF Publish, fileVars, FilesFine, EmissionRecord, Message
<1>3. PICK rest : rest = [o EXCEPT !.to = o.to \ {m}]
  OBVIOUS
<1>4. rest.op = "publish" /\ rest.to = o.to \ {m}
  BY <1>2, <1>3 DEF EmissionRecord
<1>5. PICK e : e = IF rest.to = {} THEN Quiet ELSE rest
  OBVIOUS
<1>6. emitting' = [emitting EXCEPT ![f] = e]
  BY <1>1, <1>3, <1>4, <1>5, Parts DEF Publish, FilesFine
<1>7. Quiet.op = "none" /\ Quiet.to = {}
  BY DEF Quiet
<1>8. Shape(e, server[f]) /\ e.to \subseteq o.to
  BY <1>4, <1>5, <1>7 DEF Shape
<1>9. \A st \in Streams : hub[st] # NoSub => hub[st] \in Subs
  BY Parts DEF HandlersFine
<1>10. ASSUME NEW st \in Streams, NEW w, Arrives(st, hub[st], o, server[f], f, w)
       PROVE  /\ m.sub # hub[st] => Arrives(st, hub[st], e, server[f], f, w)
              /\ m.sub = hub[st] => /\ m.event.file = f /\ Suits(m.event, w)
                                    /\ Arrives(st, hub[st], e, server[f], f, Brings(m.event, f, w))
  <2>1. PICK there, h : there = NameIn(st, server[f]) /\ h = hub[st]
    OBVIOUS
  <2>2. Due(h, o, f, w, there)
    BY <1>2, <1>10, <2>1 DEF Arrives
  <2>3. CASE m.sub # h
    <3>1. Due(h, rest, f, w, there)
      BY <1>2, <1>4, <2>2, <2>3, DueRest
    <3>. QED  BY <1>4, <1>5, <2>1, <2>3, <3>1, ArrivesRest
  <2>4. CASE m.sub = h
    <3>1. /\ m.event.file = f /\ Suits(m.event, w) /\ Brings(m.event, f, w) = there
          /\ Due(h, rest, f, there, there)
      BY <1>2, <1>4, <2>2, <2>4, DueRest
    <3>2. Arrives(st, h, e, server[f], f, there)
      BY <1>4, <1>5, <2>1, <3>1, ArrivesRest
    <3>. QED  BY <2>1, <2>4, <3>1, <3>2
  <2>. QED  BY <2>3, <2>4
<1>11. CASE sub[m.sub].closed
  <2>1. sub' = sub
    BY <1>11 DEF Publish
  <2>2. PICK place : place = server[f] /\ server' = [server EXCEPT ![f] = place]
    BY <1>2, Parts DEF FilesFine
  <2>3. \A n \in e.to : sub[n.sub].stream # None
    BY <1>1, <1>8 DEF ConvInv, Held
  <2>4. ASSUME NEW st \in Streams, hub[st] # NoSub PROVE m.sub # hub[st]
    BY <1>9, <1>11, <2>4, HubOne
  <2>5. \A st \in Streams : hub[st] # NoSub =>
          \A w : Arrives(st, hub[st], emitting[f], server[f], f, w) => Arrives(st, hub[st], e, place, f, w)
    BY <1>1, <1>10, <2>2, <2>4
  <2>6. UNCHANGED <<hub, sub, rows, conn, view>> /\ Shape(e, place)
    BY <1>2, <1>8, <2>1, <2>2
  <2>7. HubInv /\ ConvInv
    OBVIOUS
  <2>. QED  BY ONLY <1>6, <2>2, <2>3, <2>5, <2>6, <2>7, f \in Files, EmissionConv
<1>12. CASE ~sub[m.sub].closed
  <2>1. PICK i \in Subs : i = m.sub
    BY <1>2
  <2>2. PICK b : b = Append(sub[i].buffer, m.event)
    OBVIOUS
  <2>3. PICK x : x = [sub[i] EXCEPT !.buffer = b, !.timer = TRUE]
    OBVIOUS
  <2>4. sub \in [Subs -> SubRecord] /\ sub[i] \in SubRecord
    BY Parts DEF SubsFine
  <2>5. /\ x.buffer = b /\ x.ch = sub[i].ch /\ x.closed = sub[i].closed
        /\ x.stream = sub[i].stream /\ x.online = sub[i].online
    BY <2>3, <2>4 DEF SubRecord
  <2>6. sub' = [sub EXCEPT ![i] = x]
    BY <1>12, <2>1, <2>2, <2>3, <2>4 DEF Publish
  <2>7. SameSubs /\ \A j \in Subs : sub'[j] = IF j = i THEN x ELSE sub[j]
    BY <2>5, <2>6, ChangedSame
  <2>8. Live' /\ Attached' /\ \A st \in Streams : Greeted(st)' <=> Greeted(st)
    BY <1>2, <2>7, ConnsKept
  <2>9. InHub'
    BY <1>2, <2>7 DEF ConvInv, InHub, SameSubs
  <2>10. \A g \in Files : emitting'[g] = IF g = f THEN e ELSE emitting[g]
    BY <1>6, Parts DEF FilesFine
  <2>11. Held'
    <3>1. ASSUME NEW g \in Files, NEW n \in emitting'[g].to PROVE n \in emitting[g].to
      BY <1>1, <1>8, <2>10
    <3>2. ASSUME NEW g \in Files, NEW n \in emitting'[g].to PROVE sub'[n.sub].stream # None
      BY <1>2, <2>7, <3>1 DEF ConvInv, Held, SameSubs
    <3>. QED  BY <3>2 DEF Held
  <2>12. Shaped'
    BY <1>2, <1>8, <2>10 DEF ConvInv, Shaped
  <2>13. ASSUME NEW st \in Streams PROVE Tracked(st)'
    <3>. SUFFICES ASSUME hub[st] # NoSub, view[st] # Unknown
         PROVE  /\ sub'[hub[st]].online => rows[Client(st)] = <<>>
                /\ \E v \in View : Follows(st, v)' /\ (Greeted(st)' \/ v = view[st])
      BY <1>2 DEF Tracked
    <3>1. PICK h \in Subs : h = hub[st]
      BY <1>9
    <3>2. sub'[h].online = sub[h].online /\ sub'[h].ch = sub[h].ch
          /\ sub'[h].buffer = IF h = i THEN b ELSE sub[h].buffer
      BY <2>5, <2>7
    <3>3. sub'[hub[st]].online => rows[Client(st)] = <<>>
      BY <3>1, <3>2 DEF ConvInv, Followed, Tracked
    <3>4. PICK v \in View : Follows(st, v) /\ (Greeted(st) \/ v = view[st])
      BY DEF ConvInv, Followed, Tracked
    <3>5. PICK r : r = rows[Client(st)]
      OBVIOUS
    <3>6. r \in Seq(RowRecord) /\ sub[h].ch \in Seq(Proper) /\ sub[h].buffer \in Seq(Proper)
      BY <3>1, <3>5, HubOne
    <3>7. CASE h # i
      <4>1. sub'[h].ch = sub[h].ch /\ sub'[h].buffer = sub[h].buffer
        BY <3>2, <3>7
      <4>2. ASSUME NEW g \in Files, NEW w, Arrives(st, h, emitting[g], server[g], g, w)
            PROVE  Arrives(st, h, emitting'[g], server[g], g, w)
        BY <1>1, <1>10, <2>1, <2>10, <3>1, <3>7, <4>2
      <4>3. Follows(st, v)'
        BY <1>2, <3>1, <3>4, <4>1, <4>2 DEF Follows
      <4>. QED  BY <2>8, <3>3, <3>4, <4>3
    <3>8. CASE h = i
      <4>1. sub'[h].ch = sub[h].ch /\ sub'[h].buffer = b
        BY <3>2, <3>8
      <4>2. m.event.file = f
        <5>1. PICK w : Arrives(st, h, o, server[f], f, w)
          BY <1>1, <3>1, <3>4 DEF Follows
        <5>. QED  BY <1>10, <2>1, <3>1, <3>8, <5>1
      <4>3. ASSUME NEW g \in Files
            PROVE  \E w \in Names \cup {None} :
                     Carries(sub[h].ch, r, b, g, v[g], w) /\ Arrives(st, h, emitting'[g], server[g], g, w)
        <5>1. PICK w \in Names \cup {None} :
                Carries(sub[h].ch, r, sub[h].buffer, g, v[g], w) /\ Arrives(st, h, emitting[g], server[g], g, w)
          BY <3>1, <3>4, <3>5 DEF Follows
        <5>2. /\ m.event.file = g => Suits(m.event, w)
              /\ Arrives(st, h, emitting'[g], server[g], g, Brings(m.event, g, w))
          <6>1. CASE g = f
            BY <1>1, <1>10, <2>1, <2>10, <3>1, <3>8, <5>1, <6>1
          <6>2. CASE g # f
            <7>1. Brings(m.event, g, w) = w
              BY <4>2, <6>2 DEF Brings
            <7>. QED  BY <2>10, <4>2, <5>1, <6>2, <7>1
          <6>. QED  BY <6>1, <6>2
        <5>3. PICK u : u = Brings(m.event, g, w)
          OBVIOUS
        <5>4. Carries(sub[h].ch, r, b, g, v[g], u)
          BY <1>2, <2>2, <3>6, <3>8, <5>1, <5>2, <5>3, CarriesOneMore
        <5>5. u \in Names \cup {None}
          <6>1. b \in Seq(Proper) /\ v[g] \in Names \cup {None}
            BY <1>2, <2>2, <3>6, <3>8, AppendProperties DEF View
          <6>. QED  BY <3>6, <5>4, <6>1, CarriesTyped
        <5>. QED  BY <5>2, <5>3, <5>4, <5>5
      <4>4. Follows(st, v)'
        BY <1>2, <3>1, <3>5, <4>1, <4>3 DEF Follows
      <4>. QED  BY <2>8, <3>3, <3>4, <4>4
    <3>. QED  BY <3>7, <3>8
  <2>. QED  BY <2>8, <2>9, <2>11, <2>12, <2>13 DEF ConvInv, Followed
<1>. QED  BY <1>11, <1>12

-----------------------------------------------------------------------------
(***************************************************************************)
(* Every step keeps the invariant, and a stream that has drained shows the *)
(* folder.                                                                 *)
(***************************************************************************)
LEMMA HandlerConv ==
  ASSUME HubInv, ConvInv, OneStreamEach, NEW k \in Conns, Handler(k)
  PROVE  ConvInv'
<1>1. CASE ClientLists(k)
  BY <1>1, ClientListsConv
<1>2. CASE HandlerSends(k)
  BY <1>2, HandlerSendsConv
<1>3. CASE Stop(k)
  BY <1>3, StopConv
<1>4. CASE SetOffline(k)
  BY <1>4, SetOfflineConv
<1>5. CASE HandlerEnds(k)
  BY <1>5, HandlerEndsConv
<1>. QED  BY <1>1, <1>2, <1>3, <1>4, <1>5 DEF Handler

LEMMA StutterConv ==
  ASSUME ConvInv, UNCHANGED vars
  PROVE  ConvInv'
<1>1. UNCHANGED <<server, emitting, hub, sub, rows, conn, view>>
  BY DEF vars
<1>2. Followed'
  BY <1>1 DEF ConvInv, Followed, Tracked, Follows, Greeted
<1>3. InHub' /\ Attached'
  BY <1>1 DEF ConvInv, InHub, Attached
<1>4. Live' /\ Held' /\ Shaped'
  BY <1>1 DEF ConvInv, Live, Connected, Held, Shaped
<1>. QED  BY <1>2, <1>3, <1>4 DEF ConvInv

LEMMA NextConv ==
  ASSUME HubInv, ConvInv, OneStreamEach, [Next]_vars
  PROVE  ConvInv'
<1>1. CASE FileOperation
  BY <1>1, FileOperationConv
<1>2. CASE Emission
  <2>1. PICK f \in Files : GetSubscribers(f) \/ \E m \in emitting[f].to : Publish(f, m)
    BY <1>2 DEF Emission
  <2>2. CASE GetSubscribers(f)
    BY <2>2, GetSubscribersConv
  <2>3. ASSUME NEW m \in emitting[f].to, Publish(f, m) PROVE ConvInv'
    BY <2>3, PublishConv
  <2>. QED  BY <2>1, <2>2, <2>3
<1>3. ASSUME NEW i \in Subs, TimerFires(i) \/ Flush(i) PROVE ConvInv'
  BY <1>3, TimerFiresConv, FlushConv
<1>4. ASSUME NEW k \in Conns, Handler(k) PROVE ConvInv'
  BY <1>4, HandlerConv
<1>5. ASSUME NEW k \in Conns, ClientLeaves(k) PROVE ConvInv'
  BY <1>5, ClientLeavesConv
<1>6. ASSUME NEW k \in Conns, NEW st \in Streams, Subscribe(k, st) PROVE ConvInv'
  BY <1>6, SubscribeConv
<1>7. ASSUME NEW st \in Streams, Expire(st) PROVE ConvInv'
  BY <1>7, ExpireConv
<1>8. CASE Close
  BY <1>8, CloseAllConv
<1>9. CASE Restart
  BY <1>9, RestartConv
<1>10. CASE UNCHANGED vars
  BY <1>10, StutterConv
<1>. QED  BY <1>1, <1>2, <1>3, <1>4, <1>5, <1>6, <1>7, <1>8, <1>9, <1>10 DEF Next

LEMMA ConvInit == Init => ConvInv
<1>. SUFFICES ASSUME Init PROVE ConvInv
  OBVIOUS
<1>1. /\ \A st \in Streams : hub[st] = NoSub
      /\ \A i \in Subs : sub[i] = Unused
      /\ \A k \in Conns : conn[k] = Idle
      /\ \A f \in Files : emitting[f] = Quiet
  BY DEF Init
<1>2. Unused.closed /\ Idle.pc = "idle" /\ Quiet.op = "none" /\ Quiet.to = {}
  BY DEF Unused, Idle, Quiet
<1>3. Followed
  BY <1>1 DEF Followed, Tracked
<1>4. InHub /\ Attached /\ Live
  BY <1>1, <1>2 DEF InHub, Attached, Live, Connected
<1>5. Held /\ Shaped
  BY <1>1, <1>2 DEF Held, Shaped, Shape
<1>. QED  BY <1>3, <1>4, <1>5 DEF ConvInv

LEMMA ConvInvConverged ==
  ASSUME HubInv, ConvInv
  PROVE  Converged
<1>. SUFFICES ASSUME NEW st \in Streams, Drained(st), view[st] # Unknown, NEW k \in Conns,
                     conn[k] = [pc |-> "resumed", stream |-> st, ch |-> hub[st]]
     PROVE  view[st] = Listing(st)
  BY DEF Converged
<1>1. /\ hub[st] # NoSub /\ sub[hub[st]].buffer = <<>> /\ sub[hub[st]].ch = <<>> /\ rows[Client(st)] = <<>>
      /\ \A f \in Files : emitting[f] = Quiet
  BY DEF Drained
<1>2. ~Greeted(st)
  <2>1. Connected(k) /\ conn[k].stream = st /\ conn[k].pc = "resumed"
    BY DEF Connected
  <2>2. \A j \in Conns : Connected(j) /\ conn[j].stream = st => j = k
    BY <2>1 DEF ConvInv, Live
  <2>. QED  BY <2>1, <2>2 DEF Greeted, Connected
<1>3. PICK v \in View : Follows(st, v) /\ v = view[st]
  BY <1>1, <1>2 DEF ConvInv, Followed, Tracked
<1>4. ASSUME NEW f \in Files PROVE v[f] = NameIn(st, server[f])
  <2>1. PICK w : Carries(<<>>, <<>>, <<>>, f, v[f], w) /\ Arrives(st, hub[st], Quiet, server[f], f, w)
    BY <1>1, <1>3 DEF Follows
  <2>2. Quiet.op = "none"
    BY DEF Quiet
  <2>3. w = NameIn(st, server[f])
    BY <2>1, <2>2 DEF Arrives
  <2>4. <<>> \o <<>> = <<>>
    <3>1. <<>> \in Seq(Proper)
      BY EmptySeq
    <3>. QED  BY <3>1, ConcatEmptySeq
  <2>5. w = v[f]
    BY <2>1, <2>4, EventsEmpty, ShownEmpty DEF Carries
  <2>. QED  BY <2>3, <2>5
<1>5. PICK l \in View : l = Listing(st) /\ \A f \in Files : l[f] = NameIn(st, server[f])
  BY ListingTyped
<1>6. v = l
  BY <1>4, <1>5 DEF View
<1>. QED  BY <1>3, <1>5, <1>6

(* A client that is connected and has received everything shows the folder   *)
(* as it is, whatever was merged, stored while it was away, taken back, sent *)
(* to a subscriber that had just been replaced or cut by a restart, unless   *)
(* one of the named losses has happened; when no client watches two folders, *)
(* whose rows the database does not tell apart (eventhub, all of it;         *)
(* inventory/fs_event.go).                                                   *)
THEOREM FeedConverges == OneStreamEach => (Spec => []Converged)
<1>1. Init => HubInv /\ Timed /\ ConvInv
  BY HubInvInit, ConvInit
<1>2. OneStreamEach /\ HubInv /\ Timed /\ ConvInv /\ [Next]_vars
        => (OneStreamEach /\ HubInv /\ Timed /\ ConvInv)'
  <2>. SUFFICES ASSUME OneStreamEach, HubInv, Timed, ConvInv, [Next]_vars
       PROVE  (OneStreamEach /\ HubInv /\ Timed /\ ConvInv)'
    OBVIOUS
  <2>1. OneStreamEach'
    BY DEF OneStreamEach, Client
  <2>2. HubInv' /\ Timed'
    BY NextGood DEF Good
  <2>3. ConvInv'
    BY NextConv
  <2>. QED  BY <2>1, <2>2, <2>3
<1>3. HubInv /\ ConvInv => Converged
  BY ConvInvConverged
<1>. QED  BY <1>1, <1>2, <1>3, PTL DEF Spec
=============================================================================
